----------------------------- MODULE PeerProofs -----------------------------
(***************************************************************************)
(* What is proved of the processes that meet at one target: the commands   *)
(* of Prune, which lock the sessions of one store, the clients and daemons *)
(* of Spawn, which meet at the socket and its spawn lock, and the clients  *)
(* of Steer, which correct one session's turn.  Each has an invariant that *)
(* its actions preserve; the properties follow from it.                    *)
(***************************************************************************)
EXTENDS Prune, Spawn, Steer, FiniteSetTheorems, WellFoundedInduction, TLAPS

----------------------------------------------------------------------------
(* Prune.                                                                   *)

Kinds == {"absent", "made", "active", "finished", "cleared", "tombstone"}
Directories == [kind : Kinds, name : {"", Name}, finished_at : Nat, turns : Nat]
CommandPlaces == {"idle", "refused", "claimed", "allocated", "done", "selected", "locking",
                  "clearing", "deleting", "reserved", "driving", "killed"}
TurnCounts == [Ids -> Nat]
Sweeps == [pc : CommandPlaces, targets : SUBSET Ids, held : SUBSET Ids, now : Nat,
           turns : TurnCounts, for : Ids \cup {0}]
PruneTypes ==
    /\ store \in [Ids -> Directories] /\ lock \in [Ids -> SUBSET Commands] /\ time \in Nat
    /\ sweep \in [Commands -> Sweeps]

\* A lock has one holder, and a holder knows of it: it is one of those a sweep
\* has taken, or that of the session whose turn it is.
Holds(c, i) ==
    \/ sweep[c].pc \in {"locking", "clearing"} /\ i \in sweep[c].held
    \/ sweep[c].pc \in {"reserved", "driving"} /\ i = sweep[c].for
LocksAreHeld ==
    \A c \in Commands, i \in Ids :
        /\ Holds(c, i) => lock[i] = {c}
        /\ c \in lock[i] => Holds(c, i) /\ lock[i] = {c}

\* What a command that has got so far knows.
Progress ==
    \A c \in Commands :
        /\ sweep[c].pc \in {"allocated", "reserved", "driving"} => sweep[c].for \in Ids
        /\ sweep[c].pc \in {"idle", "selected", "deleting"} =>
              sweep[c].held = {} /\ sweep[c].turns = NoTurns
        /\ sweep[c].pc = "deleting" => \E i \in Ids : sweep[c].targets = {i}
        /\ sweep[c].pc = "clearing" => sweep[c].held = sweep[c].targets

\* A sweep has locked a first part of its targets, in their order.
InOrder ==
    \A c \in Commands : sweep[c].pc = "locking" =>
        /\ sweep[c].held \subseteq sweep[c].targets
        /\ \A i \in sweep[c].held, j \in Missing(c) : i < j

\* Since a sweep began, a target that has had another turn has finished after
\* it; once verified, none of them has.
NewTurnsAreYounger ==
    \A c \in Commands : sweep[c].pc \in {"locking", "clearing"} /\ sweep[c].turns # NoTurns =>
        /\ sweep[c].now <= time
        /\ \A i \in sweep[c].targets : store[i].kind = "finished" =>
            /\ \/ store[i].turns = sweep[c].turns[i]
               \/ store[i].finished_at > sweep[c].now
            /\ sweep[c].pc = "clearing" => store[i].finished_at + OlderThan <= sweep[c].now

PruneInv == PruneTypes /\ LocksAreHeld /\ Progress /\ InOrder /\ NewTurnsAreYounger

LEMMA Naturals1 == IsFiniteSet(Ids) /\ Ids \subseteq Nat /\ 0 \notin Ids /\ OlderThan \in Nat
  <1>1. Cardinality(Ids) \in Nat
    BY PruneAssumption, FS_CardinalityType
  <1> QED
    BY <1>1, PruneAssumption

LEMMA NoTurnsCounts == NoTurns \in TurnCounts
  BY DEF NoTurns, TurnCounts

LEMMA PruneBegins == PruneInit => PruneInv
  <1> SUFFICES ASSUME PruneInit PROVE PruneInv
    OBVIOUS
  <1>1. NoSweep \in Sweeps
    BY NoTurnsCounts DEF NoSweep, Sweeps, CommandPlaces
  <1>2. PruneTypes
    <2>1. store \in [Ids -> Directories]
      BY DEF PruneInit, Directories, Kinds
    <2>2. lock \in [Ids -> SUBSET Commands] /\ time \in Nat /\ sweep \in [Commands -> Sweeps]
      BY <1>1 DEF PruneInit
    <2> QED
      BY <2>1, <2>2 DEF PruneTypes
  <1>3. LocksAreHeld /\ Progress /\ InOrder /\ NewTurnsAreYounger
    BY DEF PruneInit, LocksAreHeld, Holds, Progress, InOrder, NewTurnsAreYounger, NoSweep
  <1> QED
    BY <1>2, <1>3 DEF PruneInv

\* Every step of PruneNext preserves the invariant: in each case what the step does
\* to the records, field by field, comes first.
LEMMA PruneStep == PruneInv /\ [PruneNext]_pvars => PruneInv'
  <1> SUFFICES ASSUME PruneInv, [PruneNext]_pvars PROVE PruneInv'
    OBVIOUS
  <1>t. PruneTypes
    BY DEF PruneInv
  <1>k. LocksAreHeld
    BY DEF PruneInv
  <1>p. Progress
    BY DEF PruneInv
  <1>o. InOrder
    BY DEF PruneInv
  <1>y. NewTurnsAreYounger
    BY DEF PruneInv
  <1>s. /\ DOMAIN sweep = Commands
        /\ \A d \in Commands :
            /\ sweep[d] \in Sweeps
            /\ sweep[d].pc \in CommandPlaces /\ sweep[d].targets \subseteq Ids
            /\ sweep[d].held \subseteq Ids /\ sweep[d].now \in Nat
            /\ sweep[d].turns \in TurnCounts /\ sweep[d].for \in Ids \cup {0}
    BY <1>t DEF PruneTypes, Sweeps
  <1>d. /\ DOMAIN store = Ids
        /\ \A i \in Ids :
            /\ store[i] \in Directories
            /\ store[i].kind \in Kinds /\ store[i].name \in {"", Name}
            /\ store[i].finished_at \in Nat /\ store[i].turns \in Nat
    BY <1>t DEF PruneTypes, Directories
  <1>l. lock \in [Ids -> SUBSET Commands] /\ time \in Nat
    BY <1>t DEF PruneTypes
  <1>1. ASSUME NEW c \in Commands, ClaimAlias(c) PROVE PruneInv'
    <2>1. /\ sweep[c].pc = "idle"
          /\ store' = store /\ lock' = lock /\ time' = time
      BY <1>1 DEF ClaimAlias
    <2>2. /\ sweep' \in [Commands -> Sweeps]
          /\ \A d \in Commands : d # c => sweep'[d] = sweep[d]
          /\ sweep'[c].pc \in {"refused", "claimed"}
          /\ sweep'[c].targets = sweep[c].targets
          /\ sweep'[c].held = sweep[c].held
          /\ sweep'[c].now = sweep[c].now
          /\ sweep'[c].turns = sweep[c].turns
          /\ sweep'[c].for = sweep[c].for
      BY <1>1, <1>t, <1>s DEF ClaimAlias, PruneTypes, Sweeps, CommandPlaces
    <2>a. PruneTypes'
      BY <1>t, <1>s, <1>d, <1>l, <2>1, <2>2 DEF PruneTypes
    <2>b. LocksAreHeld'
      BY <1>k, <2>1, <2>2 DEF LocksAreHeld, Holds
    <2>c. Progress'
      BY <1>p, <2>1, <2>2 DEF Progress
    <2>d. InOrder'
      BY <1>o, <2>1, <2>2 DEF InOrder, Missing
    <2>e. NewTurnsAreYounger'
      BY <1>y, <2>1, <2>2 DEF NewTurnsAreYounger
    <2> QED
      BY <2>a, <2>b, <2>c, <2>d, <2>e DEF PruneInv
  <1>2. ASSUME NEW c \in Commands, Allocate(c) PROVE PruneInv'
    <2>1. PICK i \in Ids :
            /\ store[i].kind = "absent"
            /\ store' = [store EXCEPT ![i].kind = "made"]
            /\ sweep' = [sweep EXCEPT ![c].pc = "allocated", ![c].for = i]
      BY <1>2 DEF Allocate
    <2>2. /\ sweep[c].pc = "claimed"
          /\ lock' = lock /\ time' = time
      BY <1>2 DEF Allocate
    <2>3. /\ sweep' \in [Commands -> Sweeps]
          /\ \A d \in Commands : d # c => sweep'[d] = sweep[d]
          /\ sweep'[c].pc = "allocated"
          /\ sweep'[c].targets = sweep[c].targets
          /\ sweep'[c].held = sweep[c].held
          /\ sweep'[c].now = sweep[c].now
          /\ sweep'[c].turns = sweep[c].turns
          /\ sweep'[c].for = i
      BY ZenonT(30), <2>1, <1>t, <1>s DEF PruneTypes, Sweeps, CommandPlaces
    <2>4. /\ store' \in [Ids -> Directories]
          /\ \A j \in Ids : j # i => store'[j] = store[j]
          /\ store'[i].kind = "made"
          /\ store'[i].name = store[i].name
          /\ store'[i].finished_at = store[i].finished_at
          /\ store'[i].turns = store[i].turns
      BY <2>1, <1>t, <1>d DEF PruneTypes, Directories, Kinds
    <2>a. PruneTypes'
      BY <1>t, <1>s, <1>d, <1>l, <2>1, <2>2, <2>3, <2>4 DEF PruneTypes
    <2>b. LocksAreHeld'
      BY <1>k, <2>1, <2>2, <2>3, <2>4 DEF LocksAreHeld, Holds
    <2>c. Progress'
      BY <1>p, <2>1, <2>2, <2>3, <2>4 DEF Progress
    <2>d. InOrder'
      BY <1>o, <2>1, <2>2, <2>3, <2>4 DEF InOrder, Missing
    <2>e. NewTurnsAreYounger'
      BY <1>y, <2>1, <2>2, <2>3, <2>4 DEF NewTurnsAreYounger
    <2> QED
      BY <2>a, <2>b, <2>c, <2>d, <2>e DEF PruneInv
  <1>3. ASSUME NEW c \in Commands, Publish(c) PROVE PruneInv'
    <2> DEFINE i == sweep[c].for
    <2>1. /\ sweep[c].pc = "allocated" /\ lock[i] = {}
          /\ lock' = lock /\ time' = time
          /\ i \in Ids
      BY <1>3, <1>p DEF Publish, Progress
    <2>2. /\ sweep' \in [Commands -> Sweeps]
          /\ \A d \in Commands : d # c => sweep'[d] = sweep[d]
          /\ sweep'[c].pc = "done"
          /\ sweep'[c].targets = sweep[c].targets
          /\ sweep'[c].held = sweep[c].held
          /\ sweep'[c].now = sweep[c].now
          /\ sweep'[c].turns = sweep[c].turns
          /\ sweep'[c].for = sweep[c].for
      BY <1>3, <1>t, <1>s DEF Publish, PruneTypes, Sweeps, CommandPlaces
    <2>3. /\ store' \in [Ids -> Directories]
          /\ \A j \in Ids : j # i => store'[j] = store[j]
          /\ store'[i].kind = "active"
          /\ store'[i].name = Name
          /\ store'[i].finished_at = store[i].finished_at
          /\ store'[i].turns = 1
      <3>1. store[i] \in Directories /\ i \in Ids
        BY <2>1, <1>t DEF PruneTypes
      <3>2. store' = [store EXCEPT ![i].kind = "active", ![i].name = Name, ![i].turns = 1]
        BY <1>3 DEF Publish
      <3> DEFINE dir == [store[i] EXCEPT !.kind = "active", !.name = Name, !.turns = 1]
      <3>3. /\ dir \in Directories /\ dir.kind = "active" /\ dir.name = Name
            /\ dir.finished_at = store[i].finished_at /\ dir.turns = 1
        BY <3>1 DEF Directories, Kinds
      <3>4. store' = [store EXCEPT ![i] = dir]
        BY <3>2
      <3> HIDE DEF i, dir
      <3> QED
        BY <3>1, <3>3, <3>4, <1>t DEF PruneTypes
    <2> HIDE DEF i
    <2>a. PruneTypes'
      BY <1>t, <1>s, <1>d, <1>l, <2>1, <2>2, <2>3 DEF PruneTypes
    <2>b. LocksAreHeld'
      BY <1>k, <2>1, <2>2, <2>3 DEF LocksAreHeld, Holds
    <2>c. Progress'
      BY <1>p, <2>1, <2>2, <2>3 DEF Progress
    <2>d. InOrder'
      BY <1>o, <2>1, <2>2, <2>3 DEF InOrder, Missing
    <2>e. NewTurnsAreYounger'
      BY <1>y, <2>1, <2>2, <2>3, <1>s DEF NewTurnsAreYounger
    <2> QED
      BY <2>a, <2>b, <2>c, <2>d, <2>e DEF PruneInv
  <1>4. ASSUME NEW c \in Commands, Select(c) PROVE PruneInv'
    <2> DEFINE found == {i \in Ids : Prunable(i, time)}
    <2>1. /\ sweep[c].pc = "idle"
          /\ store' = store /\ lock' = lock /\ time' = time
      BY <1>4 DEF Select
    <2>2. /\ found \in SUBSET Ids
          /\ sweep' = IF found = {} THEN [sweep EXCEPT ![c].pc = "done"]
                       ELSE [sweep EXCEPT ![c].pc = "selected", ![c].targets = found]
      BY <1>4 DEF Select
    <2> HIDE DEF found
    <2>3. /\ sweep' \in [Commands -> Sweeps]
          /\ \A d \in Commands : d # c => sweep'[d] = sweep[d]
          /\ sweep'[c].pc \in {"done", "selected"}
          /\ sweep'[c].held = sweep[c].held
          /\ sweep'[c].now = sweep[c].now
          /\ sweep'[c].turns = sweep[c].turns
          /\ sweep'[c].for = sweep[c].for
      <3>1. CASE found = {}
        BY <2>2, <3>1, <1>t, <1>s DEF PruneTypes, Sweeps, CommandPlaces
      <3>2. CASE found # {}
        <4>1. sweep' = [sweep EXCEPT ![c].pc = "selected", ![c].targets = found]
          BY <2>2, <3>2
        <4>2. found \in SUBSET Ids
          BY <2>2
        <4>3. [sweep[c] EXCEPT !.pc = "selected", !.targets = found] \in Sweeps
          BY <4>2, <1>s DEF Sweeps, CommandPlaces
        <4>4. sweep' \in [Commands -> Sweeps]
          BY <4>1, <4>3, <1>t DEF PruneTypes
        <4>5. /\ \A d \in Commands : d # c => sweep'[d] = sweep[d]
              /\ sweep'[c] = [sweep[c] EXCEPT !.pc = "selected", !.targets = found]
          BY <4>1, <1>s
        <4> QED
          BY <4>4, <4>5, <1>s DEF Sweeps
      <3> QED
        BY <3>1, <3>2
    <2>a. PruneTypes'
      BY <1>t, <1>s, <1>d, <1>l, <2>1, <2>3 DEF PruneTypes
    <2>b. LocksAreHeld'
      BY <1>k, <2>1, <2>3 DEF LocksAreHeld, Holds
    <2>c. Progress'
      BY <1>p, <2>1, <2>3 DEF Progress
    <2>d. InOrder'
      BY <1>o, <2>1, <2>3 DEF InOrder, Missing
    <2>e. NewTurnsAreYounger'
      BY <1>y, <2>1, <2>3 DEF NewTurnsAreYounger
    <2> QED
      BY <2>a, <2>b, <2>c, <2>d, <2>e DEF PruneInv
  <1>5. ASSUME NEW c \in Commands, Confirm(c) PROVE PruneInv'
    <2>1. /\ sweep[c].pc = "selected"
          /\ store' = store /\ lock' = lock /\ time' = time
      BY <1>5 DEF Confirm
    <2> DEFINE counts == [i \in Ids |-> store[i].turns]
    <2>2. counts \in TurnCounts /\ \A i \in Ids : counts[i] = store[i].turns
      BY <1>d DEF TurnCounts
    <2>3. sweep' = [sweep EXCEPT ![c].pc = "locking", ![c].now = time, ![c].turns = counts]
      BY <1>5 DEF Confirm
    <2> HIDE DEF counts
    <2>4. /\ sweep' \in [Commands -> Sweeps]
          /\ \A d \in Commands : d # c => sweep'[d] = sweep[d]
          /\ sweep'[c].pc = "locking"
          /\ sweep'[c].targets = sweep[c].targets
          /\ sweep'[c].held = sweep[c].held
          /\ sweep'[c].now = time
          /\ sweep'[c].turns = counts
          /\ sweep'[c].for = sweep[c].for
      <3>1. sweep[c] \in Sweeps /\ time \in Nat
        BY <1>t DEF PruneTypes
      <3> DEFINE rec == [sweep[c] EXCEPT !.pc = "locking", !.now = time, !.turns = counts]
      <3>2. /\ rec \in Sweeps /\ rec.pc = "locking" /\ rec.now = time /\ rec.turns = counts
            /\ rec.targets = sweep[c].targets /\ rec.held = sweep[c].held
            /\ rec.for = sweep[c].for
        BY <2>2, <3>1 DEF Sweeps, CommandPlaces
      <3>3. sweep' = [sweep EXCEPT ![c] = rec]
        BY <2>3
      <3> HIDE DEF rec
      <3> QED
        BY <3>2, <3>3, <1>t DEF PruneTypes
    <2>a. PruneTypes'
      BY <1>t, <1>s, <1>d, <1>l, <2>1, <2>2, <2>4 DEF PruneTypes
    <2>b. LocksAreHeld'
      BY <1>k, <2>1, <2>2, <2>4, <1>p DEF LocksAreHeld, Holds, Progress
    <2>c. Progress'
      BY <1>p, <2>1, <2>2, <2>4 DEF Progress
    <2>d. InOrder'
      BY <1>o, <2>1, <2>2, <2>4, <1>p DEF InOrder, Missing, Progress
    <2>e. NewTurnsAreYounger'
      BY <1>y, <2>1, <2>2, <2>4, <1>s, <1>l DEF NewTurnsAreYounger
    <2> QED
      BY <2>a, <2>b, <2>c, <2>d, <2>e DEF PruneInv
  <1>6. ASSUME NEW c \in Commands, LockNext(c) PROVE PruneInv'
    <2>1. PICK i \in Wanted(c) :
            /\ lock[i] = {} /\ lock' = [lock EXCEPT ![i] = {c}]
            /\ sweep' = [sweep EXCEPT ![c].held = @ \cup {i}]
      BY <1>6 DEF LockNext
    <2>2. /\ sweep[c].pc = "locking" /\ store' = store /\ time' = time
          /\ i \in Ids /\ i \in sweep[c].targets /\ i \notin sweep[c].held
          /\ \A j \in Missing(c) : i <= j
      BY <1>6, <1>s DEF LockNext, Wanted, Missing
    <2>3. /\ sweep' \in [Commands -> Sweeps]
          /\ \A d \in Commands : d # c => sweep'[d] = sweep[d]
          /\ sweep'[c].pc = sweep[c].pc
          /\ sweep'[c].targets = sweep[c].targets
          /\ sweep'[c].held = sweep[c].held \cup {i}
          /\ sweep'[c].now = sweep[c].now
          /\ sweep'[c].turns = sweep[c].turns
          /\ sweep'[c].for = sweep[c].for
      BY <2>1, <2>2, <1>t, <1>s DEF PruneTypes, Sweeps, CommandPlaces
    <2>4. /\ lock' \in [Ids -> SUBSET Commands] /\ lock'[i] = {c}
          /\ \A j \in Ids : j # i => lock'[j] = lock[j]
      BY <2>1, <2>2, <1>l
    <2>a. PruneTypes'
      BY <1>t, <1>s, <1>d, <1>l, <2>1, <2>2, <2>3, <2>4 DEF PruneTypes
    <2>b. LocksAreHeld'
      BY <1>k, <2>1, <2>2, <2>3, <2>4 DEF LocksAreHeld, Holds
    <2>c. Progress'
      BY <1>p, <2>1, <2>2, <2>3, <2>4 DEF Progress
    <2>d. InOrder'
      BY <1>o, <2>1, <2>2, <2>3, <2>4, <1>s, Naturals1 DEF InOrder, Missing
    <2>e. NewTurnsAreYounger'
      BY <1>y, <2>1, <2>2, <2>3, <2>4 DEF NewTurnsAreYounger
    <2> QED
      BY <2>a, <2>b, <2>c, <2>d, <2>e DEF PruneInv
  <1>7. ASSUME NEW c \in Commands, Verify(c) PROVE PruneInv'
    <2>1. /\ sweep[c].pc = "locking" /\ Missing(c) = {}
          /\ store' = store /\ time' = time
      BY <1>7 DEF Verify
    <2>2. /\ sweep' \in [Commands -> Sweeps]
          /\ \A d \in Commands : d # c => sweep'[d] = sweep[d]
          /\ sweep'[c].pc \in {"clearing", "refused"}
          /\ sweep'[c].targets = sweep[c].targets
          /\ sweep'[c].held = sweep[c].held
          /\ sweep'[c].now = sweep[c].now
          /\ sweep'[c].turns = sweep[c].turns
          /\ sweep'[c].for = sweep[c].for
      BY <1>7, <1>t, <1>s DEF Verify, PruneTypes, Sweeps, CommandPlaces
    <2>3. \/ /\ sweep'[c].pc = "clearing" /\ lock' = lock
             /\ \A i \in sweep[c].held : store[i].kind = "finished" =>
                  store[i].finished_at + OlderThan <= sweep[c].now
          \/ /\ sweep'[c].pc = "refused" /\ lock' \in [Ids -> SUBSET Commands]
             /\ \A i \in Ids : lock'[i] = lock[i] \ {c}
      BY <1>7, <1>t, <1>s, <1>l DEF Verify, Unlocked, Prunable, CheckTime, PruneTypes, Sweeps, CommandPlaces
    <2>4. sweep[c].held = sweep[c].targets
      BY <2>1, <1>o, <1>s DEF Missing, InOrder
    <2>a. PruneTypes'
      BY <1>t, <1>s, <1>d, <1>l, <2>1, <2>2, <2>3, <2>4 DEF PruneTypes
    <2>b. LocksAreHeld'
      BY <1>k, <2>1, <2>2, <2>3, <2>4 DEF LocksAreHeld, Holds
    <2>c. Progress'
      BY <1>p, <2>1, <2>2, <2>3, <2>4 DEF Progress
    <2>d. InOrder'
      BY <1>o, <2>1, <2>2, <2>3, <2>4 DEF InOrder, Missing
    <2>e. NewTurnsAreYounger'
      BY <1>y, <2>1, <2>2, <2>3, <2>4 DEF NewTurnsAreYounger
    <2> QED
      BY <2>a, <2>b, <2>c, <2>d, <2>e DEF PruneInv
  <1>8. ASSUME NEW c \in Commands, Clear1(c) PROVE PruneInv'
    <2>1. PICK i \in sweep[c].held :
            /\ store[i].kind = "finished"
            /\ store' = [store EXCEPT ![i].kind = "cleared", ![i].name = ""]
      BY <1>8 DEF Clear1
    <2>2. /\ sweep[c].pc = "clearing" /\ i \in Ids
          /\ sweep' = sweep /\ lock' = lock /\ time' = time
      BY <1>8, <1>s DEF Clear1
    <2>3. /\ store' \in [Ids -> Directories]
          /\ \A j \in Ids : j # i => store'[j] = store[j]
          /\ store'[i].kind = "cleared"
          /\ store'[i].name = ""
          /\ store'[i].finished_at = store[i].finished_at
          /\ store'[i].turns = store[i].turns
      BY <2>1, <2>2, <1>t, <1>d DEF PruneTypes, Directories, Kinds
    <2>a. PruneTypes'
      BY <1>t, <1>s, <1>d, <1>l, <2>1, <2>2, <2>3 DEF PruneTypes
    <2>b. LocksAreHeld'
      BY ZenonT(30), <1>k, <2>1, <2>2, <2>3 DEF LocksAreHeld, Holds
    <2>c. Progress'
      BY <1>p, <2>1, <2>2, <2>3 DEF Progress
    <2>d. InOrder'
      BY <1>o, <2>1, <2>2, <2>3 DEF InOrder, Missing
    <2>e. NewTurnsAreYounger'
      BY <1>y, <2>1, <2>2, <2>3, <1>s DEF NewTurnsAreYounger
    <2> QED
      BY <2>a, <2>b, <2>c, <2>d, <2>e DEF PruneInv
  <1>9. ASSUME NEW c \in Commands, Bury(c) PROVE PruneInv'
    <2>1. PICK i \in sweep[c].held :
            /\ store[i].kind = "cleared"
            /\ store' = [store EXCEPT ![i].kind = "tombstone"]
      BY <1>9 DEF Bury
    <2>2. /\ sweep[c].pc = "clearing" /\ i \in Ids
          /\ sweep' = sweep /\ lock' = lock /\ time' = time
      BY <1>9, <1>s DEF Bury
    <2>3. /\ store' \in [Ids -> Directories]
          /\ \A j \in Ids : j # i => store'[j] = store[j]
          /\ store'[i].kind = "tombstone"
          /\ store'[i].name = store[i].name
          /\ store'[i].finished_at = store[i].finished_at
          /\ store'[i].turns = store[i].turns
      BY <2>1, <2>2, <1>t, <1>d DEF PruneTypes, Directories, Kinds
    <2>a. PruneTypes'
      BY <1>t, <1>s, <1>d, <1>l, <2>1, <2>2, <2>3 DEF PruneTypes
    <2>b. LocksAreHeld'
      BY <1>k, <2>1, <2>2, <2>3 DEF LocksAreHeld, Holds
    <2>c. Progress'
      BY <1>p, <2>1, <2>2, <2>3 DEF Progress
    <2>d. InOrder'
      BY <1>o, <2>1, <2>2, <2>3 DEF InOrder, Missing
    <2>e. NewTurnsAreYounger'
      BY <1>y, <2>1, <2>2, <2>3, <1>s DEF NewTurnsAreYounger
    <2> QED
      BY <2>a, <2>b, <2>c, <2>d, <2>e DEF PruneInv
  <1>10. ASSUME NEW c \in Commands, Release(c) PROVE PruneInv'
    <2>1. /\ sweep[c].pc = "clearing"
          /\ store' = store /\ time' = time
      BY <1>10 DEF Release
    <2>2. /\ sweep' \in [Commands -> Sweeps]
          /\ \A d \in Commands : d # c => sweep'[d] = sweep[d]
          /\ sweep'[c].pc = "done"
          /\ sweep'[c].targets = sweep[c].targets
          /\ sweep'[c].held = sweep[c].held
          /\ sweep'[c].now = sweep[c].now
          /\ sweep'[c].turns = sweep[c].turns
          /\ sweep'[c].for = sweep[c].for
      BY <1>10, <1>t, <1>s DEF Release, PruneTypes, Sweeps, CommandPlaces
    <2>3. lock' \in [Ids -> SUBSET Commands] /\ \A i \in Ids : lock'[i] = lock[i] \ {c}
      BY <1>10, <1>l DEF Release, Unlocked
    <2>a. PruneTypes'
      BY <1>t, <1>s, <1>d, <1>l, <2>1, <2>2, <2>3 DEF PruneTypes
    <2>b. LocksAreHeld'
      BY <1>k, <2>1, <2>2, <2>3 DEF LocksAreHeld, Holds
    <2>c. Progress'
      BY <1>p, <2>1, <2>2, <2>3 DEF Progress
    <2>d. InOrder'
      BY <1>o, <2>1, <2>2, <2>3 DEF InOrder, Missing
    <2>e. NewTurnsAreYounger'
      BY <1>y, <2>1, <2>2, <2>3 DEF NewTurnsAreYounger
    <2> QED
      BY <2>a, <2>b, <2>c, <2>d, <2>e DEF PruneInv
  <1>11. ASSUME NEW c \in Commands, ChooseVictim(c) PROVE PruneInv'
    <2>1. /\ sweep[c].pc = "idle"
          /\ store' = store /\ lock' = lock /\ time' = time
      BY <1>11 DEF ChooseVictim
    <2>2. PICK i \in Ids : sweep' = [sweep EXCEPT ![c].pc = "deleting", ![c].targets = {i}]
      BY <1>11 DEF ChooseVictim, Listed
    <2>3. /\ sweep' \in [Commands -> Sweeps]
          /\ \A d \in Commands : d # c => sweep'[d] = sweep[d]
          /\ sweep'[c].pc = "deleting"
          /\ sweep'[c].targets = {i}
          /\ sweep'[c].held = sweep[c].held
          /\ sweep'[c].now = sweep[c].now
          /\ sweep'[c].turns = sweep[c].turns
          /\ sweep'[c].for = sweep[c].for
      BY ZenonT(30), <2>2, <1>t, <1>s DEF PruneTypes, Sweeps, CommandPlaces
    <2>a. PruneTypes'
      BY <1>t, <1>s, <1>d, <1>l, <2>1, <2>3 DEF PruneTypes
    <2>b. LocksAreHeld'
      BY <1>k, <2>1, <2>3 DEF LocksAreHeld, Holds
    <2>c. Progress'
      BY <1>p, <2>1, <2>3 DEF Progress
    <2>d. InOrder'
      BY <1>o, <2>1, <2>3 DEF InOrder, Missing
    <2>e. NewTurnsAreYounger'
      BY <1>y, <2>1, <2>3 DEF NewTurnsAreYounger
    <2> QED
      BY <2>a, <2>b, <2>c, <2>d, <2>e DEF PruneInv
  <1>12. ASSUME NEW c \in Commands, Delete(c) PROVE PruneInv'
    <2>1. PICK i \in sweep[c].targets :
            /\ lock[i] = {}
            /\ IF store[i].kind = "finished"
               THEN /\ lock' = [lock EXCEPT ![i] = {c}]
                    /\ sweep' = [sweep EXCEPT ![c].pc = "clearing", ![c].held = {i}]
               ELSE sweep' = [sweep EXCEPT ![c].pc = "refused"] /\ UNCHANGED lock
      BY <1>12 DEF Delete
    <2>2. /\ sweep[c].pc = "deleting" /\ i \in Ids /\ sweep[c].targets = {i}
          /\ store' = store /\ time' = time
      BY <1>12, <2>1, <1>p, <1>s DEF Delete, Progress
    <2>3. CASE store[i].kind = "finished"
      <3>1. /\ sweep' \in [Commands -> Sweeps]
            /\ \A d \in Commands : d # c => sweep'[d] = sweep[d]
            /\ sweep'[c].pc = "clearing"
            /\ sweep'[c].targets = sweep[c].targets
            /\ sweep'[c].held = {i}
            /\ sweep'[c].now = sweep[c].now
            /\ sweep'[c].turns = sweep[c].turns
            /\ sweep'[c].for = sweep[c].for
        BY <2>1, <2>2, <2>3, <1>t, <1>s DEF PruneTypes, Sweeps, CommandPlaces
      <3>2. /\ lock' \in [Ids -> SUBSET Commands] /\ lock'[i] = {c}
            /\ \A j \in Ids : j # i => lock'[j] = lock[j]
        BY <2>1, <2>2, <2>3, <1>l
      <3>3. /\ sweep'[c].held = sweep'[c].targets /\ sweep'[c].pc = "clearing"
            /\ \A d \in Commands : d # c => sweep'[d] = sweep[d]
        BY <2>2, <3>1
      <3>a. PruneTypes'
        BY <1>t, <1>s, <1>d, <1>l, <2>2, <3>1, <3>2 DEF PruneTypes
      <3>b. LocksAreHeld'
        BY <1>k, <2>2, <3>1, <3>2, <2>1 DEF LocksAreHeld, Holds
      <3>c. Progress'
        BY <1>p, <3>3 DEF Progress
      <3>d. InOrder'
        BY <1>o, <2>2, <3>1, <3>2 DEF InOrder, Missing
      <3>e. NewTurnsAreYounger'
        BY <1>y, <2>2, <3>1, <3>2, <1>p DEF NewTurnsAreYounger, Progress
      <3> QED
        BY <3>a, <3>b, <3>c, <3>d, <3>e DEF PruneInv
    <2>4. CASE store[i].kind # "finished"
      <3>1. lock' = lock
        BY <2>1, <2>4
      <3>2. /\ sweep' \in [Commands -> Sweeps]
            /\ \A d \in Commands : d # c => sweep'[d] = sweep[d]
            /\ sweep'[c].pc = "refused"
            /\ sweep'[c].targets = sweep[c].targets
            /\ sweep'[c].held = sweep[c].held
            /\ sweep'[c].now = sweep[c].now
            /\ sweep'[c].turns = sweep[c].turns
            /\ sweep'[c].for = sweep[c].for
        BY <2>1, <2>2, <2>4, <1>t, <1>s DEF PruneTypes, Sweeps, CommandPlaces
      <3>a. PruneTypes'
        BY <1>t, <1>s, <1>d, <1>l, <2>2, <3>1, <3>2 DEF PruneTypes
      <3>b. LocksAreHeld'
        BY <1>k, <2>2, <3>1, <3>2 DEF LocksAreHeld, Holds
      <3>c. Progress'
        BY <1>p, <2>2, <3>1, <3>2 DEF Progress
      <3>d. InOrder'
        BY <1>o, <2>2, <3>1, <3>2 DEF InOrder, Missing
      <3>e. NewTurnsAreYounger'
        BY <1>y, <2>2, <3>1, <3>2 DEF NewTurnsAreYounger
      <3> QED
        BY <3>a, <3>b, <3>c, <3>d, <3>e DEF PruneInv
    <2> QED
      BY <2>3, <2>4
  <1>13. ASSUME NEW c \in Commands, ReserveTurn(c) PROVE PruneInv'
    <2>1. PICK i \in Listed :
            /\ store[i].kind = "finished"
            /\ IF lock[i] = {}
               THEN /\ lock' = [lock EXCEPT ![i] = {c}]
                    /\ sweep' = [sweep EXCEPT ![c].pc = "reserved", ![c].for = i]
               ELSE /\ sweep' = [sweep EXCEPT ![c].pc = "refused"]
                    /\ UNCHANGED lock
      BY <1>13 DEF ReserveTurn
    <2>2. /\ sweep[c].pc = "idle" /\ i \in Ids
          /\ store' = store /\ time' = time
      BY <1>13, <2>1 DEF ReserveTurn, Listed
    <2>3. CASE lock[i] = {}
      <3>1. /\ sweep' \in [Commands -> Sweeps]
            /\ \A d \in Commands : d # c => sweep'[d] = sweep[d]
            /\ sweep'[c].pc = "reserved"
            /\ sweep'[c].targets = sweep[c].targets
            /\ sweep'[c].held = sweep[c].held
            /\ sweep'[c].now = sweep[c].now
            /\ sweep'[c].turns = sweep[c].turns
            /\ sweep'[c].for = i
        BY <2>1, <2>2, <2>3, <1>t, <1>s DEF PruneTypes, Sweeps, CommandPlaces
      <3>2. /\ lock' \in [Ids -> SUBSET Commands] /\ lock'[i] = {c}
            /\ \A j \in Ids : j # i => lock'[j] = lock[j]
        BY <2>1, <2>2, <2>3, <1>l
      <3>a. PruneTypes'
        BY <1>t, <1>s, <1>d, <1>l, <2>2, <2>3, <3>1, <3>2 DEF PruneTypes
      <3>b. LocksAreHeld'
        BY <1>k, <2>2, <2>3, <3>1, <3>2 DEF LocksAreHeld, Holds
      <3>c. Progress'
        BY <1>p, <2>2, <2>3, <3>1, <3>2 DEF Progress
      <3>d. InOrder'
        BY <1>o, <2>2, <2>3, <3>1, <3>2 DEF InOrder, Missing
      <3>e. NewTurnsAreYounger'
        BY <1>y, <2>2, <2>3, <3>1, <3>2 DEF NewTurnsAreYounger
      <3> QED
        BY <3>a, <3>b, <3>c, <3>d, <3>e DEF PruneInv
    <2>4. CASE lock[i] # {}
      <3>1. lock' = lock
        BY <2>1, <2>4
      <3>2. /\ sweep' \in [Commands -> Sweeps]
            /\ \A d \in Commands : d # c => sweep'[d] = sweep[d]
            /\ sweep'[c].pc = "refused"
            /\ sweep'[c].targets = sweep[c].targets
            /\ sweep'[c].held = sweep[c].held
            /\ sweep'[c].now = sweep[c].now
            /\ sweep'[c].turns = sweep[c].turns
            /\ sweep'[c].for = sweep[c].for
        BY <2>1, <2>2, <2>4, <1>t, <1>s DEF PruneTypes, Sweeps, CommandPlaces
      <3>a. PruneTypes'
        BY <1>t, <1>s, <1>d, <1>l, <2>2, <3>1, <3>2 DEF PruneTypes
      <3>b. LocksAreHeld'
        BY <1>k, <2>2, <3>1, <3>2 DEF LocksAreHeld, Holds
      <3>c. Progress'
        BY <1>p, <2>2, <3>1, <3>2 DEF Progress
      <3>d. InOrder'
        BY <1>o, <2>2, <3>1, <3>2 DEF InOrder, Missing
      <3>e. NewTurnsAreYounger'
        BY <1>y, <2>2, <3>1, <3>2 DEF NewTurnsAreYounger
      <3> QED
        BY <3>a, <3>b, <3>c, <3>d, <3>e DEF PruneInv
    <2> QED
      BY <2>3, <2>4
  <1>14. ASSUME NEW c \in Commands, Rotate(c) PROVE PruneInv'
    <2> DEFINE i == sweep[c].for
    <2>1. /\ sweep[c].pc = "reserved" /\ i \in Ids
          /\ lock' = lock /\ time' = time
      BY <1>14, <1>p DEF Rotate, Progress
    <2>2. /\ sweep' \in [Commands -> Sweeps]
          /\ \A d \in Commands : d # c => sweep'[d] = sweep[d]
          /\ sweep'[c].pc = "driving"
          /\ sweep'[c].targets = sweep[c].targets
          /\ sweep'[c].held = sweep[c].held
          /\ sweep'[c].now = sweep[c].now
          /\ sweep'[c].turns = sweep[c].turns
          /\ sweep'[c].for = sweep[c].for
      BY <1>14, <1>t, <1>s DEF Rotate, PruneTypes, Sweeps, CommandPlaces
    <2>4. store' = [store EXCEPT ![i].kind = "active", ![i].turns = @ + 1]
      BY <1>14 DEF Rotate
    <2> HIDE DEF i
    <2>5. store[i].turns + 1 \in Nat
      <3>1. store[i].turns \in Nat
        BY <2>1, <1>d
      <3> QED
        BY <3>1
    <2>3. /\ store' \in [Ids -> Directories]
          /\ \A j \in Ids : j # i => store'[j] = store[j]
          /\ store'[i].kind = "active"
          /\ store'[i].name = store[i].name
          /\ store'[i].finished_at = store[i].finished_at
          /\ store'[i].turns = store[i].turns + 1
      BY <2>1, <2>4, <2>5, <1>t, <1>d DEF PruneTypes, Directories, Kinds
    <2>a. PruneTypes'
      BY <1>t, <1>s, <1>d, <1>l, <2>1, <2>2, <2>3 DEF PruneTypes
    <2>b. LocksAreHeld'
      BY <1>k, <2>1, <2>2, <2>3 DEF LocksAreHeld, Holds
    <2>c. Progress'
      BY <1>p, <2>1, <2>2, <2>3 DEF Progress
    <2>d. InOrder'
      BY <1>o, <2>1, <2>2, <2>3 DEF InOrder, Missing
    <2>e. NewTurnsAreYounger'
      BY <1>y, <2>1, <2>2, <2>3, <1>s DEF NewTurnsAreYounger
    <2> QED
      BY <2>a, <2>b, <2>c, <2>d, <2>e DEF PruneInv
  <1>15. ASSUME NEW c \in Commands, FinishTurn(c) PROVE PruneInv'
    <2> DEFINE i == sweep[c].for
    <2>1. /\ sweep[c].pc = "driving" /\ i \in Ids
          /\ time' = time + 1
      BY <1>15, <1>p DEF FinishTurn, Progress, Later
    <2>2. /\ sweep' \in [Commands -> Sweeps]
          /\ \A d \in Commands : d # c => sweep'[d] = sweep[d]
          /\ sweep'[c].pc = "done"
          /\ sweep'[c].targets = sweep[c].targets
          /\ sweep'[c].held = sweep[c].held
          /\ sweep'[c].now = sweep[c].now
          /\ sweep'[c].turns = sweep[c].turns
          /\ sweep'[c].for = sweep[c].for
      BY <1>15, <1>t, <1>s DEF FinishTurn, PruneTypes, Sweeps, CommandPlaces
    <2>3. time' \in Nat
      BY <2>1, <1>l
    <2>4. /\ store' \in [Ids -> Directories]
          /\ \A j \in Ids : j # i => store'[j] = store[j]
          /\ store'[i].kind = "finished"
          /\ store'[i].name = store[i].name
          /\ store'[i].finished_at = time'
          /\ store'[i].turns = store[i].turns
      BY ZenonT(30), <1>15, <2>1, <2>3, <1>t, <1>d DEF FinishTurn, PruneTypes, Directories, Kinds
    <2>5. lock' \in [Ids -> SUBSET Commands] /\ \A j \in Ids : lock'[j] = lock[j] \ {c}
      BY <1>15, <1>l DEF FinishTurn, Unlocked
    <2>6. \A d \in Commands : sweep[d].pc = "clearing" /\ i \in sweep[d].targets => d = c
      BY <2>1, <1>k, <1>p DEF LocksAreHeld, Holds, Progress
    <2> HIDE DEF i
    <2>a. PruneTypes'
      BY <1>t, <1>s, <1>d, <1>l, <2>1, <2>2, <2>3, <2>4, <2>5 DEF PruneTypes
    <2>b. LocksAreHeld'
      BY <1>k, <2>1, <2>2, <2>3, <2>4, <2>5 DEF LocksAreHeld, Holds
    <2>c. Progress'
      BY <1>p, <2>1, <2>2, <2>3, <2>4, <2>5 DEF Progress
    <2>d. InOrder'
      BY <1>o, <2>1, <2>2, <2>3, <2>4, <2>5 DEF InOrder, Missing
    <2>e. NewTurnsAreYounger'
      BY <1>y, <2>1, <2>2, <2>3, <2>4, <2>5, <2>6, <1>s, <1>l DEF NewTurnsAreYounger
    <2> QED
      BY <2>a, <2>b, <2>c, <2>d, <2>e DEF PruneInv
  <1>16. ASSUME NEW c \in Commands, Killed(c) PROVE PruneInv'
    <2>1. /\ sweep[c].pc \in {"locking", "clearing", "allocated"}
          /\ store' = store /\ time' = time
      BY <1>16 DEF Killed
    <2>2. /\ sweep' \in [Commands -> Sweeps]
          /\ \A d \in Commands : d # c => sweep'[d] = sweep[d]
          /\ sweep'[c].pc = "killed"
          /\ sweep'[c].targets = sweep[c].targets
          /\ sweep'[c].held = sweep[c].held
          /\ sweep'[c].now = sweep[c].now
          /\ sweep'[c].turns = sweep[c].turns
          /\ sweep'[c].for = sweep[c].for
      BY <1>16, <1>t, <1>s DEF Killed, PruneTypes, Sweeps, CommandPlaces
    <2>3. lock' \in [Ids -> SUBSET Commands] /\ \A i \in Ids : lock'[i] = lock[i] \ {c}
      BY <1>16, <1>l DEF Killed, Unlocked
    <2>a. PruneTypes'
      BY <1>t, <1>s, <1>d, <1>l, <2>1, <2>2, <2>3 DEF PruneTypes
    <2>b. LocksAreHeld'
      BY <1>k, <2>1, <2>2, <2>3 DEF LocksAreHeld, Holds
    <2>c. Progress'
      BY <1>p, <2>1, <2>2, <2>3 DEF Progress
    <2>d. InOrder'
      BY <1>o, <2>1, <2>2, <2>3 DEF InOrder, Missing
    <2>e. NewTurnsAreYounger'
      BY <1>y, <2>1, <2>2, <2>3 DEF NewTurnsAreYounger
    <2> QED
      BY <2>a, <2>b, <2>c, <2>d, <2>e DEF PruneInv
  <1>17. CASE FirstTurnEnds
    <2>1. PICK i \in Ids :
            /\ store[i].kind = "active" /\ lock[i] = {}
            /\ store' = [store EXCEPT ![i].kind = "finished", ![i].finished_at = time']
      BY <1>17 DEF FirstTurnEnds
    <2>2. time' = time + 1 /\ time' \in Nat /\ lock' = lock /\ sweep' = sweep
      BY <1>17, <1>l DEF FirstTurnEnds, Later
    <2>3. /\ store' \in [Ids -> Directories]
          /\ \A j \in Ids : j # i => store'[j] = store[j]
          /\ store'[i].kind = "finished"
          /\ store'[i].name = store[i].name
          /\ store'[i].finished_at = time'
          /\ store'[i].turns = store[i].turns
      BY <2>1, <2>2, <1>t, <1>d DEF PruneTypes, Directories, Kinds
    <2>4. \A d \in Commands : sweep[d].pc = "clearing" => i \notin sweep[d].targets
      BY <2>1, <1>k, <1>p DEF LocksAreHeld, Holds, Progress
    <2>a. PruneTypes'
      BY <1>t, <1>s, <1>d, <1>l, <2>1, <2>2, <2>3 DEF PruneTypes
    <2>b. LocksAreHeld'
      BY <1>k, <2>1, <2>2, <2>3 DEF LocksAreHeld, Holds
    <2>c. Progress'
      BY <1>p, <2>1, <2>2, <2>3 DEF Progress
    <2>d. InOrder'
      BY <1>o, <2>1, <2>2, <2>3 DEF InOrder, Missing
    <2>e. NewTurnsAreYounger'
      BY <1>y, <2>1, <2>2, <2>3, <2>4, <1>s, <1>l DEF NewTurnsAreYounger
    <2> QED
      BY <2>a, <2>b, <2>c, <2>d, <2>e DEF PruneInv
  <1>18. CASE PassTime
    <2>1. /\ time' = time + 1 /\ time' \in Nat
          /\ store' = store /\ lock' = lock /\ sweep' = sweep
      BY <1>18, <1>l DEF PassTime, Later
    <2>a. PruneTypes'
      BY <1>t, <1>s, <1>d, <1>l, <2>1 DEF PruneTypes
    <2>b. LocksAreHeld'
      BY <1>k, <2>1 DEF LocksAreHeld, Holds
    <2>c. Progress'
      BY <1>p, <2>1 DEF Progress
    <2>d. InOrder'
      BY <1>o, <2>1 DEF InOrder, Missing
    <2>e. NewTurnsAreYounger'
      BY <1>y, <2>1, <1>s, <1>l DEF NewTurnsAreYounger
    <2> QED
      BY <2>a, <2>b, <2>c, <2>d, <2>e DEF PruneInv
  <1>19. CASE UNCHANGED pvars
    BY <1>t, <1>k, <1>p, <1>o, <1>y, <1>19 DEF pvars, PruneInv, PruneTypes, LocksAreHeld, Holds, Progress, InOrder, Missing,
       NewTurnsAreYounger
  <1> QED
    BY <1>1, <1>2, <1>3, <1>4, <1>5, <1>6, <1>7, <1>8, <1>9, <1>10, <1>11, <1>12, <1>13, <1>14,
       <1>15, <1>16, <1>17, <1>18, <1>19 DEF PruneNext

\* A set of ids that is not empty has a greatest one.
LEMMA GreatestId ==
  ASSUME NEW W \in SUBSET Ids, W # {}
  PROVE  \E m \in W : \A x \in W : x <= m
  <1> DEFINE n == Cardinality(Ids)
             T == {n - x : x \in W}
  <1>1. n \in Nat /\ Ids = 1..n
    BY PruneAssumption, FS_CardinalityType
  <1> HIDE DEF n
  <1>2. \A x \in W : x \in Nat /\ n - x \in Nat
    BY <1>1
  <1>t. T \subseteq Nat /\ T # {}
    BY <1>2
  <1>3. PICK t \in T : \A u \in T : ~(<<u, t>> \in OpToRel(<, Nat))
    BY <1>t, WFMin, NatLessThanWellFounded
  <1>4. \A u \in T : t <= u
    <2> SUFFICES ASSUME NEW u \in T PROVE t <= u
      OBVIOUS
    <2>1. u \in Nat /\ t \in Nat
      BY <1>t
    <2>2. u < t => <<u, t>> \in OpToRel(<, Nat)
      BY <2>1 DEF OpToRel
    <2>3. ~(u < t)
      BY <1>3, <2>2, Zenon
    <2> QED
      BY <2>1, <2>3
  <1>5. PICK m \in W : t = n - m
    OBVIOUS
  <1>6. \A x \in W : n - m <= n - x
    BY <1>4, <1>5
  <1> QED
    BY <1>1, <1>2, <1>5, <1>6

\* Prunes and deletes of any set of sessions, and turns that keep a lock as
\* long as they run, never wait for each other in a circle of any length (the
\* sorted locks of prune_sessions).
THEOREM NobodyWaitsInACircle == PruneSpec => []NoCircularWait
  <1>1. PruneInv => NoCircularWait
    <2> SUFFICES ASSUME PruneInv, NEW circle \in SUBSET Commands, circle # {},
                        \A c \in circle : \E d \in circle : WaitsFor(c, d)
                 PROVE  FALSE
      BY DEF NoCircularWait
    <2> DEFINE W == {i \in Ids : \E c, d \in circle : i \in WantsLock(c) /\ lock[i] = {d}}
    <2>1. W # {}
      <3>1. PICK c \in circle : TRUE
        OBVIOUS
      <3>2. PICK d \in circle : WaitsFor(c, d)
        BY <3>1
      <3>3. PICK i \in Ids : lock[i] = {d} /\ i \in WantsLock(c)
        BY <3>2 DEF WaitsFor
      <3> QED
        BY <3>3
    <2>2. PICK m \in W : \A x \in W : x <= m
      BY <2>1, GreatestId
    <2>3. PICK d \in circle : lock[m] = {d}
      OBVIOUS
    <2>4. Holds(d, m)
      BY <2>3 DEF PruneInv, LocksAreHeld
    <2>5. PICK i \in WantsLock(d) : i \in W
      <3>1. PICK e \in circle : WaitsFor(d, e)
        OBVIOUS
      <3>2. PICK i \in Ids : lock[i] = {e} /\ i \in WantsLock(d)
        BY <3>1 DEF WaitsFor
      <3> QED
        BY <3>2
    <2>6. sweep[d].pc = "locking" /\ m \in sweep[d].held /\ i \in Missing(d)
      BY <2>4, <2>5 DEF Holds, WantsLock, Wanted
    <2>7. m < i
      BY <2>6 DEF PruneInv, InOrder
    <2>8. m \in Nat /\ i \in Nat /\ i <= m
      BY <2>2, <2>5, Naturals1
    <2> QED
      BY <2>7, <2>8
  <1> QED
    BY <1>1, PruneBegins, PruneStep, PTL DEF PruneSpec

\* A sweep clears a session only under its lock, finished, and in the turn it
\* was in when the sweep began: one that was continued since is younger than
\* the time the sweep measures ages at (prune_sessions reads `now` first).
THEOREM SweepsSpareNewTurns == PruneSpec => SweepSparesNewTurns
  <1> DEFINE Spares ==
        \A i \in Ids : store'[i].kind = "cleared" /\ store[i].kind # "cleared" =>
            /\ store[i].kind = "finished"
            /\ \E c \in Commands : /\ lock[i] = {c}
                                   /\ sweep[c].turns # NoTurns
                                      => sweep[c].turns[i] = store[i].turns
  <1>1. ASSUME PruneInv, PruneNext PROVE Spares
    <2>t. store \in [Ids -> Directories] /\ sweep \in [Commands -> Sweeps]
      BY <1>1 DEF PruneInv, PruneTypes
    <2>1. ASSUME NEW c \in Commands, Clear1(c) PROVE Spares
      <3>1. PICK i \in sweep[c].held :
              store[i].kind = "finished"
              /\ store' = [store EXCEPT ![i].kind = "cleared", ![i].name = ""]
        BY <2>1 DEF Clear1
      <3>2. sweep[c].pc = "clearing" /\ sweep[c].held = sweep[c].targets
        BY <1>1, <2>1 DEF Clear1, PruneInv, Progress
      <3>3. i \in Ids /\ i \in sweep[c].targets
            /\ sweep[c].now \in Nat /\ store[i].finished_at \in Nat
        BY <2>t, <3>1, <3>2 DEF Sweeps, Directories
      <3>4. lock[i] = {c}
        BY <1>1, <3>1, <3>2, <3>3 DEF PruneInv, LocksAreHeld, Holds
      <3>5. sweep[c].turns # NoTurns => sweep[c].turns[i] = store[i].turns
        <4>1. sweep[c].turns # NoTurns =>
                /\ store[i].turns = sweep[c].turns[i] \/ store[i].finished_at > sweep[c].now
                /\ store[i].finished_at + OlderThan <= sweep[c].now
          BY <1>1, <3>1, <3>2, <3>3 DEF PruneInv, NewTurnsAreYounger
        <4> QED
          BY <4>1, <3>3, Naturals1
      <3>6. \A j \in Ids : j # i => store'[j] = store[j]
        BY <2>t, <3>1
      <3> QED
        BY <3>1, <3>4, <3>5, <3>6
    <2>2. ASSUME NEW c \in Commands, Allocate(c) PROVE Spares
      BY <2>t, <2>2 DEF Allocate, Directories
    <2>3. ASSUME NEW c \in Commands, Publish(c) PROVE Spares
      BY <2>t, <2>3 DEF Publish, Directories
    <2>4. ASSUME NEW c \in Commands, Bury(c) PROVE Spares
      BY <2>t, <2>4 DEF Bury, Directories
    <2>5. ASSUME NEW c \in Commands, Rotate(c) PROVE Spares
      BY <2>t, <2>5 DEF Rotate, Directories
    <2>6. ASSUME NEW c \in Commands, FinishTurn(c) PROVE Spares
      BY <2>t, <2>6 DEF FinishTurn, Directories
    <2>7. CASE FirstTurnEnds
      BY <2>t, <2>7 DEF FirstTurnEnds, Directories
    <2>8. CASE store' = store
      BY <2>8
    <2> QED
      BY <1>1, <2>1, <2>2, <2>3, <2>4, <2>5, <2>6, <2>7, <2>8
         DEF PruneNext, ClaimAlias, Select, Confirm, LockNext, Verify, Release, ChooseVictim,
             Delete, ReserveTurn, Killed, PassTime
  <1>2. PruneInv /\ [PruneNext]_pvars => [Spares]_pvars
    BY <1>1
  <1> QED
    BY <1>2, PruneBegins, PruneStep, PTL DEF PruneSpec, SweepSparesNewTurns

----------------------------------------------------------------------------
(* Spawn.                                                                   *)

Versions == UNION {{version[c] : c \in Dialers} : version \in Builds}
DialerPlaces == {"idle", "connected", "trying", "checking", "spawning", "waiting", "unavailable",
                 "turn", "lost", "done", "stopping"}
Phases == {"unborn", "starting", "serving", "ending", "closed", "dead"}
Dialers1 == [pc : DialerPlaces, daemon : Daemons \cup {0}, build : Versions]
Hosts1 == [phase : Phases, build : Versions \cup {""}, turns : SUBSET Dialers,
           starter : SUBSET Dialers]
SpawnTypes ==
    /\ socket \in Daemons \cup {0} /\ holder \in SUBSET Dialers
    /\ host \in [Daemons -> Hosts1] /\ dialer \in [Dialers -> Dialers1]

\* The lock has one holder, and is held from the second look at the socket on.
LockIsHeld ==
    \A c \in Dialers : dialer[c].pc \in {"checking", "spawning", "waiting"} => holder = {c}

\* The daemons are spawned one after the other.
SpawnedFirst == \E n \in 0..Cardinality(Daemons) : Spawned = 1..n

\* The client that started a daemon is past its launch: it waits for that one
\* until a daemon answers, or has given up.
PastLaunch == {"connected", "turn", "lost", "done", "unavailable"}
Starters ==
    \A d \in Daemons : host[d].phase # "unborn" => \E s \in Dialers :
        /\ host[d].starter = {s} /\ dialer[s].pc \in PastLaunch \cup {"waiting"}
        /\ dialer[s].pc = "waiting" => dialer[s].daemon = d
\* While its daemon has not bound it waits, or went on without it.
WentOn(d) ==
    \E s \in host[d].starter : dialer[s].pc = "unavailable" \/ dialer[s].daemon # d
StartingIsAwaited ==
    \A d \in Daemons : host[d].phase = "starting" =>
        WentOn(d) \/ \E s \in host[d].starter : dialer[s].pc = "waiting"
\* What is bound was spawned, and is no longer starting.
Bound == socket # 0 => host[socket].phase \notin {"unborn", "starting"}

\* A client about to launch a daemon has seen none under the lock, and one that
\* has come up since was left to itself before.
Beside ==
    \A c \in Dialers : dialer[c].pc = "spawning" /\ Greets(c) => WentOn(socket)

SpawnInv ==
    SpawnTypes /\ LockIsHeld /\ SpawnedFirst /\ Starters /\ StartingIsAwaited /\ Bound /\ Beside

\* What every step but Launch and Bind does: no daemon is spawned or begins to
\* serve, and a client past its launch stays with the daemon it has.
Steady ==
    /\ socket' \in {0, socket}
    /\ \A d \in Daemons :
        /\ host'[d].starter = host[d].starter /\ host'[d].build = host[d].build
        /\ host'[d].phase = "unborn" <=> host[d].phase = "unborn"
        /\ host'[d].phase = "starting" => host[d].phase = "starting"
        /\ host'[d].phase = "serving" => host[d].phase = "serving"
    /\ \A s \in Dialers :
        /\ dialer'[s].build = dialer[s].build
        /\ dialer'[s].pc = "spawning" => dialer[s].pc = "spawning" \/ ~Greets(s)'
        /\ dialer[s].pc = "unavailable" => dialer'[s].pc = "unavailable"
        /\ dialer[s].pc \in PastLaunch =>
              dialer'[s].pc \in PastLaunch /\ dialer'[s].daemon = dialer[s].daemon
        /\ dialer[s].pc = "waiting" =>
              \/ dialer'[s].pc = "waiting" /\ dialer'[s].daemon = dialer[s].daemon
              \/ dialer'[s].pc = "unavailable" /\ dialer'[s].daemon = dialer[s].daemon
              \/ /\ dialer'[s].pc = "connected" /\ dialer'[s].daemon = socket
                 /\ socket \in Daemons /\ host[socket].phase = "serving"

LEMMA SteadyKeeps ==
  ASSUME SpawnInv, Steady, host' \in [Daemons -> Hosts1], dialer' \in [Dialers -> Dialers1]
  PROVE  SpawnedFirst' /\ Starters' /\ StartingIsAwaited' /\ Bound' /\ Beside'
  <1>t. /\ socket \in Daemons \cup {0} /\ 0 \notin Daemons
        /\ \A d \in Daemons : host[d].phase \in Phases /\ host[d].starter \subseteq Dialers
    <2>1. Cardinality(Daemons) \in Nat
      BY SpawnAssumption, FS_CardinalityType
    <2>2. 0 \notin Daemons
      BY <2>1, SpawnAssumption
    <2> QED
      BY <2>2 DEF SpawnInv, SpawnTypes, Hosts1
  <1>1. SpawnedFirst'
    <2>1. Spawned' = Spawned
      BY DEF Steady, Spawned
    <2> QED
      BY <2>1 DEF SpawnInv, SpawnedFirst
  <1>2. Starters'
    BY DEF SpawnInv, Steady, Starters, PastLaunch
  <1>3. ASSUME NEW d \in Daemons, host[d].phase # "unborn", WentOn(d) PROVE WentOn(d)'
    <2>1. PICK s \in Dialers :
            /\ host[d].starter = {s} /\ dialer[s].pc \in PastLaunch \cup {"waiting"}
            /\ dialer[s].pc = "waiting" => dialer[s].daemon = d
      BY <1>3 DEF SpawnInv, Starters
    <2>2. dialer[s].pc = "unavailable" \/ dialer[s].daemon # d
      BY <1>3, <2>1 DEF WentOn
    <2>3. dialer[s].pc \in PastLaunch
      BY <2>1, <2>2
    <2>4. host'[d].starter = {s}
      BY <2>1 DEF Steady
    <2>5. dialer'[s].pc = "unavailable" \/ dialer'[s].daemon # d
      BY <2>2, <2>3 DEF Steady
    <2> QED
      BY <2>4, <2>5 DEF WentOn
  <1>4. StartingIsAwaited'
    <2> SUFFICES ASSUME NEW d \in Daemons, host'[d].phase = "starting"
                 PROVE  WentOn(d)' \/ \E s \in host'[d].starter : dialer'[s].pc = "waiting"
      BY DEF StartingIsAwaited
    <2>1. host[d].phase = "starting" /\ host'[d].starter = host[d].starter
      BY DEF Steady
    <2>2. CASE WentOn(d)
      BY <1>3, <2>1, <2>2
    <2>3. CASE \E s \in host[d].starter : dialer[s].pc = "waiting"
      <3>1. PICK s \in Dialers : s \in host[d].starter /\ dialer[s].pc = "waiting"
        BY <1>t, <2>3
      <3>2. \/ dialer'[s].pc = "waiting" \/ dialer'[s].pc = "unavailable"
            \/ dialer'[s].daemon = socket /\ host[socket].phase = "serving"
        BY <3>1 DEF Steady
      <3>3. dialer'[s].pc = "waiting" \/ dialer'[s].pc = "unavailable" \/ dialer'[s].daemon # d
        BY <2>1, <3>2
      <3> QED
        BY <2>1, <3>1, <3>3 DEF WentOn
    <2> QED
      BY <2>1, <2>2, <2>3 DEF SpawnInv, StartingIsAwaited
  <1>5. Bound'
    BY <1>t DEF SpawnInv, Steady, Bound
  <1>6. Beside'
    <2> SUFFICES ASSUME NEW c \in Dialers, dialer'[c].pc = "spawning", Greets(c)'
                 PROVE  WentOn(socket)'
      BY DEF Beside
    <2>1. dialer[c].pc = "spawning" /\ dialer'[c].build = dialer[c].build
      BY DEF Steady
    <2>2. socket' = socket /\ socket \in Daemons
      BY <1>t DEF Steady, Greets
    <2>3. Greets(c) /\ host[socket].phase = "serving"
      BY <2>1, <2>2 DEF Steady, Greets
    <2>4. WentOn(socket)
      BY <2>1, <2>3 DEF SpawnInv, Beside
    <2>5. WentOn(socket)'
      <3>1. PICK d \in Daemons : d = socket
        BY <2>2
      <3>2. WentOn(d)'
        BY <1>3, <2>3, <2>4, <3>1
      <3> QED
        BY <2>2, <3>1, <3>2 DEF WentOn
    <2> QED
      BY <2>5
  <1> QED
    BY <1>1, <1>2, <1>4, <1>5, <1>6

\* The effects of a connect.
LEMMA ConnectEffect ==
  ASSUME SpawnTypes, NEW c \in Dialers, NEW found \in DialerPlaces, NEW none \in DialerPlaces,
         Connect(c, found, none)
  PROVE  /\ host' \in [Daemons -> Hosts1] /\ dialer' \in [Dialers -> Dialers1]
         /\ \A s \in Dialers : s # c => dialer'[s] = dialer[s]
         /\ dialer'[c].build = dialer[c].build
         /\ \A d \in Daemons :
              /\ host'[d].starter = host[d].starter /\ host'[d].build = host[d].build
              /\ host'[d].phase = "unborn" <=> host[d].phase = "unborn"
              /\ host'[d].phase = "starting" => host[d].phase = "starting"
              /\ host'[d].phase = "serving" => host[d].phase = "serving"
         /\ \/ /\ Greets(c) /\ socket \in Daemons /\ host[socket].phase = "serving"
               /\ dialer'[c].pc = found /\ dialer'[c].daemon = socket
            \/ /\ ~Greets(c) /\ (socket = 0 \/ host'[socket].phase # "serving")
               /\ dialer'[c].pc = none /\ dialer'[c].daemon = dialer[c].daemon
  <1>t. /\ socket \in Daemons \cup {0} /\ host \in [Daemons -> Hosts1]
        /\ dialer \in [Dialers -> Dialers1]
    BY DEF SpawnTypes
  <1>1. CASE Greets(c) /\ host' = host
             /\ dialer' = [dialer EXCEPT ![c].pc = found, ![c].daemon = socket]
    <2>1. socket \in Daemons /\ host[socket].phase = "serving"
      BY <1>t, <1>1 DEF Greets
    <2>2. /\ dialer' \in [Dialers -> Dialers1]
          /\ \A s \in Dialers : s # c => dialer'[s] = dialer[s]
          /\ dialer'[c].build = dialer[c].build
          /\ dialer'[c].pc = found /\ dialer'[c].daemon = socket
      BY <1>t, <1>1, <2>1 DEF Dialers1
    <2> QED
      BY <1>t, <1>1, <2>1, <2>2
  <1>2. CASE Skewed(c) /\ host' = StandsDown(socket) /\ Goes(c, none)
    <2>1. socket \in Daemons /\ host[socket].phase = "serving" /\ ~Greets(c)
      BY <1>t, <1>2 DEF Skewed, Greets
    <2>2. /\ dialer' \in [Dialers -> Dialers1]
          /\ \A s \in Dialers : s # c => dialer'[s] = dialer[s]
          /\ dialer'[c].build = dialer[c].build
          /\ dialer'[c].pc = none /\ dialer'[c].daemon = dialer[c].daemon
      BY <1>t, <1>2 DEF Goes, Dialers1
    <2>3. /\ host' \in [Daemons -> Hosts1]
          /\ \A d \in Daemons : d # socket => host'[d] = host[d]
          /\ host'[socket].starter = host[socket].starter
          /\ host'[socket].build = host[socket].build /\ host'[socket].phase = "ending"
      BY ZenonT(30), <1>t, <1>2, <2>1 DEF StandsDown, Hosts1, Phases
    <2> QED
      BY <2>1, <2>2, <2>3
  <1>3. CASE Nobody /\ Goes(c, none) /\ host' = host
    <2>1. ~Greets(c) /\ (socket = 0 \/ host[socket].phase # "serving")
      BY <1>3 DEF Nobody, Listens, Greets
    <2>2. /\ dialer' \in [Dialers -> Dialers1]
          /\ \A s \in Dialers : s # c => dialer'[s] = dialer[s]
          /\ dialer'[c].build = dialer[c].build
          /\ dialer'[c].pc = none /\ dialer'[c].daemon = dialer[c].daemon
      BY <1>t, <1>3 DEF Goes, Dialers1
    <2> QED
      BY <1>t, <1>3, <2>1, <2>2
  <1> QED
    BY <1>1, <1>2, <1>3 DEF Connect

LEMMA SpawnBegins == SpawnInit => SpawnInv
  <1> SUFFICES ASSUME SpawnInit PROVE SpawnInv
    OBVIOUS
  <1>1. Cardinality(Daemons) \in Nat
    BY SpawnAssumption, FS_CardinalityType
  <1>2. PICK version \in Builds : dialer = [c \in Dialers |-> [NoDialer EXCEPT !.build = version[c]]]
    BY DEF SpawnInit
  <1>3. \A c \in Dialers : version[c] \in Versions
    BY DEF Versions
  <1>4. /\ dialer \in [Dialers -> Dialers1]
        /\ \A c \in Dialers : dialer[c].pc = "idle"
    BY <1>2, <1>3 DEF NoDialer, Dialers1, DialerPlaces
  <1>5. /\ host \in [Daemons -> Hosts1] /\ \A d \in Daemons : host[d].phase = "unborn"
        /\ socket = 0 /\ holder = {}
    BY DEF SpawnInit, NoHost, Hosts1, Phases
  <1>6. SpawnedFirst
    <2>1. Spawned = 1..0
      BY <1>5 DEF Spawned
    <2> QED
      BY <1>1, <2>1 DEF SpawnedFirst
  <1> QED
    BY <1>4, <1>5, <1>6 DEF SpawnInv, SpawnTypes, LockIsHeld, Starters, StartingIsAwaited, Bound,
       Beside

LEMMA SpawnStep == SpawnInv /\ [SpawnNext]_svars => SpawnInv'
  <1> SUFFICES ASSUME SpawnInv, [SpawnNext]_svars PROVE SpawnInv'
    OBVIOUS
  <1>t. SpawnTypes /\ socket \in Daemons \cup {0} /\ holder \in SUBSET Dialers
        /\ host \in [Daemons -> Hosts1] /\ dialer \in [Dialers -> Dialers1]
    BY DEF SpawnInv, SpawnTypes
  <1>k. LockIsHeld
    BY DEF SpawnInv
  <1>n. 0 \notin Daemons /\ Cardinality(Daemons) \in Nat /\ Daemons = 1..Cardinality(Daemons)
    BY SpawnAssumption, FS_CardinalityType
  <1>f. \A c \in Dialers : dialer[c].pc \in DialerPlaces /\ dialer[c].build \in Versions
                           /\ dialer[c].daemon \in Daemons \cup {0}
    BY <1>t DEF Dialers1
  <1>h. \A d \in Daemons : /\ host[d].phase \in Phases /\ host[d].starter \subseteq Dialers
                           /\ host[d].turns \subseteq Dialers
    BY <1>t DEF Hosts1
  <1>1. ASSUME NEW c \in Dialers, Dial(c) PROVE SpawnInv'
    <2>1. /\ dialer[c].pc = "idle" /\ Connect(c, "connected", "trying")
          /\ socket' = socket /\ holder' = holder
      BY <1>1 DEF Dial
    <2>2. /\ host' \in [Daemons -> Hosts1] /\ dialer' \in [Dialers -> Dialers1]
          /\ \A s \in Dialers : s # c => dialer'[s] = dialer[s]
          /\ dialer'[c].build = dialer[c].build
          /\ \A d \in Daemons :
               /\ host'[d].starter = host[d].starter /\ host'[d].build = host[d].build
               /\ host'[d].phase = "unborn" <=> host[d].phase = "unborn"
               /\ host'[d].phase = "starting" => host[d].phase = "starting"
               /\ host'[d].phase = "serving" => host[d].phase = "serving"
          /\ \/ /\ Greets(c) /\ socket \in Daemons /\ host[socket].phase = "serving"
                /\ dialer'[c].pc = "connected" /\ dialer'[c].daemon = socket
             \/ /\ ~Greets(c) /\ (socket = 0 \/ host'[socket].phase # "serving")
                /\ dialer'[c].pc = "trying" /\ dialer'[c].daemon = dialer[c].daemon
      BY <1>t, <2>1, ConnectEffect DEF DialerPlaces
    <2>s. Steady
      BY <1>t, <1>n, <1>h, <1>f, <2>1, <2>2 DEF Steady, PastLaunch, DialerPlaces, Phases, Greets
    <2>k. LockIsHeld'
      BY <1>k, <2>1, <2>2 DEF LockIsHeld
    <2> QED
      BY <1>t, <2>1, <2>2, <2>s, <2>k, SteadyKeeps DEF SpawnInv, SpawnTypes
  <1>2. ASSUME NEW c \in Dialers, Retry(c) PROVE SpawnInv'
    <2>1. /\ dialer[c].pc = "trying" /\ Connect(c, "connected", "trying")
          /\ socket' = socket /\ holder' = holder
      BY <1>2 DEF Retry
    <2>2. /\ host' \in [Daemons -> Hosts1] /\ dialer' \in [Dialers -> Dialers1]
          /\ \A s \in Dialers : s # c => dialer'[s] = dialer[s]
          /\ dialer'[c].build = dialer[c].build
          /\ \A d \in Daemons :
               /\ host'[d].starter = host[d].starter /\ host'[d].build = host[d].build
               /\ host'[d].phase = "unborn" <=> host[d].phase = "unborn"
               /\ host'[d].phase = "starting" => host[d].phase = "starting"
               /\ host'[d].phase = "serving" => host[d].phase = "serving"
          /\ \/ /\ Greets(c) /\ socket \in Daemons /\ host[socket].phase = "serving"
                /\ dialer'[c].pc = "connected" /\ dialer'[c].daemon = socket
             \/ /\ ~Greets(c) /\ (socket = 0 \/ host'[socket].phase # "serving")
                /\ dialer'[c].pc = "trying" /\ dialer'[c].daemon = dialer[c].daemon
      BY <1>t, <2>1, ConnectEffect DEF DialerPlaces
    <2>s. Steady
      BY <1>t, <1>n, <1>h, <1>f, <2>1, <2>2 DEF Steady, PastLaunch, DialerPlaces, Phases, Greets
    <2>k. LockIsHeld'
      BY <1>k, <2>1, <2>2 DEF LockIsHeld
    <2> QED
      BY <1>t, <2>1, <2>2, <2>s, <2>k, SteadyKeeps DEF SpawnInv, SpawnTypes
  <1>3. ASSUME NEW c \in Dialers, CheckAgain(c) PROVE SpawnInv'
    <2>1. /\ dialer[c].pc = "checking" /\ Connect(c, "connected", "spawning")
          /\ socket' = socket /\ holder' = IF Greets(c) THEN {} ELSE holder
      BY <1>3 DEF CheckAgain, Recheck
    <2>2. /\ host' \in [Daemons -> Hosts1] /\ dialer' \in [Dialers -> Dialers1]
          /\ \A s \in Dialers : s # c => dialer'[s] = dialer[s]
          /\ dialer'[c].build = dialer[c].build
          /\ \A d \in Daemons :
               /\ host'[d].starter = host[d].starter /\ host'[d].build = host[d].build
               /\ host'[d].phase = "unborn" <=> host[d].phase = "unborn"
               /\ host'[d].phase = "starting" => host[d].phase = "starting"
               /\ host'[d].phase = "serving" => host[d].phase = "serving"
          /\ \/ /\ Greets(c) /\ socket \in Daemons /\ host[socket].phase = "serving"
                /\ dialer'[c].pc = "connected" /\ dialer'[c].daemon = socket
             \/ /\ ~Greets(c) /\ (socket = 0 \/ host'[socket].phase # "serving")
                /\ dialer'[c].pc = "spawning" /\ dialer'[c].daemon = dialer[c].daemon
      BY <1>t, <2>1, ConnectEffect DEF DialerPlaces
    <2>s. Steady
      BY <1>t, <1>n, <1>h, <1>f, <2>1, <2>2 DEF Steady, PastLaunch, DialerPlaces, Phases, Greets
    <2>k. LockIsHeld'
      <3>1. holder = {c}
        BY <1>k, <2>1 DEF LockIsHeld
      <3>2. \A s \in Dialers : s # c => dialer'[s].pc \notin {"checking", "spawning", "waiting"}
        BY <1>k, <2>2, <3>1 DEF LockIsHeld
      <3>3. dialer'[c].pc # "connected" => holder' = {c}
        BY <2>1, <2>2, <3>1
      <3> QED
        BY <2>2, <3>2, <3>3 DEF LockIsHeld
    <2> QED
      BY <1>t, <2>1, <2>2, <2>s, <2>k, SteadyKeeps DEF SpawnInv, SpawnTypes
  <1>4. ASSUME NEW c \in Dialers, Await1(c) PROVE SpawnInv'
    <2>1. /\ dialer[c].pc = "waiting" /\ Connect(c, "connected", "waiting")
          /\ socket' = socket /\ holder' = IF Greets(c) THEN {} ELSE holder
      BY <1>4 DEF Await1
    <2>2. /\ host' \in [Daemons -> Hosts1] /\ dialer' \in [Dialers -> Dialers1]
          /\ \A s \in Dialers : s # c => dialer'[s] = dialer[s]
          /\ dialer'[c].build = dialer[c].build
          /\ \A d \in Daemons :
               /\ host'[d].starter = host[d].starter /\ host'[d].build = host[d].build
               /\ host'[d].phase = "unborn" <=> host[d].phase = "unborn"
               /\ host'[d].phase = "starting" => host[d].phase = "starting"
               /\ host'[d].phase = "serving" => host[d].phase = "serving"
          /\ \/ /\ Greets(c) /\ socket \in Daemons /\ host[socket].phase = "serving"
                /\ dialer'[c].pc = "connected" /\ dialer'[c].daemon = socket
             \/ /\ ~Greets(c) /\ (socket = 0 \/ host'[socket].phase # "serving")
                /\ dialer'[c].pc = "waiting" /\ dialer'[c].daemon = dialer[c].daemon
      BY <1>t, <2>1, ConnectEffect DEF DialerPlaces
    <2>s. Steady
      BY <1>t, <1>n, <1>h, <1>f, <2>1, <2>2 DEF Steady, PastLaunch, DialerPlaces, Phases, Greets
    <2>k. LockIsHeld'
      <3>1. holder = {c}
        BY <1>k, <2>1 DEF LockIsHeld
      <3>2. \A s \in Dialers : s # c => dialer'[s].pc \notin {"checking", "spawning", "waiting"}
        BY <1>k, <2>2, <3>1 DEF LockIsHeld
      <3>3. dialer'[c].pc # "connected" => holder' = {c}
        BY <2>1, <2>2, <3>1
      <3> QED
        BY <2>2, <3>2, <3>3 DEF LockIsHeld
    <2> QED
      BY <1>t, <2>1, <2>2, <2>s, <2>k, SteadyKeeps DEF SpawnInv, SpawnTypes
  <1>5. ASSUME NEW c \in Dialers, TakeLock(c) PROVE SpawnInv'
    <2>1. /\ dialer[c].pc = "trying" /\ holder = {} /\ socket' = socket /\ holder' = {c}
      BY <1>5, <1>f DEF TakeLock
    <2>2. /\ host' \in [Daemons -> Hosts1] /\ dialer' \in [Dialers -> Dialers1]
          /\ \A s \in Dialers : s # c => dialer'[s] = dialer[s]
          /\ dialer'[c].build = dialer[c].build /\ dialer'[c].daemon = dialer[c].daemon
          /\ dialer'[c].pc \in {"checking"}
          /\ \A d \in Daemons :
               /\ host'[d].starter = host[d].starter /\ host'[d].build = host[d].build
               /\ host'[d].phase = "unborn" <=> host[d].phase = "unborn"
               /\ host'[d].phase = "starting" => host[d].phase = "starting"
               /\ host'[d].phase = "serving" => host[d].phase = "serving"
      BY <1>5, <1>t DEF TakeLock, Goes, Dialers1, DialerPlaces
    <2>s. Steady
      BY <1>t, <1>n, <1>h, <1>f, <2>1, <2>2 DEF Steady, PastLaunch, DialerPlaces, Phases, Greets
    <2>k. LockIsHeld'
      BY <1>k, <2>1, <2>2 DEF LockIsHeld
    <2> QED
      BY <1>t, <2>1, <2>2, <2>s, <2>k, SteadyKeeps DEF SpawnInv, SpawnTypes
  <1>6. ASSUME NEW c \in Dialers, GiveUp(c) PROVE SpawnInv'
    <2>1. /\ dialer[c].pc \in {"trying", "waiting", "spawning"} /\ socket' = socket /\ holder' = holder \ {c}
      BY <1>6, <1>f DEF GiveUp
    <2>2. /\ host' \in [Daemons -> Hosts1] /\ dialer' \in [Dialers -> Dialers1]
          /\ \A s \in Dialers : s # c => dialer'[s] = dialer[s]
          /\ dialer'[c].build = dialer[c].build /\ dialer'[c].daemon = dialer[c].daemon
          /\ dialer'[c].pc \in {"unavailable"}
          /\ \A d \in Daemons :
               /\ host'[d].starter = host[d].starter /\ host'[d].build = host[d].build
               /\ host'[d].phase = "unborn" <=> host[d].phase = "unborn"
               /\ host'[d].phase = "starting" => host[d].phase = "starting"
               /\ host'[d].phase = "serving" => host[d].phase = "serving"
      BY <1>6, <1>t DEF GiveUp, Goes, Dialers1, DialerPlaces
    <2>s. Steady
      BY <1>t, <1>n, <1>h, <1>f, <2>1, <2>2 DEF Steady, PastLaunch, DialerPlaces, Phases, Greets
    <2>k. LockIsHeld'
      BY <1>k, <2>1, <2>2 DEF LockIsHeld
    <2> QED
      BY <1>t, <2>1, <2>2, <2>s, <2>k, SteadyKeeps DEF SpawnInv, SpawnTypes
  <1>7. ASSUME NEW c \in Dialers, StartTurn(c) PROVE SpawnInv'
    <2>1. /\ dialer[c].pc = "connected" /\ socket' = socket /\ holder' = holder
      BY <1>7, <1>f DEF StartTurn
    <2>2. /\ host' \in [Daemons -> Hosts1] /\ dialer' \in [Dialers -> Dialers1]
          /\ \A s \in Dialers : s # c => dialer'[s] = dialer[s]
          /\ dialer'[c].build = dialer[c].build /\ dialer'[c].daemon = dialer[c].daemon
          /\ dialer'[c].pc \in {"turn", "lost"}
          /\ \A d \in Daemons :
               /\ host'[d].starter = host[d].starter /\ host'[d].build = host[d].build
               /\ host'[d].phase = "unborn" <=> host[d].phase = "unborn"
               /\ host'[d].phase = "starting" => host[d].phase = "starting"
               /\ host'[d].phase = "serving" => host[d].phase = "serving"
      <3> DEFINE d == dialer[c].daemon
      <3>1. CASE d \in Daemons /\ Listens(d) /\ host' = [host EXCEPT ![d].turns = @ \cup {c}]
                 /\ Goes(c, "turn")
        <4>1. /\ dialer' \in [Dialers -> Dialers1]
              /\ \A s \in Dialers : s # c => dialer'[s] = dialer[s]
              /\ dialer'[c].build = dialer[c].build /\ dialer'[c].daemon = dialer[c].daemon
              /\ dialer'[c].pc = "turn"
          BY <1>t, <3>1 DEF Goes, Dialers1, DialerPlaces
        <4> HIDE DEF d
        <4>2. /\ host' \in [Daemons -> Hosts1]
              /\ \A e \in Daemons : e # d => host'[e] = host[e]
              /\ host'[d].starter = host[d].starter /\ host'[d].build = host[d].build
              /\ host'[d].phase = host[d].phase
          BY <1>t, <1>h, <3>1 DEF Hosts1
        <4> QED
          BY <4>1, <4>2
      <3>2. CASE Goes(c, "lost") /\ host' = host
        BY <1>t, <3>2 DEF Goes, Dialers1, DialerPlaces
      <3>3. Listens(d) => d \in Daemons
        BY <1>f DEF Listens
      <3> QED
        BY <1>7, <3>1, <3>2, <3>3 DEF StartTurn
    <2>s. Steady
      BY <1>t, <1>n, <1>h, <1>f, <2>1, <2>2 DEF Steady, PastLaunch, DialerPlaces, Phases, Greets
    <2>k. LockIsHeld'
      BY <1>k, <2>1, <2>2 DEF LockIsHeld
    <2> QED
      BY <1>t, <2>1, <2>2, <2>s, <2>k, SteadyKeeps DEF SpawnInv, SpawnTypes
  <1>8. ASSUME NEW c \in Dialers, EndTurnOf(c) PROVE SpawnInv'
    <2>1. /\ dialer[c].pc = "turn" /\ socket' = socket /\ holder' = holder
      BY <1>8, <1>f DEF EndTurnOf
    <2>2. /\ host' \in [Daemons -> Hosts1] /\ dialer' \in [Dialers -> Dialers1]
          /\ \A s \in Dialers : s # c => dialer'[s] = dialer[s]
          /\ dialer'[c].build = dialer[c].build /\ dialer'[c].daemon = dialer[c].daemon
          /\ dialer'[c].pc \in {"done"}
          /\ \A d \in Daemons :
               /\ host'[d].starter = host[d].starter /\ host'[d].build = host[d].build
               /\ host'[d].phase = "unborn" <=> host[d].phase = "unborn"
               /\ host'[d].phase = "starting" => host[d].phase = "starting"
               /\ host'[d].phase = "serving" => host[d].phase = "serving"
      <3> DEFINE d == dialer[c].daemon
      <3>1. host' = [host EXCEPT ![d].turns = @ \ {c}] /\ Goes(c, "done")
        BY <1>8 DEF EndTurnOf
      <3>2. /\ dialer' \in [Dialers -> Dialers1]
            /\ \A s \in Dialers : s # c => dialer'[s] = dialer[s]
            /\ dialer'[c].build = dialer[c].build /\ dialer'[c].daemon = dialer[c].daemon
            /\ dialer'[c].pc = "done"
        BY <1>t, <3>1 DEF Goes, Dialers1, DialerPlaces
      <3> HIDE DEF d
      <3>3. /\ host' \in [Daemons -> Hosts1]
            /\ \A e \in Daemons :
                /\ host'[e].starter = host[e].starter /\ host'[e].build = host[e].build
                /\ host'[e].phase = host[e].phase
        BY ZenonT(30), <1>t, <1>h, <3>1 DEF Hosts1
      <3> QED
        BY <3>2, <3>3
    <2>s. Steady
      BY <1>t, <1>n, <1>h, <1>f, <2>1, <2>2 DEF Steady, PastLaunch, DialerPlaces, Phases, Greets
    <2>k. LockIsHeld'
      BY <1>k, <2>1, <2>2 DEF LockIsHeld
    <2> QED
      BY <1>t, <2>1, <2>2, <2>s, <2>k, SteadyKeeps DEF SpawnInv, SpawnTypes
  <1>9. ASSUME NEW c \in Dialers, CheckStop(c) PROVE SpawnInv'
    <2>1. /\ dialer[c].pc = "idle" /\ socket' = socket /\ holder' = holder
      BY <1>9, <1>f DEF CheckStop
    <2>2. /\ host' \in [Daemons -> Hosts1] /\ dialer' \in [Dialers -> Dialers1]
          /\ \A s \in Dialers : s # c => dialer'[s] = dialer[s]
          /\ dialer'[c].build = dialer[c].build /\ dialer'[c].daemon = dialer[c].daemon
          /\ dialer'[c].pc \in {"done", "stopping"}
          /\ \A d \in Daemons :
               /\ host'[d].starter = host[d].starter /\ host'[d].build = host[d].build
               /\ host'[d].phase = "unborn" <=> host[d].phase = "unborn"
               /\ host'[d].phase = "starting" => host[d].phase = "starting"
               /\ host'[d].phase = "serving" => host[d].phase = "serving"
      BY <1>9, <1>t DEF CheckStop, Goes, Dialers1, DialerPlaces
    <2>s. Steady
      BY <1>t, <1>n, <1>h, <1>f, <2>1, <2>2 DEF Steady, PastLaunch, DialerPlaces, Phases, Greets
    <2>k. LockIsHeld'
      BY <1>k, <2>1, <2>2 DEF LockIsHeld
    <2> QED
      BY <1>t, <2>1, <2>2, <2>s, <2>k, SteadyKeeps DEF SpawnInv, SpawnTypes
  <1>10. ASSUME NEW c \in Dialers, StopDaemon(c) PROVE SpawnInv'
    <2>1. /\ dialer[c].pc = "stopping" /\ socket' = socket /\ holder' = holder
      BY <1>10, <1>f DEF StopDaemon
    <2>2. /\ host' \in [Daemons -> Hosts1] /\ dialer' \in [Dialers -> Dialers1]
          /\ \A s \in Dialers : s # c => dialer'[s] = dialer[s]
          /\ dialer'[c].build = dialer[c].build /\ dialer'[c].daemon = dialer[c].daemon
          /\ dialer'[c].pc \in {"done"}
          /\ \A d \in Daemons :
               /\ host'[d].starter = host[d].starter /\ host'[d].build = host[d].build
               /\ host'[d].phase = "unborn" <=> host[d].phase = "unborn"
               /\ host'[d].phase = "starting" => host[d].phase = "starting"
               /\ host'[d].phase = "serving" => host[d].phase = "serving"
      <3>1. /\ dialer' \in [Dialers -> Dialers1]
            /\ \A s \in Dialers : s # c => dialer'[s] = dialer[s]
            /\ dialer'[c].build = dialer[c].build /\ dialer'[c].daemon = dialer[c].daemon
            /\ dialer'[c].pc = "done"
        BY <1>10, <1>t DEF StopDaemon, Goes, Dialers1, DialerPlaces
      <3>2. ASSUME host[socket].phase = "serving",
                   socket # 0, host' = StandsDown(socket)
            PROVE  /\ host' \in [Daemons -> Hosts1]
                   /\ \A d \in Daemons : d # socket => host'[d] = host[d]
                   /\ host'[socket].starter = host[socket].starter
                   /\ host'[socket].build = host[socket].build /\ host'[socket].phase = "ending"
        <4>1. socket \in Daemons
          BY <1>t, <3>2
        <4>2. host' = [host EXCEPT ![socket].phase = "ending"]
          BY <3>2 DEF StandsDown
        <4>3. [host[socket] EXCEPT !.phase = "ending"] \in Hosts1
          BY <1>t, <4>1 DEF Hosts1, Phases
        <4> QED
          BY <1>t, <4>1, <4>2, <4>3 DEF Hosts1
      <3>3. CASE host' = host
        BY <1>t, <3>1, <3>3
      <3>4. CASE host[socket].phase = "serving" /\ socket # 0
                 /\ host' = StandsDown(socket)
        BY <3>1, <3>2, <3>4
      <3> QED
        BY <1>10, <3>3, <3>4 DEF StopDaemon, Greets, Skewed
    <2>s. Steady
      BY <1>t, <1>n, <1>h, <1>f, <2>1, <2>2 DEF Steady, PastLaunch, DialerPlaces, Phases, Greets
    <2>k. LockIsHeld'
      BY <1>k, <2>1, <2>2 DEF LockIsHeld
    <2> QED
      BY <1>t, <2>1, <2>2, <2>s, <2>k, SteadyKeeps DEF SpawnInv, SpawnTypes
  <1>11. ASSUME NEW d \in Daemons, EndpointGone(d) PROVE SpawnInv'
    <2>1. /\ socket' \in {0, socket} /\ holder' = holder
          /\ dialer' \in [Dialers -> Dialers1]
          /\ \A s \in Dialers :
              /\ dialer'[s].build = dialer[s].build /\ dialer'[s].daemon = dialer[s].daemon
              /\ \/ dialer'[s].pc = dialer[s].pc
                 \/ dialer[s].pc \in {"connected", "turn"} /\ dialer'[s].pc = "lost"
      BY <1>11, <1>t DEF EndpointGone, Dialers1, DialerPlaces
    <2>2. /\ host' \in [Daemons -> Hosts1]
          /\ \A e \in Daemons : e # d => host'[e] = host[e]
          /\ host'[d].starter = host[d].starter /\ host'[d].build = host[d].build
          /\ host[d].phase # "unborn" /\ host'[d].phase \in {"ending"}
      BY ZenonT(30), <1>11, <1>t DEF EndpointGone, Hosts1, Phases, StandsDown
    <2>s. Steady
      BY <1>t, <1>n, <1>h, <1>f, <2>1, <2>2 DEF Steady, PastLaunch, DialerPlaces, Phases, Greets
    <2>k. LockIsHeld'
      BY <1>k, <2>1, <2>2 DEF LockIsHeld
    <2> QED
      BY <1>t, <2>1, <2>2, <2>s, <2>k, SteadyKeeps DEF SpawnInv, SpawnTypes
  <1>12. ASSUME NEW d \in Daemons, Expire(d) PROVE SpawnInv'
    <2>1. /\ socket' \in {0, socket} /\ holder' = holder
          /\ dialer' \in [Dialers -> Dialers1]
          /\ \A s \in Dialers :
              /\ dialer'[s].build = dialer[s].build /\ dialer'[s].daemon = dialer[s].daemon
              /\ \/ dialer'[s].pc = dialer[s].pc
                 \/ dialer[s].pc \in {"connected", "turn"} /\ dialer'[s].pc = "lost"
      BY <1>12, <1>t DEF Expire, Dialers1, DialerPlaces
    <2>2. /\ host' \in [Daemons -> Hosts1]
          /\ \A e \in Daemons : e # d => host'[e] = host[e]
          /\ host'[d].starter = host[d].starter /\ host'[d].build = host[d].build
          /\ host[d].phase # "unborn" /\ host'[d].phase \in {"ending"}
      BY ZenonT(30), <1>12, <1>t DEF Expire, Hosts1, Phases, StandsDown
    <2>s. Steady
      BY <1>t, <1>n, <1>h, <1>f, <2>1, <2>2 DEF Steady, PastLaunch, DialerPlaces, Phases, Greets
    <2>k. LockIsHeld'
      BY <1>k, <2>1, <2>2 DEF LockIsHeld
    <2> QED
      BY <1>t, <2>1, <2>2, <2>s, <2>k, SteadyKeeps DEF SpawnInv, SpawnTypes
  <1>13. ASSUME NEW d \in Daemons, Close(d) PROVE SpawnInv'
    <2>1. /\ socket' \in {0, socket} /\ holder' = holder
          /\ dialer' \in [Dialers -> Dialers1]
          /\ \A s \in Dialers :
              /\ dialer'[s].build = dialer[s].build /\ dialer'[s].daemon = dialer[s].daemon
              /\ \/ dialer'[s].pc = dialer[s].pc
                 \/ dialer[s].pc \in {"connected", "turn"} /\ dialer'[s].pc = "lost"
      BY <1>13, <1>t DEF Close, Dialers1, DialerPlaces
    <2>2. /\ host' \in [Daemons -> Hosts1]
          /\ \A e \in Daemons : e # d => host'[e] = host[e]
          /\ host'[d].starter = host[d].starter /\ host'[d].build = host[d].build
          /\ host[d].phase # "unborn" /\ host'[d].phase \in {"closed"}
      BY ZenonT(30), <1>13, <1>t DEF Close, Hosts1, Phases
    <2>s. Steady
      BY <1>t, <1>n, <1>h, <1>f, <2>1, <2>2 DEF Steady, PastLaunch, DialerPlaces, Phases, Greets
    <2>k. LockIsHeld'
      BY <1>k, <2>1, <2>2 DEF LockIsHeld
    <2> QED
      BY <1>t, <2>1, <2>2, <2>s, <2>k, SteadyKeeps DEF SpawnInv, SpawnTypes
  <1>14. ASSUME NEW d \in Daemons, Unlink(d) PROVE SpawnInv'
    <2>1. /\ socket' \in {0, socket} /\ holder' = holder
          /\ dialer' \in [Dialers -> Dialers1]
          /\ \A s \in Dialers :
              /\ dialer'[s].build = dialer[s].build /\ dialer'[s].daemon = dialer[s].daemon
              /\ \/ dialer'[s].pc = dialer[s].pc
                 \/ dialer[s].pc \in {"connected", "turn"} /\ dialer'[s].pc = "lost"
      BY <1>14, <1>t DEF Unlink, Dialers1, DialerPlaces
    <2>2. /\ host' \in [Daemons -> Hosts1]
          /\ \A e \in Daemons : e # d => host'[e] = host[e]
          /\ host'[d].starter = host[d].starter /\ host'[d].build = host[d].build
          /\ host[d].phase # "unborn" /\ host'[d].phase \in {"dead"}
      BY ZenonT(30), <1>14, <1>t DEF Unlink, Hosts1, Phases
    <2>s. Steady
      BY <1>t, <1>n, <1>h, <1>f, <2>1, <2>2 DEF Steady, PastLaunch, DialerPlaces, Phases, Greets
    <2>k. LockIsHeld'
      BY <1>k, <2>1, <2>2 DEF LockIsHeld
    <2> QED
      BY <1>t, <2>1, <2>2, <2>s, <2>k, SteadyKeeps DEF SpawnInv, SpawnTypes
  <1>15. ASSUME NEW d \in Daemons, Dies(d) PROVE SpawnInv'
    <2>1. /\ socket' \in {0, socket} /\ holder' = holder
          /\ dialer' \in [Dialers -> Dialers1]
          /\ \A s \in Dialers :
              /\ dialer'[s].build = dialer[s].build /\ dialer'[s].daemon = dialer[s].daemon
              /\ \/ dialer'[s].pc = dialer[s].pc
                 \/ dialer[s].pc \in {"connected", "turn"} /\ dialer'[s].pc = "lost"
      BY <1>15, <1>t DEF Dies, Dialers1, DialerPlaces
    <2>2. /\ host' \in [Daemons -> Hosts1]
          /\ \A e \in Daemons : e # d => host'[e] = host[e]
          /\ host'[d].starter = host[d].starter /\ host'[d].build = host[d].build
          /\ host[d].phase # "unborn" /\ host'[d].phase \in {"dead"}
      <3>1. /\ host[d].phase \in {"starting", "serving"}
            /\ host' = [host EXCEPT ![d].phase = "dead"]
        BY <1>15 DEF Dies
      <3>2. [host[d] EXCEPT !.phase = "dead"] \in Hosts1
        BY <1>t DEF Hosts1, Phases
      <3>3. /\ host' \in [Daemons -> Hosts1]
            /\ \A e \in Daemons : e # d => host'[e] = host[e]
            /\ host'[d] = [host[d] EXCEPT !.phase = "dead"]
        BY <1>t, <3>1, <3>2
      <3>4. host[d] \in Hosts1
        BY <1>t
      <3> QED
        BY <3>1, <3>3, <3>4 DEF Hosts1
    <2>s. Steady
      BY <1>t, <1>n, <1>h, <1>f, <2>1, <2>2 DEF Steady, PastLaunch, DialerPlaces, Phases, Greets
    <2>k. LockIsHeld'
      BY <1>k, <2>1, <2>2 DEF LockIsHeld
    <2> QED
      BY <1>t, <2>1, <2>2, <2>s, <2>k, SteadyKeeps DEF SpawnInv, SpawnTypes
  <1>16. ASSUME NEW c \in Dialers, Launch(c) PROVE SpawnInv'
    <2> DEFINE d == Cardinality(Spawned) + 1
    <2>1. PICK n \in 0..Cardinality(Daemons) : Spawned = 1..n
      BY DEF SpawnInv, SpawnedFirst
    <2>2. n # Cardinality(Daemons)
      BY <1>16, <1>n, <2>1 DEF Launch
    <2>3. d = n + 1 /\ d \in Daemons /\ n + 1 \in 0..Cardinality(Daemons)
      <3>1. n \in Nat /\ n < Cardinality(Daemons)
        BY <1>n, <2>1, <2>2
      <3>2. Cardinality(1..n) = n
        BY <3>1, FS_Interval
      <3>3. d = n + 1
        BY <2>1, <3>2
      <3> HIDE DEF d
      <3> QED
        BY <1>n, <3>1, <3>3
    <2>4. host[d].phase = "unborn"
      BY <1>n, <2>1, <2>3 DEF Spawned
    <2>5. /\ dialer[c].pc = "spawning" /\ socket' = socket /\ holder' = holder
          /\ host' = [host EXCEPT ![d].phase = "starting", ![d].build = dialer[c].build,
                                 ![d].starter = {c}]
          /\ dialer' = [dialer EXCEPT ![c].pc = "waiting", ![c].daemon = d]
      BY <1>16 DEF Launch
    <2> HIDE DEF d
    <2>6. /\ dialer' \in [Dialers -> Dialers1]
          /\ \A s \in Dialers : s # c => dialer'[s] = dialer[s]
          /\ dialer'[c].pc = "waiting" /\ dialer'[c].daemon = d
          /\ dialer'[c].build = dialer[c].build
      BY <1>t, <2>3, <2>5 DEF Dialers1, DialerPlaces
    <2>7. /\ host' \in [Daemons -> Hosts1]
          /\ \A e \in Daemons : e # d => host'[e] = host[e]
          /\ host'[d].phase = "starting" /\ host'[d].starter = {c}
      <3>1. [host[d] EXCEPT !.phase = "starting", !.build = dialer[c].build, !.starter = {c}] \in Hosts1
        BY <1>t, <1>f, <2>3 DEF Hosts1, Phases
      <3>2. /\ host' \in [Daemons -> Hosts1]
            /\ \A e \in Daemons : e # d => host'[e] = host[e]
            /\ host'[d] = [host[d] EXCEPT !.phase = "starting", !.build = dialer[c].build, !.starter = {c}]
        BY <1>t, <2>3, <2>5, <3>1
      <3>3. host[d] \in Hosts1
        BY <1>t, <2>3
      <3> QED
        BY <3>2, <3>3 DEF Hosts1
    <2>8. \A e \in Daemons : host[e].phase # "unborn" => c \notin host[e].starter
      BY <2>5 DEF SpawnInv, Starters, PastLaunch
    <2>9. SpawnTypes'
      BY <1>t, <2>5, <2>6, <2>7 DEF SpawnTypes
    <2>10. LockIsHeld'
      BY <1>k, <2>5, <2>6 DEF LockIsHeld
    <2>11. SpawnedFirst'
      <3>1. Spawned' = Spawned \cup {d}
        BY <2>3, <2>7 DEF Spawned
      <3>2. Spawned' = 1..(n + 1)
        BY <2>1, <2>3, <3>1
      <3> QED
        BY <2>3, <3>2 DEF SpawnedFirst
    <2>12. Starters'
      BY <2>3, <2>6, <2>7, <2>8 DEF SpawnInv, Starters, PastLaunch
    <2>13. \A e \in Daemons : e # d /\ host[e].phase # "unborn" => (WentOn(e)' <=> WentOn(e))
      BY <1>h, <2>6, <2>7, <2>8 DEF WentOn
    <2>14. StartingIsAwaited'
      BY <1>h, <2>6, <2>7, <2>8, <2>13 DEF SpawnInv, StartingIsAwaited
    <2>15. Bound' /\ (socket # 0 => socket \in Daemons /\ socket # d)
      BY <1>t, <2>4, <2>5, <2>7 DEF SpawnInv, Bound
    <2>16. Beside'
      <3> SUFFICES ASSUME NEW s \in Dialers, dialer'[s].pc = "spawning", Greets(s)'
                   PROVE  WentOn(socket)'
        BY DEF Beside
      <3>1. s # c /\ dialer'[s] = dialer[s]
        BY <2>6
      <3>2. socket \in Daemons /\ socket # d /\ host'[socket] = host[socket] /\ Greets(s)
        BY <2>5, <2>7, <2>15, <3>1 DEF Greets
      <3>3. WentOn(socket) /\ host[socket].phase # "unborn"
        BY <3>1, <3>2 DEF SpawnInv, Beside, Greets
      <3>4. PICK e \in Daemons : e = socket
        BY <3>2
      <3>5. WentOn(e)'
        BY <2>13, <3>2, <3>3, <3>4
      <3> QED
        BY <2>5, <3>4, <3>5 DEF WentOn
    <2> QED
      BY <2>9, <2>10, <2>11, <2>12, <2>14, <2>15, <2>16 DEF SpawnInv
  <1>17. ASSUME NEW d \in Daemons, Bind(d) PROVE SpawnInv'
    <2>1. /\ host[d].phase = "starting" /\ socket' = d
          /\ holder' = holder /\ dialer' = dialer
      BY <1>17 DEF Bind
    <2>2. /\ host' \in [Daemons -> Hosts1]
          /\ \A e \in Daemons : e # d => host'[e] = host[e]
          /\ host'[d].phase = "serving" /\ host'[d].starter = host[d].starter
      BY ZenonT(30), <1>17, <1>t DEF Bind, Hosts1, Phases
    <2>3. SpawnTypes' /\ LockIsHeld'
      BY <1>t, <1>k, <2>1, <2>2 DEF SpawnTypes, LockIsHeld
    <2>4. SpawnedFirst'
      <3>1. Spawned' = Spawned
        BY <2>1, <2>2 DEF Spawned
      <3> QED
        BY <3>1 DEF SpawnInv, SpawnedFirst
    <2>5. Starters'
      BY <2>1, <2>2 DEF SpawnInv, Starters
    <2>6. \A e \in Daemons : WentOn(e)' <=> WentOn(e)
      BY <2>1, <2>2 DEF WentOn
    <2>7. StartingIsAwaited'
      BY <2>1, <2>2, <2>6 DEF SpawnInv, StartingIsAwaited
    <2>8. Bound'
      BY <2>1, <2>2 DEF Bound
    <2>9. Beside'
      <3> SUFFICES ASSUME NEW c \in Dialers, dialer[c].pc = "spawning" PROVE WentOn(d)
        BY <2>1, <2>6 DEF Beside, WentOn
      <3>1. WentOn(d) \/ \E s \in host[d].starter : dialer[s].pc = "waiting"
        BY <2>1 DEF SpawnInv, StartingIsAwaited
      <3>2. ASSUME NEW s \in host[d].starter, dialer[s].pc = "waiting" PROVE FALSE
        <4>1. holder = {c} /\ holder = {s}
          BY <1>h, <1>k, <3>2 DEF LockIsHeld
        <4> QED
          BY <3>2, <4>1
      <3> QED
        BY <3>1, <3>2
    <2> QED
      BY <2>3, <2>4, <2>5, <2>7, <2>8, <2>9 DEF SpawnInv
  <1>18. CASE UNCHANGED svars
    BY <1>18 DEF svars, SpawnInv, SpawnTypes, LockIsHeld, SpawnedFirst, Spawned, Starters,
       StartingIsAwaited, WentOn, Bound, Beside, Greets
  <1> QED
    BY <1>1, <1>2, <1>3, <1>4, <1>5, <1>6, <1>7, <1>8, <1>9, <1>10, <1>11, <1>12, <1>13, <1>14, <1>15, <1>16, <1>17, <1>18 DEF SpawnNext

\* A daemon that serves at the path is left alone by every client of its build,
\* however many dial at once and however many daemons come and go: another is
\* launched beside it only when the client that started it went on without it
\* (ensure_daemon's check under the spawn lock).
THEOREM OneIsLaunched == SpawnSpec => OneLaunch
  <1> DEFINE Launches ==
        \A c \in Dialers :
            dialer[c].pc = "spawning" /\ dialer'[c].pc = "waiting" /\ Greets(c) =>
                \E s \in host[socket].starter :
                    dialer[s].pc = "unavailable" \/ dialer[s].daemon # socket
  <1>1. SpawnInv => Launches
    BY DEF SpawnInv, Beside, WentOn
  <1>2. SpawnInv /\ [SpawnNext]_svars => [Launches]_svars
    BY <1>1
  <1> QED
    BY <1>2, SpawnBegins, SpawnStep, PTL DEF SpawnSpec, OneLaunch

----------------------------------------------------------------------------
(* Steer.                                                                   *)

Currents == [turn : 1..LastTurn, by : SUBSET Corrections,
             state : {"preparing", "running", "waiting", "finished"}]
Refusals == {"conflict", "promptRequired", "denied"}
Steers == [pc : {"idle", "correcting", "sent", "canceling", "redirecting", "dispatched", "over"},
           mode : {"", "in-place", "cancel-then-start"}, target : 0..LastTurn,
           adapter : {"none", "asked", "answered", "claiming", "opened", "refused"},
           reply : Refusals \cup {"none", "injected", "startedNewTurn", "unanswered",
                                  "unavailable"},
           said : {"", "accepted", "not_delivered", "unknown"}, hurried : BOOLEAN]
SteerTypes ==
    /\ current \in Currents /\ serving \in BOOLEAN
    /\ reached \in [0..LastTurn -> SUBSET Corrections]
    /\ current.by # {} => current.turn > 1
\* The turns that were given a correction, and what the invariant says of one
\* call k, given them, the session and whether the daemon is up.
Given(given, c) == {t \in 0..LastTurn : c \in given[t]}

\* A correction in place reaches a turn only through the adapter's answer; a
\* refusal is final, and the daemon that was not there does not come back.
InPlaceOk(k, up, turns) ==
    /\ k.adapter \in {"none", "asked", "answered"}
    /\ k.adapter # "answered" => turns = {}
    /\ k.pc = "correcting" => k.adapter = "none"
    /\ k.reply = "injected" => turns \cap 1..LastTurn # {}
    /\ k.reply \in Refusals => k.adapter # "asked" /\ turns = {}
    /\ k.said = "not_delivered" => k.reply \in Refusals \/ (~up /\ k.adapter = "none")
    /\ k.said = "accepted" => k.reply = "injected"

\* The number of the target is never undercut by more than the one turn that
\* can be rolled back.
Floor(t, now) ==
    \/ t <= now.turn
    \/ t = now.turn + 1 /\ now.state # "preparing"
\* A redirect opens one turn, which is not older than its target; and a turn
\* that was prompted keeps its number.
RedirectOk(k, c, now, turns) ==
    /\ k.adapter \in {"none", "claiming", "opened", "refused"}
    /\ k.adapter # "opened" => turns = {}
    /\ k.pc \in {"canceling", "redirecting"} => k.adapter = "none"
    /\ Floor(k.target, now)
    /\ \A t \in turns : /\ k.target <= t /\ t <= now.turn
                        /\ t = now.turn => now.state # "preparing"
    /\ c \in now.by =>
          /\ k.target <= now.turn /\ turns \subseteq {now.turn}
          /\ now.state = "preparing" => turns = {}
          /\ k.adapter = "opened" \/ (k.adapter = "refused" /\ now.state = "finished")
    /\ k.said = "not_delivered" /\ ~k.hurried =>
          \/ k.adapter \in {"none", "refused"}
          \/ /\ k.adapter = "opened" /\ turns \subseteq {k.target}
             /\ c \in now.by => now.turn = k.target

CallOk(k, c, now, up, turns) ==
    /\ k.said # "" => k.pc = "over"
    /\ k.pc \in {"correcting", "sent"} => k.mode = "in-place"
    /\ k.pc \in {"canceling", "redirecting", "dispatched"} => k.mode = "cancel-then-start"
    /\ k.pc = "idle" => k.mode = ""
    /\ k.mode = "" => k.adapter = "none" /\ k.reply = "none" /\ turns = {}
    /\ c \in now.by => k.mode = "cancel-then-start"
    /\ \A t, u \in turns : t = u
    /\ k.mode = "in-place" => InPlaceOk(k, up, turns)
    /\ k.mode = "cancel-then-start" => RedirectOk(k, c, now, turns)

SteerInv ==
    /\ SteerTypes /\ call \in [Corrections -> Steers]
    /\ \A c \in Corrections : CallOk(call[c], c, current, serving, Given(reached, c))

\* A step of one call, after which it is k.
LEMMA OneCall ==
    ASSUME SteerInv, NEW c \in Corrections, NEW k \in Steers, call' = [call EXCEPT ![c] = k],
           CallOk(k, c, current', serving', Given(reached', c)), SteerTypes',
           \A d \in Corrections : d # c =>
                CallOk(call[d], d, current', serving', Given(reached', d))
    PROVE  SteerInv'
  <1>1. /\ call' \in [Corrections -> Steers]
        /\ call'[c] = k /\ \A d \in Corrections : d # c => call'[d] = call[d]
    BY DEF SteerInv
  <1>2. ASSUME NEW d \in Corrections
        PROVE  CallOk(call'[d], d, current', serving', Given(reached', d))
    <2>1. CASE d = c
      BY <2>1, <1>1
    <2>2. CASE d # c
      BY <2>2, <1>1
    <2> QED
      BY <2>1, <2>2
  <1> QED
    BY <1>1, <1>2 DEF SteerInv

\* What a step of the session does to the calls that it does not answer: the
\* turn goes on, another one is opened, or one that was not prompted is taken
\* back.
Moves(d, now, new) ==
    \/ /\ new.turn = now.turn /\ new.by \subseteq now.by /\ new.state # "preparing"
       /\ now.state = "finished" => new.state = "finished"
    \/ new.turn = now.turn + 1 /\ d \notin new.by
    \/ /\ new.turn = now.turn - 1 /\ d \notin new.by
       /\ now.state = "preparing" /\ new.state = "finished"
LEMMA MovesKeep ==
    ASSUME NEW k \in Steers, NEW d \in Corrections, NEW now \in Currents, NEW new \in Currents,
           NEW up \in BOOLEAN, NEW still \in BOOLEAN, still => up,
           NEW turns \in SUBSET (0..LastTurn),
           CallOk(k, d, now, up, turns), Moves(d, now, new)
    PROVE  CallOk(k, d, new, still, turns)
  <1>0. \A n \in 0..LastTurn : n \in Nat
    OBVIOUS
  <1>1. /\ now.turn \in Nat /\ new.turn \in Nat /\ k.target \in Nat
        /\ \A t \in turns : t \in Nat
    <2>1. now.turn \in 1..LastTurn /\ new.turn \in 1..LastTurn
      BY DEF Currents
    <2>2. k.target \in 0..LastTurn
      BY DEF Steers
    <2> QED
      BY <1>0, <2>1, <2>2
  <1>2. d \in new.by => d \in now.by
    BY DEF Moves
  <1>3. CASE k.mode = "in-place"
    <2>1. InPlaceOk(k, still, turns)
      BY <1>3 DEF CallOk, InPlaceOk
    <2> QED
      BY <1>2, <1>3, <2>1 DEF CallOk
  <1>4. CASE k.mode = "cancel-then-start"
    <2>r. RedirectOk(k, d, now, turns)
      BY <1>4 DEF CallOk
    <2>1. Floor(k.target, new)
      BY <1>1, <2>r DEF RedirectOk, Floor, Moves
    <2>2. \A t \in turns : /\ k.target <= t /\ t <= new.turn
                           /\ t = new.turn => new.state # "preparing"
      BY <1>1, <2>r DEF RedirectOk, Moves
    <2>3. d \in new.by => /\ new.turn = now.turn /\ new.state # "preparing"
                          /\ now.state = "finished" => new.state = "finished"
      BY DEF Moves
    <2>4. d \in new.by =>
              /\ k.target <= new.turn /\ turns \subseteq {new.turn}
              /\ new.state = "preparing" => turns = {}
              /\ k.adapter = "opened" \/ (k.adapter = "refused" /\ new.state = "finished")
      BY <1>2, <2>3, <2>r DEF RedirectOk
    <2>5. k.said = "not_delivered" /\ ~k.hurried =>
              \/ k.adapter \in {"none", "refused"}
              \/ /\ k.adapter = "opened" /\ turns \subseteq {k.target}
                 /\ d \in new.by => new.turn = k.target
      BY <1>2, <2>3, <2>r DEF RedirectOk
    <2>6. RedirectOk(k, d, new, turns)
      BY <2>1, <2>2, <2>4, <2>5, <2>r DEF RedirectOk
    <2> QED
      BY <1>2, <1>4, <2>6 DEF CallOk
  <1>5. CASE k.mode = ""
    BY <1>2, <1>5 DEF CallOk
  <1> QED
    BY <1>3, <1>4, <1>5 DEF Steers

LEMMA SteerBegins == SteerInit => SteerInv
  <1> SUFFICES ASSUME SteerInit PROVE SteerInv
    OBVIOUS
  <1>1. /\ current = [turn |-> 1, state |-> "running", by |-> {}] /\ serving = TRUE
        /\ reached = [t \in 0..LastTurn |-> {}] /\ call = [c \in Corrections |-> NoCall]
    BY DEF SteerInit
  <1>2. SteerTypes
    BY <1>1, SteerAssumption DEF SteerTypes, Currents
  <1>3. /\ NoCall \in Steers /\ NoCall.pc = "idle" /\ NoCall.mode = "" /\ NoCall.said = ""
        /\ NoCall.adapter = "none" /\ NoCall.reply = "none"
    BY SteerAssumption DEF NoCall, Steers, Refusals
  <1>4. \A c \in Corrections : Given(reached, c) = {}
    BY <1>1 DEF Given
  <1>5. current.by = {}
    BY <1>1
  <1>6. ASSUME NEW c \in Corrections
        PROVE  CallOk(call[c], c, current, serving, Given(reached, c))
    BY <1>1, <1>3, <1>4, <1>5 DEF CallOk
  <1> QED
    BY <1>1, <1>2, <1>3, <1>6 DEF SteerInv

LEMMA SteerStep == SteerInv /\ [SteerNext]_stvars => SteerInv'
  <1> SUFFICES ASSUME SteerInv, [SteerNext]_stvars PROVE SteerInv'
    OBVIOUS
  <1>t. /\ SteerTypes /\ current \in Currents /\ serving \in BOOLEAN
        /\ reached \in [0..LastTurn -> SUBSET Corrections]
        /\ call \in [Corrections -> Steers]
        /\ \A c \in Corrections : Given(reached, c) \in SUBSET (0..LastTurn)
        /\ \A c \in Corrections : CallOk(call[c], c, current, serving, Given(reached, c))
    BY DEF SteerInv, SteerTypes, Given
  <1>n. /\ current.turn \in Nat /\ current.turn \in 1..LastTurn /\ LastTurn \in Nat
        /\ current.turn \in 0..LastTurn /\ \A n \in 0..LastTurn : n \in Nat
        /\ current.by \in SUBSET Corrections
        /\ current.state \in {"preparing", "running", "waiting", "finished"}
        /\ current = [turn |-> current.turn, by |-> current.by, state |-> current.state]
    BY <1>t, SteerAssumption DEF Currents
  \* A step of a call alone, and one of the session alone.
  <1>one. ASSUME NEW c \in Corrections, NEW k \in Steers, call' = [call EXCEPT ![c] = k],
                 CallOk(k, c, current, serving, Given(reached, c)),
                 UNCHANGED <<current, serving, reached>>
          PROVE  SteerInv'
    <2>1. SteerTypes'
      BY <1>one, <1>t DEF SteerTypes
    <2>2. \A d \in Corrections : CallOk(call[d], d, current', serving', Given(reached', d))
      BY <1>one, <1>t
    <2>3. CallOk(k, c, current', serving', Given(reached', c))
      BY <1>one
    <2> QED
      BY <1>one, <2>1, <2>2, <2>3, OneCall
  <1>moves. ASSUME NEW d \in Corrections, current' \in Currents, Moves(d, current, current'),
                   serving' \in BOOLEAN, serving' => serving, reached' = reached
            PROVE  CallOk(call[d], d, current', serving', Given(reached', d))
    <2>1. call[d] \in Steers /\ Given(reached, d) \in SUBSET (0..LastTurn)
          /\ CallOk(call[d], d, current, serving, Given(reached, d))
      BY <1>t
    <2>2. CallOk(call[d], d, current', serving', Given(reached, d))
      BY <1>moves, <1>t, <2>1, MovesKeep
    <2> QED
      BY <1>moves, <2>2
  <1>all. ASSUME current' \in Currents, SteerTypes', call' = call,
                 \A d \in Corrections : CallOk(call[d], d, current', serving', Given(reached', d))
          PROVE  SteerInv'
    BY <1>all, <1>t DEF SteerInv

  <1>1. ASSUME NEW c \in Corrections, LoadTarget(c) PROVE SteerInv'
    <2>t. call[c] \in Steers /\ CallOk(call[c], c, current, serving, Given(reached, c))
      BY DEF SteerInv
    <2>d. /\ call[c].mode \in {"", "in-place", "cancel-then-start"}
          /\ call[c].target \in 0..LastTurn /\ call[c].target \in Nat
      BY <2>t, <1>n DEF Steers
    <2>u. UNCHANGED <<current, serving, reached>>
      BY <1>1 DEF LoadTarget, Says
    <2>1. PICK mode \in {"in-place", "cancel-then-start"} :
            IF Ongoing /\ (mode = "in-place" => InFlight)
            THEN call' = [call EXCEPT ![c].pc = IF mode = "in-place" THEN "correcting" ELSE "canceling",
                                      ![c].mode = mode, ![c].target = current.turn]
            ELSE Says(c, "not_delivered")
      BY <1>1 DEF LoadTarget
    <2>2. call[c].pc = "idle"
      BY <1>1 DEF LoadTarget
    <2>b. /\ call[c].mode = "" /\ call[c].adapter = "none" /\ call[c].reply = "none"
          /\ call[c].said = "" /\ c \notin current.by /\ Given(reached, c) = {}
      BY <2>t, <2>2 DEF CallOk
    <2>3. CASE mode = "in-place" /\ call' = [call EXCEPT ![c].pc = "correcting",
                    ![c].mode = "in-place", ![c].target = current.turn]
      <3> DEFINE k == [call[c] EXCEPT !.pc = "correcting", !.mode = "in-place", !.target = current.turn]
      <3>k. call' = [call EXCEPT ![c] = k]
        BY <2>3
      <3>f. /\ k \in Steers /\ k.pc = "correcting" /\ k.mode = "in-place"
            /\ k.target = current.turn /\ k.adapter = call[c].adapter
            /\ k.reply = call[c].reply /\ k.said = call[c].said
            /\ k.hurried = call[c].hurried
        <4>1. k \in Steers
          BY <2>t, <1>n, <2>d DEF Steers, Refusals
        <4>2. /\ k.pc = "correcting" /\ k.mode = "in-place"
              /\ k.target = current.turn
          BY <2>t DEF Steers
        <4>3. /\ k.adapter = call[c].adapter /\ k.reply = call[c].reply
              /\ k.said = call[c].said /\ k.hurried = call[c].hurried
          BY <2>t DEF Steers
        <4> QED
          BY <4>1, <4>2, <4>3
      <3> HIDE DEF k
      <3>o. CallOk(k, c, current, serving, Given(reached, c))
        BY <2>b, <3>f DEF CallOk, InPlaceOk, Refusals
      <3> QED
        BY <3>k, <3>f, <3>o, <1>one, <2>u
    <2>4. CASE mode = "cancel-then-start" /\ call' = [call EXCEPT ![c].pc = "canceling",
                    ![c].mode = "cancel-then-start", ![c].target = current.turn]
      <3> DEFINE k == [call[c] EXCEPT !.pc = "canceling", !.mode = "cancel-then-start", !.target = current.turn]
      <3>k. call' = [call EXCEPT ![c] = k]
        BY <2>4
      <3>f. /\ k \in Steers /\ k.pc = "canceling" /\ k.mode = "cancel-then-start"
            /\ k.target = current.turn /\ k.adapter = call[c].adapter
            /\ k.reply = call[c].reply /\ k.said = call[c].said
            /\ k.hurried = call[c].hurried
        <4>1. k \in Steers
          BY <2>t, <1>n, <2>d DEF Steers, Refusals
        <4>2. /\ k.pc = "canceling" /\ k.mode = "cancel-then-start"
              /\ k.target = current.turn
          BY <2>t DEF Steers
        <4>3. /\ k.adapter = call[c].adapter /\ k.reply = call[c].reply
              /\ k.said = call[c].said /\ k.hurried = call[c].hurried
          BY <2>t DEF Steers
        <4> QED
          BY <4>1, <4>2, <4>3
      <3> HIDE DEF k
      <3>o. CallOk(k, c, current, serving, Given(reached, c))
        <4>1. Floor(k.target, current)
          BY <3>f, <1>n DEF Floor
        <4>2. RedirectOk(k, c, current, Given(reached, c))
          BY <4>1, <2>b, <3>f DEF RedirectOk
        <4> QED
          BY <4>2, <2>b, <3>f DEF CallOk
      <3> QED
        BY <3>k, <3>f, <3>o, <1>one, <2>u
    <2>5. CASE call' = [call EXCEPT ![c].pc = "over", ![c].said = "not_delivered"]
      <3> DEFINE k == [call[c] EXCEPT !.pc = "over", !.said = "not_delivered"]
      <3>k. call' = [call EXCEPT ![c] = k]
        BY <2>5
      <3>f. /\ k \in Steers /\ k.pc = "over" /\ k.mode = call[c].mode
            /\ k.target = call[c].target /\ k.adapter = call[c].adapter
            /\ k.reply = call[c].reply /\ k.said = "not_delivered"
            /\ k.hurried = call[c].hurried
        <4>1. k \in Steers
          BY ZenonT(30), <2>t, <1>n, <2>d DEF Steers, Refusals
        <4>2. /\ k.pc = "over" /\ k.mode = call[c].mode
              /\ k.target = call[c].target
          BY <2>t DEF Steers
        <4>3. /\ k.adapter = call[c].adapter /\ k.reply = call[c].reply
              /\ k.said = "not_delivered" /\ k.hurried = call[c].hurried
          BY <2>t DEF Steers
        <4> QED
          BY <4>1, <4>2, <4>3
      <3> HIDE DEF k
      <3>o. CallOk(k, c, current, serving, Given(reached, c))
        BY <2>b, <3>f DEF CallOk
      <3> QED
        BY <3>k, <3>f, <3>o, <1>one, <2>u
    <2> QED
      BY <2>1, <2>3, <2>4, <2>5 DEF Says
  <1>2. ASSUME NEW c \in Corrections, SendCorrection(c) PROVE SteerInv'
    <2>t. call[c] \in Steers /\ CallOk(call[c], c, current, serving, Given(reached, c))
      BY DEF SteerInv
    <2>d. /\ call[c].mode \in {"", "in-place", "cancel-then-start"}
          /\ call[c].target \in 0..LastTurn /\ call[c].target \in Nat
      BY <2>t, <1>n DEF Steers
    <2>u. UNCHANGED <<current, serving, reached>>
      BY <1>2 DEF SendCorrection, Says
    <2>1. call[c].pc = "correcting" /\ call[c].mode = "in-place" /\ call[c].said = ""
          /\ call[c].adapter = "none"
      BY <1>2, <2>t DEF SendCorrection, CallOk, InPlaceOk
    <2>2. CASE serving
      <3> DEFINE k == [call[c] EXCEPT !.pc = "sent"]
      <3>k. call' = [call EXCEPT ![c] = k]
        BY <1>2, <2>2 DEF SendCorrection
      <3>f. /\ k \in Steers /\ k.pc = "sent" /\ k.mode = call[c].mode
            /\ k.target = call[c].target /\ k.adapter = call[c].adapter
            /\ k.reply = call[c].reply /\ k.said = call[c].said
            /\ k.hurried = call[c].hurried
        <4>1. k \in Steers
          BY <2>t, <2>d DEF Steers, Refusals
        <4>2. /\ k.pc = "sent" /\ k.mode = call[c].mode
          BY <2>t DEF Steers
        <4>3. /\ k.target = call[c].target /\ k.adapter = call[c].adapter
          BY <2>t DEF Steers
        <4>4. /\ k.reply = call[c].reply /\ k.said = call[c].said
          BY <2>t DEF Steers
        <4>5. /\ k.hurried = call[c].hurried
          BY <2>t DEF Steers
        <4> QED
          BY <4>1, <4>2, <4>3, <4>4, <4>5
      <3> HIDE DEF k
      <3>o. CallOk(k, c, current, serving, Given(reached, c))
        BY <2>t, <2>1, <3>f DEF CallOk, InPlaceOk
      <3> QED
        BY <3>k, <3>f, <3>o, <1>one, <2>u
    <2>3. CASE ~serving
      <3> DEFINE k == [call[c] EXCEPT !.pc = "over", !.said = "not_delivered"]
      <3>k. call' = [call EXCEPT ![c] = k]
        BY <1>2, <2>3 DEF SendCorrection, Says
      <3>f. /\ k \in Steers /\ k.pc = "over" /\ k.mode = call[c].mode
            /\ k.target = call[c].target /\ k.adapter = call[c].adapter
            /\ k.reply = call[c].reply /\ k.said = "not_delivered"
            /\ k.hurried = call[c].hurried
        <4>1. k \in Steers
          BY ZenonT(30), <2>t, <2>d DEF Steers, Refusals
        <4>2. /\ k.pc = "over" /\ k.mode = call[c].mode
          BY <2>t DEF Steers
        <4>3. /\ k.target = call[c].target /\ k.adapter = call[c].adapter
          BY <2>t DEF Steers
        <4>4. /\ k.reply = call[c].reply /\ k.said = "not_delivered"
          BY <2>t DEF Steers
        <4>5. /\ k.hurried = call[c].hurried
          BY <2>t DEF Steers
        <4> QED
          BY <4>1, <4>2, <4>3, <4>4, <4>5
      <3> HIDE DEF k
      <3>o. CallOk(k, c, current, serving, Given(reached, c))
        BY <2>t, <2>1, <2>3, <3>f DEF CallOk, InPlaceOk
      <3> QED
        BY <3>k, <3>f, <3>o, <1>one, <2>u
    <2> QED
      BY <2>2, <2>3
  <1>3. ASSUME NEW c \in Corrections, Steered(c) PROVE SteerInv'
    <2>t. call[c] \in Steers /\ CallOk(call[c], c, current, serving, Given(reached, c))
      BY DEF SteerInv
    <2>d. /\ call[c].mode \in {"", "in-place", "cancel-then-start"}
          /\ call[c].target \in 0..LastTurn /\ call[c].target \in Nat
      BY <2>t, <1>n DEF Steers
    <2>u. UNCHANGED <<current, serving, reached>>
      BY <1>3 DEF Steered
    <2>1. /\ serving /\ call[c].pc \in {"sent", "over"} /\ call[c].mode = "in-place"
          /\ call[c].reply = "none" /\ call[c].adapter = "none"
      BY <1>3 DEF Steered
    <2>b. InPlaceOk(call[c], serving, Given(reached, c)) /\ c \notin current.by
          /\ Given(reached, c) = {}
      BY <2>t, <2>1 DEF CallOk, InPlaceOk
    <2>2. CASE current.state \in {"running", "waiting"}
      <3> DEFINE k == [call[c] EXCEPT !.adapter = "asked"]
      <3>k. call' = [call EXCEPT ![c] = k]
        BY <1>3, <2>2 DEF Steered
      <3>f. /\ k \in Steers /\ k.pc = call[c].pc /\ k.mode = call[c].mode
            /\ k.target = call[c].target /\ k.adapter = "asked"
            /\ k.reply = call[c].reply /\ k.said = call[c].said
            /\ k.hurried = call[c].hurried
        <4>1. k \in Steers
          BY <2>t, <2>d DEF Steers, Refusals
        <4>2. /\ k.pc = call[c].pc /\ k.mode = call[c].mode
          BY <2>t DEF Steers
        <4>3. /\ k.target = call[c].target /\ k.adapter = "asked"
          BY <2>t DEF Steers
        <4>4. /\ k.reply = call[c].reply /\ k.said = call[c].said
          BY <2>t DEF Steers
        <4>5. /\ k.hurried = call[c].hurried
          BY <2>t DEF Steers
        <4> QED
          BY <4>1, <4>2, <4>3, <4>4, <4>5
      <3> HIDE DEF k
      <3>o. CallOk(k, c, current, serving, Given(reached, c))
        BY <2>t, <2>b, <2>1, <3>f DEF CallOk, InPlaceOk, Refusals
      <3> QED
        BY <3>k, <3>f, <3>o, <1>one, <2>u
    <2>3. CASE current.state \notin {"running", "waiting"}
      <3> DEFINE k == [call[c] EXCEPT !.reply = "conflict"]
      <3>k. call' = [call EXCEPT ![c] = k]
        BY <1>3, <2>3 DEF Steered
      <3>f. /\ k \in Steers /\ k.pc = call[c].pc /\ k.mode = call[c].mode
            /\ k.target = call[c].target /\ k.adapter = call[c].adapter
            /\ k.reply = "conflict" /\ k.said = call[c].said
            /\ k.hurried = call[c].hurried
        <4>1. k \in Steers
          BY <2>t, <2>d DEF Steers, Refusals
        <4>2. /\ k.pc = call[c].pc /\ k.mode = call[c].mode
          BY <2>t DEF Steers
        <4>3. /\ k.target = call[c].target /\ k.adapter = call[c].adapter
          BY <2>t DEF Steers
        <4>4. /\ k.reply = "conflict" /\ k.said = call[c].said
          BY <2>t DEF Steers
        <4>5. /\ k.hurried = call[c].hurried
          BY <2>t DEF Steers
        <4> QED
          BY <4>1, <4>2, <4>3, <4>4, <4>5
      <3> HIDE DEF k
      <3>o. CallOk(k, c, current, serving, Given(reached, c))
        BY <2>t, <2>b, <2>1, <3>f DEF CallOk, InPlaceOk, Refusals
      <3> QED
        BY <3>k, <3>f, <3>o, <1>one, <2>u
    <2> QED
      BY <2>2, <2>3
  <1>4. ASSUME NEW c \in Corrections, AdapterCorrects(c) PROVE SteerInv'
    <2>t. call[c] \in Steers /\ CallOk(call[c], c, current, serving, Given(reached, c))
      BY DEF SteerInv
    <2>d. /\ call[c].mode \in {"", "in-place", "cancel-then-start"}
          /\ call[c].target \in 0..LastTurn /\ call[c].target \in Nat
      BY <2>t, <1>n DEF Steers
    <2>1. call[c].adapter = "asked" /\ UNCHANGED <<current, serving>>
      BY <1>4 DEF AdapterCorrects
    <2>2. PICK outcome \in {"injected", "promptRequired", "startedNewTurn", "denied"} :
            /\ reached' = CASE outcome = "injected" -> [reached EXCEPT ![current.turn] = @ \cup {c}]
                            [] outcome = "startedNewTurn" -> [reached EXCEPT ![0] = @ \cup {c}]
                            [] OTHER -> reached
            /\ call' = [call EXCEPT ![c].adapter = "answered",
                                    ![c].reply = IF @ = "none" THEN outcome ELSE @]
      BY <1>4 DEF AdapterCorrects
    <2>b. /\ call[c].mode = "in-place" /\ c \notin current.by /\ Given(reached, c) = {}
          /\ call[c].reply \notin Refusals /\ call[c].reply # "injected"
          /\ call[c].said \notin {"not_delivered", "accepted"}
          /\ call[c].pc \notin {"idle", "correcting"}
      BY <2>t, <2>d, <2>1 DEF CallOk, InPlaceOk, RedirectOk
    <2> DEFINE reply == IF call[c].reply = "none" THEN outcome ELSE call[c].reply
               k == [call[c] EXCEPT !.adapter = "answered", !.reply = reply]
    <2>3. call' = [call EXCEPT ![c] = k]
      BY <2>2
    <2>4. /\ reply \in Refusals \cup {"none", "injected", "startedNewTurn", "unanswered", "unavailable"}
          /\ reply = "injected" => outcome = "injected"
          /\ reply \in Refusals => outcome \in {"promptRequired", "denied"}
      BY <2>t, <2>b DEF Steers, Refusals
    <2> HIDE DEF reply
    <2>5. /\ k \in Steers /\ k.pc = call[c].pc /\ k.mode = call[c].mode
          /\ k.adapter = "answered" /\ k.reply = reply /\ k.said = call[c].said
      BY ZenonT(30), <2>t, <2>4 DEF Steers
    <2> HIDE DEF k
    <2>6. /\ reached' \in [0..LastTurn -> SUBSET Corrections]
          /\ \A d \in Corrections : d # c => Given(reached', d) = Given(reached, d)
          /\ outcome = "injected" => Given(reached', c) = {current.turn}
          /\ outcome = "startedNewTurn" => Given(reached', c) = {0}
          /\ outcome \in {"promptRequired", "denied"} => Given(reached', c) = {}
      <3>0. 0 \in 0..LastTurn /\ current.turn \in 0..LastTurn
        BY <1>n
      <3>1. CASE outcome = "injected"
        <4>1. reached' = [reached EXCEPT ![current.turn] = @ \cup {c}]
          BY <2>2, <3>1
        <4> QED
          BY <4>1, <3>0, <3>1, <2>b, <1>t DEF Given
      <3>2. CASE outcome = "startedNewTurn"
        <4>1. reached' = [reached EXCEPT ![0] = @ \cup {c}]
          BY <2>2, <3>2
        <4> QED
          BY <4>1, <3>0, <3>2, <2>b, <1>t DEF Given
      <3>3. CASE outcome \in {"promptRequired", "denied"}
        <4>1. reached' = reached
          BY <2>2, <3>3
        <4> QED
          BY <4>1, <3>3, <2>b, <1>t
      <3> QED
        BY <3>1, <3>2, <3>3
    <2>7. InPlaceOk(k, serving, Given(reached', c))
      BY <2>b, <2>4, <2>5, <2>6, <1>n DEF InPlaceOk, Refusals
    <2>8. \A t, u \in Given(reached', c) : t = u
      BY <2>6
    <2>9. CallOk(k, c, current', serving', Given(reached', c))
      BY <2>1, <2>t, <2>b, <2>5, <2>7, <2>8 DEF CallOk
    <2>10. SteerTypes'
      BY <2>1, <2>6, <1>t DEF SteerTypes
    <2> QED
      BY <2>1, <2>3, <2>5, <2>6, <2>9, <2>10, <1>t, OneCall
  <1>5. ASSUME NEW c \in Corrections, SteeringTimesOut(c) PROVE SteerInv'
    <2>t. call[c] \in Steers /\ CallOk(call[c], c, current, serving, Given(reached, c))
      BY DEF SteerInv
    <2>d. /\ call[c].mode \in {"", "in-place", "cancel-then-start"}
          /\ call[c].target \in 0..LastTurn /\ call[c].target \in Nat
      BY <2>t, <1>n DEF Steers
    <2>u. UNCHANGED <<current, serving, reached>>
      BY <1>5 DEF SteeringTimesOut
    <2>1. call[c].adapter = "asked" /\ call[c].reply = "none" /\ call[c].mode = "in-place"
      BY <1>5, <2>t, <2>d DEF SteeringTimesOut, CallOk, RedirectOk
    <2> DEFINE k == [call[c] EXCEPT !.reply = "unanswered"]
    <2>k. call' = [call EXCEPT ![c] = k]
      BY <1>5 DEF SteeringTimesOut
    <2>f. /\ k \in Steers /\ k.pc = call[c].pc /\ k.mode = call[c].mode
          /\ k.target = call[c].target /\ k.adapter = call[c].adapter
          /\ k.reply = "unanswered" /\ k.said = call[c].said
          /\ k.hurried = call[c].hurried
      <3>1. k \in Steers
        BY <2>t, <2>d DEF Steers, Refusals
      <3>2. /\ k.pc = call[c].pc /\ k.mode = call[c].mode
        BY <2>t DEF Steers
      <3>3. /\ k.target = call[c].target /\ k.adapter = call[c].adapter
        BY <2>t DEF Steers
      <3>4. /\ k.reply = "unanswered" /\ k.said = call[c].said
        BY <2>t DEF Steers
      <3>5. /\ k.hurried = call[c].hurried
        BY <2>t DEF Steers
      <3> QED
        BY <3>1, <3>2, <3>3, <3>4, <3>5
    <2> HIDE DEF k
    <2>o. CallOk(k, c, current, serving, Given(reached, c))
      BY <2>t, <2>1, <2>f DEF CallOk, InPlaceOk, Refusals
    <2> QED
      BY <2>k, <2>f, <2>o, <1>one, <2>u
  <1>6. ASSUME NEW c \in Corrections, ReadReply(c) PROVE SteerInv'
    <2>t. call[c] \in Steers /\ CallOk(call[c], c, current, serving, Given(reached, c))
      BY DEF SteerInv
    <2>d. /\ call[c].mode \in {"", "in-place", "cancel-then-start"}
          /\ call[c].target \in 0..LastTurn /\ call[c].target \in Nat
      BY <2>t, <1>n DEF Steers
    <2>u. UNCHANGED <<current, serving, reached>>
      BY <1>6 DEF ReadReply, Says
    <2>1. call[c].pc = "sent" /\ call[c].mode = "in-place"
      BY <1>6, <2>t DEF ReadReply, CallOk
    <2> DEFINE said == Delivery(call[c].reply)
    <2>2. /\ said \in {"accepted", "not_delivered", "unknown"}
          /\ said = "accepted" => call[c].reply = "injected"
          /\ said = "not_delivered" => call[c].reply \in Refusals
      BY DEF Delivery, Refusals
    <2>3. call' = [call EXCEPT ![c].pc = "over", ![c].said = said]
      BY <1>6 DEF ReadReply, Says
    <2> HIDE DEF said
    <2> DEFINE k == [call[c] EXCEPT !.pc = "over", !.said = said]
    <2>k. call' = [call EXCEPT ![c] = k]
      BY <2>3
    <2>f. /\ k \in Steers /\ k.pc = "over" /\ k.mode = call[c].mode
          /\ k.target = call[c].target /\ k.adapter = call[c].adapter
          /\ k.reply = call[c].reply /\ k.said = said
          /\ k.hurried = call[c].hurried
      <3>1. k \in Steers
        BY ZenonT(30), <2>t, <2>2, <2>d DEF Steers, Refusals
      <3>2. /\ k.pc = "over" /\ k.mode = call[c].mode
        BY <2>t, <2>2 DEF Steers
      <3>3. /\ k.target = call[c].target /\ k.adapter = call[c].adapter
        BY <2>t, <2>2 DEF Steers
      <3>4. /\ k.reply = call[c].reply /\ k.said = said
        BY <2>t, <2>2 DEF Steers
      <3>5. /\ k.hurried = call[c].hurried
        BY <2>t, <2>2 DEF Steers
      <3> QED
        BY <3>1, <3>2, <3>3, <3>4, <3>5
    <2> HIDE DEF k
    <2>o. CallOk(k, c, current, serving, Given(reached, c))
      BY <2>t, <2>1, <2>2, <2>f DEF CallOk, InPlaceOk
    <2> QED
      BY <2>k, <2>f, <2>o, <1>one, <2>u
  <1>7. ASSUME NEW c \in Corrections, StopListening(c) PROVE SteerInv'
    <2>t. call[c] \in Steers /\ CallOk(call[c], c, current, serving, Given(reached, c))
      BY DEF SteerInv
    <2>d. /\ call[c].mode \in {"", "in-place", "cancel-then-start"}
          /\ call[c].target \in 0..LastTurn /\ call[c].target \in Nat
      BY <2>t, <1>n DEF Steers
    <2>u. UNCHANGED <<current, serving, reached>>
      BY <1>7 DEF StopListening, Says
    <2>1. call[c].pc = "sent" /\ call[c].mode = "in-place"
      BY <1>7, <2>t DEF StopListening, CallOk
    <2>2. call' = [call EXCEPT ![c].pc = "over", ![c].said = "unknown"]
      BY <1>7 DEF StopListening, Says, Delivery
    <2> DEFINE k == [call[c] EXCEPT !.pc = "over", !.said = "unknown"]
    <2>k. call' = [call EXCEPT ![c] = k]
      BY <2>2
    <2>f. /\ k \in Steers /\ k.pc = "over" /\ k.mode = call[c].mode
          /\ k.target = call[c].target /\ k.adapter = call[c].adapter
          /\ k.reply = call[c].reply /\ k.said = "unknown"
          /\ k.hurried = call[c].hurried
      <3>1. k \in Steers
        BY ZenonT(30), <2>t, <2>d DEF Steers, Refusals
      <3>2. /\ k.pc = "over" /\ k.mode = call[c].mode
        BY <2>t DEF Steers
      <3>3. /\ k.target = call[c].target /\ k.adapter = call[c].adapter
        BY <2>t DEF Steers
      <3>4. /\ k.reply = call[c].reply /\ k.said = "unknown"
        BY <2>t DEF Steers
      <3>5. /\ k.hurried = call[c].hurried
        BY <2>t DEF Steers
      <3> QED
        BY <3>1, <3>2, <3>3, <3>4, <3>5
    <2> HIDE DEF k
    <2>o. CallOk(k, c, current, serving, Given(reached, c))
      BY <2>t, <2>1, <2>f DEF CallOk, InPlaceOk
    <2> QED
      BY <2>k, <2>f, <2>o, <1>one, <2>u
  <1>8. ASSUME NEW c \in Corrections, CancelTarget(c) PROVE SteerInv'
    <2>t. call[c] \in Steers /\ CallOk(call[c], c, current, serving, Given(reached, c))
      BY DEF SteerInv
    <2>d. /\ call[c].mode \in {"", "in-place", "cancel-then-start"}
          /\ call[c].target \in 0..LastTurn /\ call[c].target \in Nat
      BY <2>t, <1>n DEF Steers
    <2>1. /\ call[c].pc = "canceling" /\ call[c].mode = "cancel-then-start"
          /\ call[c].adapter = "none" /\ c \notin current.by /\ call[c].said = ""
          /\ UNCHANGED <<serving, reached>>
      BY <1>8, <2>t DEF CancelTarget, CallOk, RedirectOk
    <2>r. RedirectOk(call[c], c, current, Given(reached, c))
      BY <2>t, <2>1 DEF CallOk
    <2>2. CASE /\ current' = [current EXCEPT !.state = "finished"]
               /\ call' = [call EXCEPT ![c].pc = "redirecting"]
      <3>1. /\ current' \in Currents /\ current'.turn = current.turn
            /\ current'.by = current.by /\ current'.state = "finished"
        BY <2>2, <1>n, <1>t DEF Currents
      <3>2. \A d \in Corrections : Moves(d, current, current')
        BY <3>1 DEF Moves
      <3>3. \A d \in Corrections : CallOk(call[d], d, current', serving', Given(reached', d))
        BY <3>1, <3>2, <2>1, <1>t, <1>moves
      <3>4. SteerTypes'
        BY <3>1, <2>1, <1>t DEF SteerTypes
      <3> DEFINE k == [call[c] EXCEPT !.pc = "redirecting"]
      <3>5. call' = [call EXCEPT ![c] = k]
        BY <2>2
      <3>6. /\ k \in Steers /\ k.pc = "redirecting" /\ k.mode = call[c].mode
            /\ k.target = call[c].target /\ k.adapter = call[c].adapter
            /\ k.reply = call[c].reply /\ k.said = call[c].said
            /\ k.hurried = call[c].hurried
        BY <2>t DEF Steers
      <3> HIDE DEF k
      <3>7. CallOk(k, c, current', serving', Given(reached', c))
        <4>1. CallOk(call[c], c, current', serving', Given(reached', c))
          BY <3>3
        <4> QED
          BY <4>1, <3>6, <2>1 DEF CallOk, RedirectOk
      <3> QED
        BY <3>3, <3>4, <3>5, <3>6, <3>7, OneCall
    <2>3. CASE current' = current /\ call' = [call EXCEPT ![c].pc = "redirecting"]
      <3> DEFINE k == [call[c] EXCEPT !.pc = "redirecting"]
      <3>k. call' = [call EXCEPT ![c] = k]
        BY <2>3
      <3>f. /\ k \in Steers /\ k.pc = "redirecting" /\ k.mode = call[c].mode
            /\ k.target = call[c].target /\ k.adapter = call[c].adapter
            /\ k.reply = call[c].reply /\ k.said = call[c].said
            /\ k.hurried = call[c].hurried
        <4>1. k \in Steers
          BY <2>t, <2>d DEF Steers, Refusals
        <4>2. /\ k.pc = "redirecting" /\ k.mode = call[c].mode
          BY <2>t DEF Steers
        <4>3. /\ k.target = call[c].target /\ k.adapter = call[c].adapter
          BY <2>t DEF Steers
        <4>4. /\ k.reply = call[c].reply /\ k.said = call[c].said
          BY <2>t DEF Steers
        <4>5. /\ k.hurried = call[c].hurried
          BY <2>t DEF Steers
        <4> QED
          BY <4>1, <4>2, <4>3, <4>4, <4>5
      <3> HIDE DEF k
      <3>o. CallOk(k, c, current, serving, Given(reached, c))
        BY <2>t, <2>1, <3>f DEF CallOk, RedirectOk
      <3> QED
        BY <3>k, <3>f, <3>o, <1>one, <2>1, <2>3
    <2>4. CASE current' = current
               /\ call' = [call EXCEPT ![c].pc = "over", ![c].said = "not_delivered"]
      <3> DEFINE k == [call[c] EXCEPT !.pc = "over", !.said = "not_delivered"]
      <3>k. call' = [call EXCEPT ![c] = k]
        BY <2>4
      <3>f. /\ k \in Steers /\ k.pc = "over" /\ k.mode = call[c].mode
            /\ k.target = call[c].target /\ k.adapter = call[c].adapter
            /\ k.reply = call[c].reply /\ k.said = "not_delivered"
            /\ k.hurried = call[c].hurried
        <4>1. k \in Steers
          BY ZenonT(30), <2>t, <2>d DEF Steers, Refusals
        <4>2. /\ k.pc = "over" /\ k.mode = call[c].mode
          BY <2>t DEF Steers
        <4>3. /\ k.target = call[c].target /\ k.adapter = call[c].adapter
          BY <2>t DEF Steers
        <4>4. /\ k.reply = call[c].reply /\ k.said = "not_delivered"
          BY <2>t DEF Steers
        <4>5. /\ k.hurried = call[c].hurried
          BY <2>t DEF Steers
        <4> QED
          BY <4>1, <4>2, <4>3, <4>4, <4>5
      <3> HIDE DEF k
      <3>o. CallOk(k, c, current, serving, Given(reached, c))
        BY <2>t, <2>1, <3>f DEF CallOk, RedirectOk
      <3> QED
        BY <3>k, <3>f, <3>o, <1>one, <2>1, <2>4
    <2> QED
      BY <1>8, <2>2, <2>3, <2>4 DEF CancelTarget, Says
  <1>9. ASSUME NEW c \in Corrections, Redirect(c) PROVE SteerInv'
    <2>t. call[c] \in Steers /\ CallOk(call[c], c, current, serving, Given(reached, c))
      BY DEF SteerInv
    <2>d. /\ call[c].mode \in {"", "in-place", "cancel-then-start"}
          /\ call[c].target \in 0..LastTurn /\ call[c].target \in Nat
      BY <2>t, <1>n DEF Steers
    <2>u. UNCHANGED <<current, serving, reached>>
      BY <1>9 DEF Redirect, Says
    <2>1. /\ call[c].pc = "redirecting" /\ call[c].mode = "cancel-then-start"
          /\ call[c].adapter = "none" /\ call[c].said = ""
      BY <1>9, <2>t DEF Redirect, CallOk, RedirectOk
    <2>b. c \notin current.by /\ Given(reached, c) = {} /\ Floor(call[c].target, current)
      BY <2>t, <2>1 DEF CallOk, RedirectOk
    <2>2. CASE Ongoing
      <3> DEFINE k == [call[c] EXCEPT !.pc = "over", !.said = "not_delivered"]
      <3>k. call' = [call EXCEPT ![c] = k]
        BY <1>9, <2>2 DEF Redirect, Says
      <3>f. /\ k \in Steers /\ k.pc = "over" /\ k.mode = call[c].mode
            /\ k.target = call[c].target /\ k.adapter = call[c].adapter
            /\ k.reply = call[c].reply /\ k.said = "not_delivered"
            /\ k.hurried = call[c].hurried
        <4>1. k \in Steers
          BY ZenonT(30), <2>t, <2>d DEF Steers, Refusals
        <4>2. /\ k.pc = "over" /\ k.mode = call[c].mode
          BY <2>t DEF Steers
        <4>3. /\ k.target = call[c].target /\ k.adapter = call[c].adapter
          BY <2>t DEF Steers
        <4>4. /\ k.reply = call[c].reply /\ k.said = "not_delivered"
          BY <2>t DEF Steers
        <4>5. /\ k.hurried = call[c].hurried
          BY <2>t DEF Steers
        <4> QED
          BY <4>1, <4>2, <4>3, <4>4, <4>5
      <3> HIDE DEF k
      <3>o. CallOk(k, c, current, serving, Given(reached, c))
        BY <2>b, <2>1, <3>f DEF CallOk, RedirectOk
      <3> QED
        BY <3>k, <3>f, <3>o, <1>one, <2>u
    <2>3. CASE ~Ongoing
      <3> DEFINE k == [call[c] EXCEPT !.pc = "dispatched", !.adapter = "claiming"]
      <3>k. call' = [call EXCEPT ![c] = k]
        BY <1>9, <2>3 DEF Redirect
      <3>f. /\ k \in Steers /\ k.pc = "dispatched" /\ k.mode = call[c].mode
            /\ k.target = call[c].target /\ k.adapter = "claiming"
            /\ k.reply = call[c].reply /\ k.said = call[c].said
            /\ k.hurried = call[c].hurried
        <4>1. k \in Steers
          BY <2>t, <2>d DEF Steers, Refusals
        <4>2. /\ k.pc = "dispatched" /\ k.mode = call[c].mode
          BY <2>t DEF Steers
        <4>3. /\ k.target = call[c].target /\ k.adapter = "claiming"
          BY <2>t DEF Steers
        <4>4. /\ k.reply = call[c].reply /\ k.said = call[c].said
          BY <2>t DEF Steers
        <4>5. /\ k.hurried = call[c].hurried
          BY <2>t DEF Steers
        <4> QED
          BY <4>1, <4>2, <4>3, <4>4, <4>5
      <3> HIDE DEF k
      <3>o. CallOk(k, c, current, serving, Given(reached, c))
        BY <2>b, <2>1, <3>f DEF CallOk, RedirectOk
      <3> QED
        BY <3>k, <3>f, <3>o, <1>one, <2>u
    <2> QED
      BY <2>2, <2>3
  <1>10. ASSUME NEW c \in Corrections, Opens(c) PROVE SteerInv'
    <2>t. call[c] \in Steers /\ CallOk(call[c], c, current, serving, Given(reached, c))
      BY DEF SteerInv
    <2>d. /\ call[c].mode \in {"", "in-place", "cancel-then-start"}
          /\ call[c].target \in 0..LastTurn /\ call[c].target \in Nat
      BY <2>t, <1>n DEF Steers
    <2>1. /\ call[c].adapter = "claiming" /\ current.turn < LastTurn
          /\ current' = [turn |-> current.turn + 1, state |-> "preparing", by |-> {c}]
          /\ call' = [call EXCEPT ![c].adapter = "opened"]
          /\ UNCHANGED <<serving, reached>>
      BY <1>10 DEF Opens
    <2>2. /\ current' \in Currents /\ current'.turn = current.turn + 1
          /\ current'.by = {c} /\ current'.state = "preparing" /\ current'.turn > 1
      BY <2>1, <1>n DEF Currents
    <2>3. SteerTypes'
      BY <2>1, <2>2, <1>t DEF SteerTypes
    <2>4. \A d \in Corrections : d # c => CallOk(call[d], d, current', serving', Given(reached', d))
      BY <2>1, <2>2, <1>t, <1>moves DEF Moves
    <2>b. /\ call[c].mode = "cancel-then-start" /\ Given(reached, c) = {}
          /\ call[c].said = "not_delivered" => call[c].hurried
          /\ Floor(call[c].target, current) /\ call[c].pc # "idle"
          /\ call[c].pc \notin {"canceling", "redirecting", "correcting", "sent"}
          /\ call[c].said # "" => call[c].pc = "over"
      <3>1. call[c].mode = "cancel-then-start"
        BY <2>t, <2>d, <2>1 DEF CallOk, InPlaceOk
      <3> QED
        BY <2>t, <2>1, <3>1 DEF CallOk, RedirectOk
    <2> DEFINE k == [call[c] EXCEPT !.adapter = "opened"]
    <2>5. call' = [call EXCEPT ![c] = k]
      BY <2>1
    <2>6. /\ k \in Steers /\ k.pc = call[c].pc /\ k.mode = call[c].mode
          /\ k.target = call[c].target /\ k.adapter = "opened"
          /\ k.said = call[c].said /\ k.hurried = call[c].hurried
      BY <2>t DEF Steers
    <2> HIDE DEF k
    <2>7. k.target <= current'.turn /\ Floor(k.target, current')
      <3>1. k.target \in Nat
        BY <2>6, <2>d
      <3>2. k.target = current.turn + 1 \/ k.target <= current.turn
        BY <2>6, <2>b DEF Floor
      <3>3. current.turn \in Nat
        BY <1>n
      <3>4. k.target <= current'.turn
        BY <3>1, <3>2, <3>3, <2>2
      <3> QED
        BY <3>4 DEF Floor
    <2>8. CallOk(k, c, current', serving', Given(reached', c))
      BY <2>1, <2>2, <2>b, <2>6, <2>7 DEF CallOk, RedirectOk
    <2> QED
      BY <2>3, <2>4, <2>5, <2>6, <2>8, OneCall
  <1>11. ASSUME NEW c \in Corrections, RefusesClaim(c) PROVE SteerInv'
    <2>t. call[c] \in Steers /\ CallOk(call[c], c, current, serving, Given(reached, c))
      BY DEF SteerInv
    <2>d. /\ call[c].mode \in {"", "in-place", "cancel-then-start"}
          /\ call[c].target \in 0..LastTurn /\ call[c].target \in Nat
      BY <2>t, <1>n DEF Steers
    <2>u. UNCHANGED <<current, serving, reached>>
      BY <1>11 DEF RefusesClaim
    <2>1. call[c].adapter = "claiming" /\ call[c].mode = "cancel-then-start"
      BY <1>11, <2>t, <2>d DEF RefusesClaim, CallOk, InPlaceOk
    <2>b. /\ Given(reached, c) = {} /\ c \notin current.by
          /\ Floor(call[c].target, current) /\ call[c].pc # "idle"
          /\ call[c].pc \notin {"canceling", "redirecting", "correcting", "sent"}
          /\ call[c].said # "" => call[c].pc = "over"
      BY <2>t, <2>1 DEF CallOk, RedirectOk
    <2> DEFINE reply == IF Ongoing THEN "conflict" ELSE "unavailable"
    <2>2. reply \in {"conflict", "unavailable"}
          /\ call' = [call EXCEPT ![c].adapter = "refused", ![c].reply = reply]
      BY <1>11 DEF RefusesClaim
    <2> HIDE DEF reply
    <2> DEFINE k == [call[c] EXCEPT !.adapter = "refused", !.reply = reply]
    <2>k. call' = [call EXCEPT ![c] = k]
      BY <2>2
    <2>f. /\ k \in Steers /\ k.pc = call[c].pc /\ k.mode = call[c].mode
          /\ k.target = call[c].target /\ k.adapter = "refused"
          /\ k.reply = reply /\ k.said = call[c].said
          /\ k.hurried = call[c].hurried
      <3>1. k \in Steers
        BY <2>t, <2>2, <2>d DEF Steers, Refusals
      <3>2. /\ k.pc = call[c].pc /\ k.mode = call[c].mode
        BY <2>t, <2>2 DEF Steers
      <3>3. /\ k.target = call[c].target /\ k.adapter = "refused"
        BY <2>t, <2>2 DEF Steers
      <3>4. /\ k.reply = reply /\ k.said = call[c].said
        BY <2>t, <2>2 DEF Steers
      <3>5. /\ k.hurried = call[c].hurried
        BY <2>t, <2>2 DEF Steers
      <3> QED
        BY <3>1, <3>2, <3>3, <3>4, <3>5
    <2> HIDE DEF k
    <2>o. CallOk(k, c, current, serving, Given(reached, c))
      BY <2>b, <2>1, <2>f DEF CallOk, RedirectOk
    <2> QED
      BY <2>k, <2>f, <2>o, <1>one, <2>u
  <1>12. ASSUME NEW c \in Corrections, PreparationFails(c) PROVE SteerInv'
    <2>t. call[c] \in Steers /\ CallOk(call[c], c, current, serving, Given(reached, c))
      BY DEF SteerInv
    <2>d. /\ call[c].mode \in {"", "in-place", "cancel-then-start"}
          /\ call[c].target \in 0..LastTurn /\ call[c].target \in Nat
      BY <2>t, <1>n DEF Steers
    <2>1. /\ call[c].adapter = "opened" /\ current.state = "preparing" /\ current.by = {c}
          /\ call' = [call EXCEPT ![c].adapter = "refused", ![c].reply = "unavailable"]
          /\ UNCHANGED <<serving, reached>>
      BY <1>12 DEF PreparationFails
    <2>m. call[c].mode = "cancel-then-start"
      BY <2>t, <2>1 DEF CallOk
    <2>b. /\ Given(reached, c) = {} /\ call[c].target <= current.turn
          /\ call[c].pc # "idle"
          /\ call[c].pc \notin {"canceling", "redirecting", "correcting", "sent"}
          /\ call[c].said # "" => call[c].pc = "over"
      BY <2>t, <2>1, <2>m DEF CallOk, RedirectOk
    <2>2. /\ current' \in Currents /\ current'.state = "finished"
          /\ \/ current'.turn = current.turn - 1 /\ current'.by = {}
             \/ current'.turn = current.turn /\ current'.by = current.by
      <3>1. CASE current' = [current EXCEPT !.turn = @ - 1, !.state = "finished", !.by = {}]
        <4>1. current.turn > 1
          BY <2>1, <1>t DEF SteerTypes
        <4>2. current.turn - 1 \in 1..LastTurn
          BY <4>1, <1>n
        <4> QED
          BY <3>1, <4>2, <1>n, <1>t DEF Currents
      <3>2. CASE current' = [current EXCEPT !.state = "finished"]
        BY <3>2, <1>n, <1>t DEF Currents
      <3> QED
        BY <1>12, <3>1, <3>2 DEF PreparationFails
    <2>3. SteerTypes'
      BY <2>1, <2>2, <1>t DEF SteerTypes
    <2>4. \A d \in Corrections : Moves(d, current, current')
      BY <2>1, <2>2 DEF Moves
    <2>5. \A d \in Corrections : d # c => CallOk(call[d], d, current', serving', Given(reached', d))
      BY <2>1, <2>2, <2>4, <1>t, <1>moves
    <2> DEFINE k == [call[c] EXCEPT !.adapter = "refused", !.reply = "unavailable"]
    <2>6. call' = [call EXCEPT ![c] = k]
      BY <2>1
    <2>7. /\ k \in Steers /\ k.pc = call[c].pc /\ k.mode = call[c].mode
          /\ k.target = call[c].target /\ k.adapter = "refused"
          /\ k.said = call[c].said /\ k.hurried = call[c].hurried
      BY <2>t DEF Steers, Refusals
    <2> HIDE DEF k
    <2>8. Floor(k.target, current') /\ (c \in current'.by => k.target <= current'.turn)
      <3>1. k.target \in Nat
        BY <2>7, <2>d
      <3>2. k.target <= current.turn /\ current.turn \in Nat
        BY <2>7, <2>b, <1>n
      <3>3. k.target <= current'.turn \/ k.target = current'.turn + 1
        BY <3>1, <3>2, <2>2
      <3>4. c \in current'.by => current'.turn = current.turn
        BY <2>2
      <3> QED
        BY <3>2, <3>3, <3>4, <2>2 DEF Floor
    <2>9. CallOk(k, c, current', serving', Given(reached', c))
      BY <2>1, <2>2, <2>m, <2>b, <2>7, <2>8 DEF CallOk, RedirectOk
    <2> QED
      BY <2>3, <2>5, <2>6, <2>7, <2>9, OneCall
  <1>13. ASSUME NEW c \in Corrections, TellRedirect(c) PROVE SteerInv'
    <2>t. call[c] \in Steers /\ CallOk(call[c], c, current, serving, Given(reached, c))
      BY DEF SteerInv
    <2>d. /\ call[c].mode \in {"", "in-place", "cancel-then-start"}
          /\ call[c].target \in 0..LastTurn /\ call[c].target \in Nat
      BY <2>t, <1>n DEF Steers
    <2>u. UNCHANGED <<current, serving, reached>>
      BY <1>13 DEF TellRedirect, Says
    <2>1. call[c].pc = "dispatched" /\ call[c].mode = "cancel-then-start" /\ call[c].said = ""
      BY <1>13, <2>t DEF TellRedirect, CallOk
    <2>r. RedirectOk(call[c], c, current, Given(reached, c))
      BY <2>t, <2>1 DEF CallOk
    <2>2. CASE /\ call[c].adapter = "refused"
               /\ call' = [call EXCEPT ![c].pc = "over", ![c].said = Redirected(c, call[c].reply)]
      <3> DEFINE said == Redirected(c, call[c].reply)
      <3>1. said \in {"accepted", "not_delivered"}
        BY DEF Redirected
      <3>2. call' = [call EXCEPT ![c].pc = "over", ![c].said = said]
        BY <2>2
      <3> HIDE DEF said
      <3> DEFINE k == [call[c] EXCEPT !.pc = "over", !.said = said]
      <3>k. call' = [call EXCEPT ![c] = k]
        BY <3>2
      <3>f. /\ k \in Steers /\ k.pc = "over" /\ k.mode = call[c].mode
            /\ k.target = call[c].target /\ k.adapter = call[c].adapter
            /\ k.reply = call[c].reply /\ k.said = said
            /\ k.hurried = call[c].hurried
        <4>1. k \in Steers
          BY ZenonT(30), <2>t, <3>1, <2>d DEF Steers, Refusals
        <4>2. /\ k.pc = "over" /\ k.mode = call[c].mode
          BY <2>t, <3>1 DEF Steers
        <4>3. /\ k.target = call[c].target /\ k.adapter = call[c].adapter
          BY <2>t, <3>1 DEF Steers
        <4>4. /\ k.reply = call[c].reply /\ k.said = said
          BY <2>t, <3>1 DEF Steers
        <4>5. /\ k.hurried = call[c].hurried
          BY <2>t, <3>1 DEF Steers
        <4> QED
          BY <4>1, <4>2, <4>3, <4>4, <4>5
      <3> HIDE DEF k
      <3>o. CallOk(k, c, current, serving, Given(reached, c))
        BY <2>t, <2>r, <2>1, <2>2, <3>1, <3>f DEF CallOk, RedirectOk
      <3> QED
        BY <3>k, <3>f, <3>o, <1>one, <2>u
    <2>3. CASE call' = [call EXCEPT ![c].pc = "over", ![c].said = "accepted"]
      <3> DEFINE k == [call[c] EXCEPT !.pc = "over", !.said = "accepted"]
      <3>k. call' = [call EXCEPT ![c] = k]
        BY <2>3
      <3>f. /\ k \in Steers /\ k.pc = "over" /\ k.mode = call[c].mode
            /\ k.target = call[c].target /\ k.adapter = call[c].adapter
            /\ k.reply = call[c].reply /\ k.said = "accepted"
            /\ k.hurried = call[c].hurried
        <4>1. k \in Steers
          BY ZenonT(30), <2>t, <2>d DEF Steers, Refusals
        <4>2. /\ k.pc = "over" /\ k.mode = call[c].mode
          BY <2>t DEF Steers
        <4>3. /\ k.target = call[c].target /\ k.adapter = call[c].adapter
          BY <2>t DEF Steers
        <4>4. /\ k.reply = call[c].reply /\ k.said = "accepted"
          BY <2>t DEF Steers
        <4>5. /\ k.hurried = call[c].hurried
          BY <2>t DEF Steers
        <4> QED
          BY <4>1, <4>2, <4>3, <4>4, <4>5
      <3> HIDE DEF k
      <3>o. CallOk(k, c, current, serving, Given(reached, c))
        BY <2>t, <2>r, <2>1, <3>f DEF CallOk, RedirectOk
      <3> QED
        BY <3>k, <3>f, <3>o, <1>one, <2>u
    <2>4. CASE /\ call[c].adapter \in {"claiming", "opened"}
               /\ call' = [call EXCEPT ![c].pc = "over", ![c].said = Redirected(c, "timeout"),
                                       ![c].hurried = call[c].adapter = "claiming"]
      <3>0. Redirected(c, "timeout") \in {"accepted", "not_delivered"}
        BY DEF Redirected
      <3>s. PICK said \in {"accepted", "not_delivered"} : said = Redirected(c, "timeout")
        BY <3>0
      <3>e. PICK early \in BOOLEAN : early = (call[c].adapter = "claiming")
        OBVIOUS
      <3>1. /\ said \in {"accepted", "not_delivered"} /\ early \in BOOLEAN
            /\ said = "not_delivered" => current.turn = call[c].target
            /\ ~early => call[c].adapter = "opened"
        BY <2>4, <3>s, <3>e DEF Redirected
      <3>2. call' = [call EXCEPT ![c].pc = "over", ![c].said = said, ![c].hurried = early]
        BY <2>4, <3>s, <3>e
      <3> DEFINE k == [call[c] EXCEPT !.pc = "over", !.said = said, !.hurried = early]
      <3>k. call' = [call EXCEPT ![c] = k]
        BY <3>2
      <3>f. /\ k \in Steers /\ k.pc = "over" /\ k.mode = call[c].mode
            /\ k.target = call[c].target /\ k.adapter = call[c].adapter
            /\ k.reply = call[c].reply /\ k.said = said
            /\ k.hurried = early
        <4>1. k \in Steers
          BY ZenonT(30), <2>t, <3>1, <2>d DEF Steers, Refusals
        <4>2. k.hurried = early
          BY <2>t DEF Steers
        <4>3. /\ k.pc = "over" /\ k.mode = call[c].mode /\ k.target = call[c].target /\ k.adapter = call[c].adapter
              /\ k.reply = call[c].reply /\ k.said = said
          BY <2>t DEF Steers
        <4> QED
          BY <4>1, <4>2, <4>3
      <3> HIDE DEF k
      <3>o. CallOk(k, c, current, serving, Given(reached, c))
        <4>1. k.target \in Nat /\ \A t \in Given(reached, c) : t \in Nat
          BY <3>f, <2>d, <1>n, <1>t
        <4>2. k.said = "not_delivered" => Given(reached, c) \subseteq {k.target}
          BY <4>1, <3>1, <3>f, <2>r, <1>n DEF RedirectOk
        <4>3. k.said = "not_delivered" /\ ~k.hurried =>
                  /\ k.adapter = "opened" /\ Given(reached, c) \subseteq {k.target}
                  /\ c \in current.by => current.turn = k.target
          BY <4>2, <3>1, <3>f
        <4>4. RedirectOk(k, c, current, Given(reached, c))
          BY <4>3, <3>f, <2>r, <2>1 DEF RedirectOk
        <4> QED
          BY <4>4, <3>1, <3>f, <2>t, <2>1 DEF CallOk
      <3> QED
        BY <3>k, <3>f, <3>o, <1>one, <2>u
    <2> QED
      BY <1>13, <2>2, <2>3, <2>4 DEF TellRedirect, Says
  <1>14. CASE OtherTurnBegins
    <2>1. /\ current.turn < LastTurn /\ UNCHANGED <<serving, reached, call>>
          /\ current' = [turn |-> current.turn + 1, state |-> "preparing", by |-> {}]
      BY <1>14 DEF OtherTurnBegins
    <2>2. current' \in Currents /\ current'.turn = current.turn + 1 /\ current'.by = {}
      BY <2>1, <1>n DEF Currents
    <2>3. SteerTypes'
      BY <2>1, <2>2, <1>t DEF SteerTypes
    <2>4. \A d \in Corrections : CallOk(call[d], d, current', serving', Given(reached', d))
      BY <2>1, <2>2, <1>t, <1>moves DEF Moves
    <2> QED
      BY <2>1, <2>2, <2>3, <2>4, <1>all
  <1>15. CASE PromptGoesOut
    <2>1. /\ current.state \in {"preparing", "waiting"} /\ UNCHANGED <<serving, call>>
          /\ current' = [current EXCEPT !.state = "running"]
          /\ reached' = [reached EXCEPT ![current.turn] = @ \cup current.by]
      BY <1>15 DEF PromptGoesOut
    <2>2. /\ current' \in Currents /\ current'.turn = current.turn
          /\ current'.by = current.by /\ current'.state = "running"
      BY <2>1, <1>n, <1>t DEF Currents
    <2>3. /\ reached' \in [0..LastTurn -> SUBSET Corrections]
          /\ \A d \in Corrections : d \notin current.by => Given(reached', d) = Given(reached, d)
          /\ \A d \in Corrections : d \in current.by =>
                Given(reached', d) = Given(reached, d) \cup {current.turn}
      <3>1. current.turn \in 0..LastTurn
        BY <1>n
      <3> QED
        BY <3>1, <2>1, <1>n, <1>t DEF Given
    <2>4. SteerTypes'
      BY <2>1, <2>2, <2>3, <1>t DEF SteerTypes
    <2>5. ASSUME NEW d \in Corrections
          PROVE  CallOk(call[d], d, current', serving', Given(reached', d))
      <3>1. call[d] \in Steers /\ Given(reached, d) \in SUBSET (0..LastTurn)
            /\ CallOk(call[d], d, current, serving, Given(reached, d))
        BY <1>t
      <3>2. CallOk(call[d], d, current', serving, Given(reached, d))
        <4>1. Moves(d, current, current')
          BY <2>1, <2>2 DEF Moves
        <4> QED
          BY <4>1, <3>1, <2>2, <1>t, MovesKeep
      <3>3. CASE d \notin current.by
        BY <3>2, <3>3, <2>1, <2>3
      <3>4. CASE d \in current.by
        <4>1. call[d].mode = "cancel-then-start"
          BY <3>1, <3>4 DEF CallOk
        <4>2. RedirectOk(call[d], d, current, Given(reached, d))
              /\ RedirectOk(call[d], d, current', Given(reached, d))
          BY <4>1, <3>1, <3>2 DEF CallOk
        <4>3. /\ call[d].adapter = "opened" /\ call[d].target <= current.turn
              /\ Given(reached, d) \subseteq {current.turn}
          BY <4>2, <3>4, <2>1 DEF RedirectOk
        <4>4. Given(reached', d) = {current.turn}
          BY <4>3, <3>4, <2>3
        <4>5. call[d].said = "not_delivered" /\ ~call[d].hurried => current.turn = call[d].target
          BY <4>2, <4>3, <3>4 DEF RedirectOk
        <4>6. RedirectOk(call[d], d, current', {current.turn})
          BY <4>2, <4>3, <4>5, <2>2, <1>n DEF RedirectOk
        <4> QED
          BY <4>1, <4>4, <4>6, <3>2, <2>1, <2>2 DEF CallOk
      <3> QED
        BY <3>3, <3>4
    <2> QED
      BY <2>1, <2>2, <2>4, <2>5, <1>all
  <1>16. CASE LimitHolds \/ TurnEnds4 \/ DaemonGone
    <2>1. /\ current' \in Currents /\ current'.turn = current.turn /\ current'.by = current.by
          /\ current'.state # "preparing"
          /\ current.state = "finished" => current'.state = "finished"
          /\ UNCHANGED <<reached, call>> /\ serving' \in BOOLEAN /\ (serving' => serving)
      <3>1. PICK state \in {"waiting", "finished"} : current' = [current EXCEPT !.state = state]
        BY <1>16 DEF LimitHolds, TurnEnds4, DaemonGone
      <3>2. current.state = "finished" => state = "finished"
        BY <1>16, <3>1, <1>n, <1>t DEF LimitHolds, TurnEnds4, DaemonGone, InFlight
      <3>3. UNCHANGED <<reached, call>> /\ serving' \in BOOLEAN /\ (serving' => serving)
        <4>1. UNCHANGED <<reached, call>> /\ (serving' = serving \/ serving' = FALSE)
          BY <1>16 DEF LimitHolds, TurnEnds4, DaemonGone
        <4>2. serving \in BOOLEAN
          BY <1>t
        <4>3. CASE serving' = serving
          <5>1. serving' \in BOOLEAN
            BY <4>2, <4>3
          <5> QED
            BY <4>1, <4>3, <5>1
        <4>4. CASE serving' = FALSE
          BY <4>1, <4>4
        <4> QED
          BY <4>1, <4>3, <4>4
      <3>4. /\ current' \in Currents /\ current'.turn = current.turn
            /\ current'.by = current.by /\ current'.state = state
        BY <3>1, <1>n, <1>t DEF Currents
      <3> QED
        BY <3>2, <3>3, <3>4
    <2>2. SteerTypes'
      BY <2>1, <1>t DEF SteerTypes
    <2>3. \A d \in Corrections : CallOk(call[d], d, current', serving', Given(reached', d))
      BY <2>1, <1>t, <1>moves DEF Moves
    <2> QED
      BY <2>1, <2>2, <2>3, <1>all
  <1>17. CASE UNCHANGED stvars
    <2>1. UNCHANGED <<current, serving, reached, call>>
      BY <1>17 DEF stvars
    <2> QED
      BY <2>1, <1>t DEF SteerInv, SteerTypes
  <1> QED
    BY <1>1, <1>2, <1>3, <1>4, <1>5, <1>6, <1>7, <1>8, <1>9, <1>10, <1>11, <1>12, <1>13, <1>14,
       <1>15, <1>16, <1>17 DEF SteerNext

\* A correction in place is on its way to the turn it was selected for until a
\* newer turn is opened, and to a newer one from then on: while its own turn is
\* the last one, that has finished.
TargetOk(k, c, now, over, turns) ==
    k.mode = "in-place" =>
        /\ k.adapter # "answered" /\ c \notin over =>
              now.turn = k.target /\ now.state # "preparing"
        /\ k.adapter # "answered" /\ c \in over =>
              k.target < now.turn \/ (k.target = now.turn /\ now.state = "finished")
        /\ \A t \in turns : t # 0 => IF c \in over THEN k.target < t ELSE t = k.target
OvertakenInv ==
    \A c \in Corrections :
        /\ TargetOk(call[c], c, current, overtaken, Given(reached, c))
        /\ c \in overtaken => call[c].mode = "in-place"

\* A step that opens no turn and answers no correction.
LEMMA TargetsStay ==
    ASSUME OvertakenInv, overtaken' = overtaken, current'.turn = current.turn,
           current'.state # "preparing" \/ current'.state = current.state,
           current.state = "finished" => current'.state = "finished",
           \A d \in Corrections :
                /\ call'[d].mode = call[d].mode /\ call'[d].target = call[d].target
                /\ call'[d].adapter = "answered" <=> call[d].adapter = "answered",
           \A d \in Corrections :
                call[d].mode = "in-place" => Given(reached', d) = Given(reached, d)
    PROVE  OvertakenInv'
  <1> SUFFICES ASSUME NEW d \in Corrections
               PROVE  /\ TargetOk(call'[d], d, current', overtaken', Given(reached', d))
                      /\ d \in overtaken' => call'[d].mode = "in-place"
    BY DEF OvertakenInv
  <1>1. TargetOk(call[d], d, current, overtaken, Given(reached, d))
        /\ (d \in overtaken => call[d].mode = "in-place")
    BY DEF OvertakenInv
  <1> QED
    BY <1>1 DEF TargetOk

\* A step that opens a turn, and overtakes what is on its way.
LEMMA TargetsOvertaken ==
    ASSUME SteerInv, OvertakenInv, current.turn \in Nat, current'.turn = current.turn + 1,
           overtaken' = overtaken \cup OnTheirWay, reached' = reached,
           \A d \in Corrections :
                /\ call'[d].mode = call[d].mode /\ call'[d].target = call[d].target
                /\ call'[d].adapter = "answered" <=> call[d].adapter = "answered"
    PROVE  OvertakenInv'
  <1> SUFFICES ASSUME NEW d \in Corrections
               PROVE  /\ TargetOk(call'[d], d, current', overtaken', Given(reached', d))
                      /\ d \in overtaken' => call'[d].mode = "in-place"
    BY DEF OvertakenInv
  <1>1. /\ TargetOk(call[d], d, current, overtaken, Given(reached, d))
        /\ d \in overtaken => call[d].mode = "in-place"
        /\ CallOk(call[d], d, current, serving, Given(reached, d))
    BY DEF OvertakenInv, SteerInv
  <1>2. d \in overtaken' <=>
            d \in overtaken \/ (call[d].mode = "in-place" /\ call[d].adapter # "answered")
    BY DEF OnTheirWay
  <1>3. call[d].mode = "in-place" /\ call[d].adapter # "answered" => Given(reached, d) = {}
    BY <1>1 DEF CallOk, InPlaceOk
  <1>4. ASSUME call[d].mode = "in-place", call[d].adapter # "answered"
        PROVE  call[d].target < current.turn + 1
    <2>1. call[d].target \in Nat
      <3>1. call[d].target \in 0..LastTurn
        BY DEF SteerInv, Steers
      <3> QED
        BY <3>1, SteerAssumption
    <2>2. call[d].target < current.turn \/ call[d].target = current.turn
      BY <1>1, <1>4 DEF TargetOk
    <2> QED
      BY <2>1, <2>2
  <1>5. Given(reached', d) = Given(reached, d)
    BY DEF Given
  <1> QED
    BY <1>1, <1>2, <1>3, <1>4, <1>5 DEF TargetOk

LEMMA OvertakenStep ==
    SteerInv /\ OvertakenInv /\ [SteerNext]_stvars => OvertakenInv'
  <1> SUFFICES ASSUME SteerInv, OvertakenInv, [SteerNext]_stvars PROVE OvertakenInv'
    OBVIOUS
  <1>t. /\ call \in [Corrections -> Steers] /\ current \in Currents
        /\ reached \in [0..LastTurn -> SUBSET Corrections]
        /\ \A d \in Corrections : CallOk(call[d], d, current, serving, Given(reached, d))
        /\ \A d \in Corrections : TargetOk(call[d], d, current, overtaken, Given(reached, d))
        /\ \A d \in Corrections : d \in overtaken => call[d].mode = "in-place"
    BY DEF SteerInv, SteerTypes, OvertakenInv
  <1>n. current.turn \in Nat /\ current.turn \in 0..LastTurn /\ current.turn # 0
    BY <1>t, SteerAssumption DEF Currents
  \* A step of one call changes fields of that call, and not what it selected.
  <1> DEFINE Selected ==
        \A d \in Corrections :
            /\ call'[d].mode = call[d].mode /\ call'[d].target = call[d].target
            /\ call'[d].adapter = "answered" <=> call[d].adapter = "answered"
  <1>one. ASSUME NEW c \in Corrections, NEW k, call' = [call EXCEPT ![c] = k],
                 k.mode = call[c].mode, k.target = call[c].target,
                 k.adapter = "answered" <=> call[c].adapter = "answered"
          PROVE  Selected
    BY <1>one, <1>t
  <1>pc. ASSUME NEW c \in Corrections, NEW v,
                call' = [call EXCEPT ![c].pc = v]
         PROVE  Selected
    <2> DEFINE k == [call[c] EXCEPT !.pc = v]
    <2>1. call' = [call EXCEPT ![c] = k]
      BY <1>pc
    <2>2. call[c] \in Steers
      BY <1>t
    <2>3. k.mode = call[c].mode /\ k.target = call[c].target
      BY <2>2 DEF Steers
    <2>4. k.adapter = "answered" <=> call[c].adapter = "answered"
      BY <1>pc, <2>2 DEF Steers
    <2> HIDE DEF k
    <2> QED
      BY <2>1, <2>3, <2>4, <1>one
  <1>said. ASSUME NEW c \in Corrections, NEW v, NEW w,
                call' = [call EXCEPT ![c].pc = v, ![c].said = w]
         PROVE  Selected
    <2> DEFINE k == [call[c] EXCEPT !.pc = v, !.said = w]
    <2>1. call' = [call EXCEPT ![c] = k]
      BY <1>said
    <2>2. call[c] \in Steers
      BY <1>t
    <2>3. k.mode = call[c].mode /\ k.target = call[c].target
      BY <2>2 DEF Steers
    <2>4. k.adapter = "answered" <=> call[c].adapter = "answered"
      BY <1>said, <2>2 DEF Steers
    <2> HIDE DEF k
    <2> QED
      BY <2>1, <2>3, <2>4, <1>one
  <1>late. ASSUME NEW c \in Corrections, NEW v, NEW w, NEW x,
                call' = [call EXCEPT ![c].pc = v, ![c].said = w, ![c].hurried = x]
         PROVE  Selected
    <2> DEFINE k == [call[c] EXCEPT !.pc = v, !.said = w, !.hurried = x]
    <2>1. call' = [call EXCEPT ![c] = k]
      BY <1>late
    <2>2. call[c] \in Steers
      BY <1>t
    <2>3. k.mode = call[c].mode /\ k.target = call[c].target
      BY <2>2 DEF Steers
    <2>4. k.adapter = "answered" <=> call[c].adapter = "answered"
      BY <1>late, <2>2 DEF Steers
    <2> HIDE DEF k
    <2> QED
      BY <2>1, <2>3, <2>4, <1>one
  <1>reply. ASSUME NEW c \in Corrections, NEW v,
                call' = [call EXCEPT ![c].reply = v]
         PROVE  Selected
    <2> DEFINE k == [call[c] EXCEPT !.reply = v]
    <2>1. call' = [call EXCEPT ![c] = k]
      BY <1>reply
    <2>2. call[c] \in Steers
      BY <1>t
    <2>3. k.mode = call[c].mode /\ k.target = call[c].target
      BY <2>2 DEF Steers
    <2>4. k.adapter = "answered" <=> call[c].adapter = "answered"
      BY <1>reply, <2>2 DEF Steers
    <2> HIDE DEF k
    <2> QED
      BY <2>1, <2>3, <2>4, <1>one
  <1>asks. ASSUME NEW c \in Corrections, NEW v, v # "answered", call[c].adapter # "answered",
                call' = [call EXCEPT ![c].adapter = v]
         PROVE  Selected
    <2> DEFINE k == [call[c] EXCEPT !.adapter = v]
    <2>1. call' = [call EXCEPT ![c] = k]
      BY <1>asks
    <2>2. call[c] \in Steers
      BY <1>t
    <2>3. k.mode = call[c].mode /\ k.target = call[c].target
      BY <2>2 DEF Steers
    <2>4. k.adapter = "answered" <=> call[c].adapter = "answered"
      BY <1>asks, <2>2 DEF Steers
    <2> HIDE DEF k
    <2> QED
      BY <2>1, <2>3, <2>4, <1>one
  <1>claims. ASSUME NEW c \in Corrections, NEW v, NEW w, w # "answered", call[c].adapter # "answered",
                call' = [call EXCEPT ![c].pc = v, ![c].adapter = w]
         PROVE  Selected
    <2> DEFINE k == [call[c] EXCEPT !.pc = v, !.adapter = w]
    <2>1. call' = [call EXCEPT ![c] = k]
      BY <1>claims
    <2>2. call[c] \in Steers
      BY <1>t
    <2>3. k.mode = call[c].mode /\ k.target = call[c].target
      BY <2>2 DEF Steers
    <2>4. k.adapter = "answered" <=> call[c].adapter = "answered"
      BY <1>claims, <2>2 DEF Steers
    <2> HIDE DEF k
    <2> QED
      BY <2>1, <2>3, <2>4, <1>one
  <1>refuses. ASSUME NEW c \in Corrections, NEW v, NEW w, v # "answered", call[c].adapter # "answered",
                call' = [call EXCEPT ![c].adapter = v, ![c].reply = w]
         PROVE  Selected
    <2> DEFINE k == [call[c] EXCEPT !.adapter = v, !.reply = w]
    <2>1. call' = [call EXCEPT ![c] = k]
      BY <1>refuses
    <2>2. call[c] \in Steers
      BY <1>t
    <2>3. k.mode = call[c].mode /\ k.target = call[c].target
      BY <2>2 DEF Steers
    <2>4. k.adapter = "answered" <=> call[c].adapter = "answered"
      BY <1>refuses, <2>2 DEF Steers
    <2> HIDE DEF k
    <2> QED
      BY <2>1, <2>3, <2>4, <1>one
  <1>still. ASSUME Selected, UNCHANGED <<current, reached, overtaken>> PROVE OvertakenInv'
    <2>1. /\ current'.turn = current.turn /\ current'.state = current.state
          /\ overtaken' = overtaken
          /\ \A d \in Corrections : Given(reached', d) = Given(reached, d)
      BY <1>still DEF Given
    <2> QED
      BY <1>still, <2>1, TargetsStay
  <1>1. ASSUME NEW c \in Corrections, LoadTarget(c) PROVE OvertakenInv'
    <2>1. /\ call[c].pc = "idle" /\ call[c] \in Steers
          /\ UNCHANGED <<current, reached, overtaken>>
      BY <1>1, <1>t DEF LoadTarget
    <2>2. call[c].mode = "" /\ call[c].adapter = "none" /\ Given(reached, c) = {}
          /\ c \notin overtaken
      BY <1>t, <2>1 DEF CallOk
    <2>3. \A d \in Corrections : Given(reached', d) = Given(reached, d)
      BY <2>1 DEF Given
    <2>4. \A d \in Corrections : d # c => call'[d] = call[d]
      BY <1>1, <1>t DEF LoadTarget, Says
    <2>5. \/ call'[c].mode # "in-place"
          \/ /\ InFlight /\ call'[c].target = current.turn /\ call'[c].adapter = "none"
      <3>1. PICK mode \in {"in-place", "cancel-then-start"} :
              IF Ongoing /\ (mode = "in-place" => InFlight)
              THEN call' = [call EXCEPT
                       ![c].pc = IF mode = "in-place" THEN "correcting" ELSE "canceling",
                       ![c].mode = mode, ![c].target = current.turn]
              ELSE Says(c, "not_delivered")
        BY <1>1 DEF LoadTarget
      <3>2. CASE Says(c, "not_delivered")
        BY <3>2, <2>1, <2>2, <1>t DEF Says, Steers
      <3>3. CASE /\ mode = "in-place" => InFlight
                 /\ call' = [call EXCEPT
                       ![c].pc = IF mode = "in-place" THEN "correcting" ELSE "canceling",
                       ![c].mode = mode, ![c].target = current.turn]
        BY <3>3, <2>1, <2>2, <1>t DEF Steers
      <3> QED
        BY <3>1, <3>2, <3>3
    <2>6. TargetOk(call'[c], c, current', overtaken', Given(reached', c))
      BY <2>1, <2>2, <2>3, <2>5 DEF TargetOk, InFlight
    <2> QED
      BY <2>1, <2>2, <2>3, <2>4, <2>6, <1>t DEF OvertakenInv
  <1>2. ASSUME NEW c \in Corrections, SendCorrection(c) PROVE OvertakenInv'
    <2>1. Selected
      BY <1>2, <1>pc, <1>said DEF SendCorrection, Says
    <2>2. UNCHANGED <<current, reached, overtaken>>
      BY <1>2 DEF SendCorrection
    <2> QED
      BY <2>1, <2>2, <1>still
  <1>3. ASSUME NEW c \in Corrections, Steered(c) PROVE OvertakenInv'
    <2>1. Selected
      <3>1. CASE current.state \in {"running", "waiting"}
        BY <1>3, <3>1, <1>asks DEF Steered
      <3>2. CASE current.state \notin {"running", "waiting"}
        BY <1>3, <3>2, <1>reply DEF Steered
      <3> QED
        BY <3>1, <3>2
    <2>2. UNCHANGED <<current, reached, overtaken>>
      BY <1>3 DEF Steered
    <2> QED
      BY <2>1, <2>2, <1>still
  <1>4. ASSUME NEW c \in Corrections, SteeringTimesOut(c) PROVE OvertakenInv'
    <2>1. Selected
      BY <1>4, <1>reply DEF SteeringTimesOut
    <2>2. UNCHANGED <<current, reached, overtaken>>
      BY <1>4 DEF SteeringTimesOut
    <2> QED
      BY <2>1, <2>2, <1>still
  <1>5. ASSUME NEW c \in Corrections, ReadReply(c) PROVE OvertakenInv'
    <2>1. Selected
      BY <1>5, <1>said DEF ReadReply, Says
    <2>2. UNCHANGED <<current, reached, overtaken>>
      BY <1>5 DEF ReadReply
    <2> QED
      BY <2>1, <2>2, <1>still
  <1>6. ASSUME NEW c \in Corrections, StopListening(c) PROVE OvertakenInv'
    <2>1. Selected
      BY <1>6, <1>said DEF StopListening, Says
    <2>2. UNCHANGED <<current, reached, overtaken>>
      BY <1>6 DEF StopListening
    <2> QED
      BY <2>1, <2>2, <1>still
  <1>7. ASSUME NEW c \in Corrections, Redirect(c) PROVE OvertakenInv'
    <2>1. Selected
      <3>1. CASE Ongoing
        BY <1>7, <3>1, <1>said DEF Redirect, Says
      <3>2. CASE ~Ongoing
        <4>1. call[c].adapter # "answered"
          BY <1>7, <1>t DEF Redirect, CallOk, InPlaceOk, RedirectOk, Steers
        <4> QED
          BY <1>7, <3>2, <4>1, <1>claims DEF Redirect
      <3> QED
        BY <3>1, <3>2
    <2>2. UNCHANGED <<current, reached, overtaken>>
      BY <1>7 DEF Redirect
    <2> QED
      BY <2>1, <2>2, <1>still
  <1>8. ASSUME NEW c \in Corrections, RefusesClaim(c) PROVE OvertakenInv'
    <2>1. Selected
      BY <1>8, <1>refuses DEF RefusesClaim
    <2>2. UNCHANGED <<current, reached, overtaken>>
      BY <1>8 DEF RefusesClaim
    <2> QED
      BY <2>1, <2>2, <1>still
  <1>9. ASSUME NEW c \in Corrections, TellRedirect(c) PROVE OvertakenInv'
    <2>1. Selected
      <3>1. CASE call' = [call EXCEPT ![c].pc = "over",
                                      ![c].said = Redirected(c, call[c].reply)]
        BY <3>1, <1>said
      <3>2. CASE Says(c, "accepted")
        BY <3>2, <1>said DEF Says
      <3>3. CASE call' = [call EXCEPT ![c].pc = "over", ![c].said = Redirected(c, "timeout"),
                                      ![c].hurried = call[c].adapter = "claiming"]
        BY <3>3, <1>late
      <3> QED
        BY <1>9, <3>1, <3>2, <3>3 DEF TellRedirect
    <2>2. UNCHANGED <<current, reached, overtaken>>
      BY <1>9 DEF TellRedirect
    <2> QED
      BY <2>1, <2>2, <1>still
  <1>10. ASSUME NEW c \in Corrections, CancelTarget(c) PROVE OvertakenInv'
    <2>1. Selected
      BY <1>10, <1>pc, <1>said DEF CancelTarget, Says
    <2>2. /\ current' = current \/ current' = [current EXCEPT !.state = "finished"]
          /\ UNCHANGED <<reached, overtaken>>
      BY <1>10 DEF CancelTarget
    <2>3. /\ current'.turn = current.turn
          /\ current'.state # "preparing" \/ current'.state = current.state
          /\ current.state = "finished" => current'.state = "finished"
      BY <2>2, <1>t DEF Currents
    <2>4. \A d \in Corrections : Given(reached', d) = Given(reached, d)
      BY <2>2 DEF Given
    <2> QED
      BY <2>1, <2>2, <2>3, <2>4, TargetsStay
  <1>11. ASSUME NEW c \in Corrections, AdapterCorrects(c) PROVE OvertakenInv'
    <2>1. call[c].adapter = "asked" /\ UNCHANGED <<current, overtaken>>
      BY <1>11 DEF AdapterCorrects
    <2>2. PICK outcome \in {"injected", "promptRequired", "startedNewTurn", "denied"} :
            /\ outcome = "injected" => InFlight
            /\ reached' = CASE outcome = "injected" -> [reached EXCEPT ![current.turn] = @ \cup {c}]
                            [] outcome = "startedNewTurn" -> [reached EXCEPT ![0] = @ \cup {c}]
                            [] OTHER -> reached
            /\ call' = [call EXCEPT ![c].adapter = "answered",
                                    ![c].reply = IF @ = "none" THEN outcome ELSE @]
      BY <1>11 DEF AdapterCorrects
    <2>3. /\ \A d \in Corrections : d # c => call'[d] = call[d]
          /\ call'[c].mode = call[c].mode /\ call'[c].target = call[c].target
          /\ call'[c].adapter = "answered"
      <3> DEFINE k == [call[c] EXCEPT !.adapter = "answered",
                                      !.reply = IF @ = "none" THEN outcome ELSE @]
      <3>1. call' = [call EXCEPT ![c] = k]
        BY <2>2
      <3>2. call[c] \in Steers
        BY <1>t
      <3>3. k.mode = call[c].mode /\ k.target = call[c].target
        BY <3>2 DEF Steers
      <3>4. k.adapter = "answered"
        BY <3>2 DEF Steers
      <3> HIDE DEF k
      <3> QED
        BY <3>1, <3>3, <3>4, <1>t
    <2>4. call[c].mode = "in-place" /\ Given(reached, c) = {}
      <3>1. call[c].mode \in {"", "in-place", "cancel-then-start"}
        BY <1>t DEF Steers
      <3> QED
        BY <3>1, <2>1, <1>t DEF CallOk, InPlaceOk, RedirectOk
    <2>5. /\ \A d \in Corrections : d # c => Given(reached', d) = Given(reached, d)
          /\ Given(reached', c) \subseteq {0, current.turn}
          /\ outcome # "injected" => Given(reached', c) \subseteq {0}
      BY <2>2, <2>4, <1>t, <1>n DEF Given
    <2>6. TargetOk(call'[c], c, current', overtaken', Given(reached', c))
      <3>1. CASE outcome = "injected"
        BY <3>1, <2>1, <2>2, <2>3, <2>4, <2>5, <1>t DEF TargetOk, InFlight
      <3>2. CASE outcome # "injected"
        BY <3>2, <2>3, <2>5 DEF TargetOk
      <3> QED
        BY <3>1, <3>2
    <2> QED
      BY <2>1, <2>3, <2>4, <2>5, <2>6, <1>t DEF OvertakenInv
  <1>12. ASSUME NEW c \in Corrections, Opens(c) PROVE OvertakenInv'
    <2>1. call[c].adapter = "claiming" /\ call' = [call EXCEPT ![c].adapter = "opened"]
      BY <1>12 DEF Opens
    <2>2. Selected
      BY <2>1, <1>asks
    <2>3. /\ current'.turn = current.turn + 1 /\ reached' = reached
          /\ overtaken' = overtaken \cup OnTheirWay
      BY <1>12 DEF Opens
    <2> QED
      BY <2>2, <2>3, <1>n, TargetsOvertaken
  <1>13. ASSUME NEW c \in Corrections, PreparationFails(c) PROVE OvertakenInv'
    <2>1. /\ call[c].adapter = "opened" /\ current.state = "preparing"
          /\ call' = [call EXCEPT ![c].adapter = "refused", ![c].reply = "unavailable"]
          /\ UNCHANGED <<reached, overtaken>>
      BY <1>13 DEF PreparationFails
    <2>2. Selected
      BY <2>1, <1>refuses
    <2>3. /\ current'.state = "finished"
          /\ current'.turn = current.turn \/ current'.turn = current.turn - 1
      BY <1>13, <1>t DEF PreparationFails, Currents
    <2>4. ASSUME NEW d \in Corrections
          PROVE  /\ TargetOk(call'[d], d, current', overtaken', Given(reached', d))
                 /\ d \in overtaken' => call'[d].mode = "in-place"
      <3>0. call[d].target \in 0..LastTurn
        BY <1>t DEF Steers
      <3>1. /\ TargetOk(call[d], d, current, overtaken, Given(reached, d))
            /\ Given(reached', d) = Given(reached, d) /\ call[d].target \in Nat
            /\ d \in overtaken => call[d].mode = "in-place"
        BY <3>0, <1>t, <2>1, SteerAssumption DEF Given
      <3>2. call[d].mode = "in-place" /\ call[d].adapter # "answered" =>
                /\ d \in overtaken
                /\ call[d].target < current'.turn \/ call[d].target = current'.turn
        BY <3>1, <2>1, <2>3, <1>n DEF TargetOk
      <3> QED
        BY <3>1, <3>2, <2>1, <2>2, <2>3 DEF TargetOk
    <2> QED
      BY <2>4 DEF OvertakenInv
  <1>14. CASE OtherTurnBegins
    <2>1. /\ current'.turn = current.turn + 1 /\ reached' = reached /\ call' = call
          /\ overtaken' = overtaken \cup OnTheirWay
      BY <1>14 DEF OtherTurnBegins
    <2> QED
      BY <2>1, <1>n, TargetsOvertaken
  <1>15. CASE PromptGoesOut
    <2>1. /\ UNCHANGED <<call, overtaken>> /\ current' = [current EXCEPT !.state = "running"]
          /\ current.state \in {"preparing", "waiting"}
          /\ reached' = [reached EXCEPT ![current.turn] = @ \cup current.by]
      BY <1>15 DEF PromptGoesOut
    <2>2. current'.turn = current.turn /\ current'.state = "running"
      BY <2>1, <1>t DEF Currents
    <2>3. ASSUME NEW d \in Corrections, call[d].mode = "in-place"
          PROVE  Given(reached', d) = Given(reached, d)
      <3>1. d \notin current.by
        BY <2>3, <1>t DEF CallOk
      <3> QED
        BY <3>1, <2>1, <1>t, <1>n DEF Given
    <2> QED
      BY <2>1, <2>2, <2>3, TargetsStay
  <1>16. CASE LimitHolds \/ TurnEnds4 \/ DaemonGone
    <2>1. UNCHANGED <<reached, call, overtaken>>
      BY <1>16 DEF LimitHolds, TurnEnds4, DaemonGone
    <2>2. /\ current'.turn = current.turn /\ current'.state # "preparing"
          /\ current.state = "finished" => current'.state = "finished"
      BY <1>16, <1>t DEF LimitHolds, TurnEnds4, DaemonGone, InFlight, Currents
    <2>3. \A d \in Corrections : Given(reached', d) = Given(reached, d)
      BY <2>1 DEF Given
    <2> QED
      BY <2>1, <2>2, <2>3, TargetsStay
  <1>17. CASE UNCHANGED stvars
    BY <1>17, <1>t, <1>still DEF stvars
  <1> QED
    BY <1>1, <1>2, <1>3, <1>4, <1>5, <1>6, <1>7, <1>8, <1>9, <1>10,
       <1>11, <1>12, <1>13, <1>14, <1>15, <1>16, <1>17 DEF SteerNext

\* For any number of corrections and turns: what a correction reports is so,
\* and no instruction is given twice (_in_place_delivery, _redirect_failure).
THEOREM CorrectionsTellTheTruth == SteerSpec => []MessageStateTrue
  <1>1. SteerInv /\ OvertakenInv => MessageStateTrue
    <2> SUFFICES ASSUME SteerInv, OvertakenInv, NEW c \in Corrections
                 PROVE  LET turns == {t \in 0..LastTurn : c \in reached[t]} IN
            /\ Cardinality(turns) <= 1
            /\ call[c].said = "not_delivered" /\ ~call[c].hurried =>
                  turns \subseteq (IF call[c].mode = "in-place" THEN {} ELSE {call[c].target})
            /\ call[c].said = "accepted" /\ call[c].mode = "in-place" =>
                  IF c \in overtaken
                  THEN turns # {} /\ turns \subseteq (call[c].target + 1)..LastTurn
                  ELSE turns = {call[c].target}
      BY DEF MessageStateTrue
    <2> DEFINE turns == {t \in 0..LastTurn : c \in reached[t]}
    <2>1. CallOk(call[c], c, current, serving, turns) /\ call[c] \in Steers
      BY DEF SteerInv, Given
    <2>2. Cardinality(turns) <= 1
      <3>1. \A t, u \in turns : t = u
        BY <2>1 DEF CallOk
      <3>2. CASE turns = {}
        <4> HIDE DEF turns
        <4> QED
          BY <3>2, FS_EmptySet
      <3>3. CASE turns # {}
        <4>1. PICK t \in turns : TRUE
          BY <3>3
        <4>2. turns = {t}
          BY <3>1, <4>1
        <4> HIDE DEF turns
        <4> QED
          BY <4>2, FS_Singleton
      <3> QED
        BY <3>2, <3>3
    <2> HIDE DEF turns
    <2>3. ASSUME call[c].said = "not_delivered", ~call[c].hurried
          PROVE  turns \subseteq (IF call[c].mode = "in-place" THEN {} ELSE {call[c].target})
      <3>1. CASE call[c].mode = "in-place"
        BY <2>1, <2>3, <3>1 DEF CallOk, InPlaceOk, Refusals
      <3>2. CASE call[c].mode = "cancel-then-start"
        BY <2>1, <2>3, <3>2 DEF CallOk, RedirectOk
      <3>3. CASE call[c].mode = ""
        BY <2>1, <3>3 DEF CallOk
      <3> QED
        BY <2>1, <3>1, <3>2, <3>3 DEF Steers
    <2>4. ASSUME call[c].said = "accepted", call[c].mode = "in-place"
          PROVE  IF c \in overtaken
                 THEN turns # {} /\ turns \subseteq (call[c].target + 1)..LastTurn
                 ELSE turns = {call[c].target}
      <3>1. turns \cap 1..LastTurn # {} /\ \A t, u \in turns : t = u
        BY <2>1, <2>4 DEF CallOk, InPlaceOk
      <3>2. PICK t \in 1..LastTurn : turns = {t}
        BY <3>1
      <3>3. IF c \in overtaken THEN call[c].target < t ELSE t = call[c].target
        <4>1. TargetOk(call[c], c, current, overtaken, turns)
          BY DEF OvertakenInv, Given, turns
        <4> QED
          BY <4>1, <3>2, <2>4 DEF TargetOk
      <3>4. call[c].target \in Nat /\ LastTurn \in Nat
        <4>1. call[c].target \in 0..LastTurn
          BY <2>1 DEF Steers
        <4> QED
          BY <4>1, SteerAssumption
      <3> QED
        BY <3>2, <3>3, <3>4
    <2> QED
      BY <2>2, <2>3, <2>4 DEF turns
  <1>2. SteerInit => OvertakenInv
    <2> SUFFICES ASSUME SteerInit, NEW c \in Corrections
                 PROVE  /\ TargetOk(call[c], c, current, overtaken, Given(reached, c))
                        /\ c \in overtaken => call[c].mode = "in-place"
      BY DEF OvertakenInv
    <2> QED
      BY DEF SteerInit, TargetOk, NoCall
  <1> QED
    BY <1>1, <1>2, SteerBegins, SteerStep, OvertakenStep, PTL DEF SteerSpec
=============================================================================
