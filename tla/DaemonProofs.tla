---------------------------- MODULE DaemonProofs ----------------------------
(***************************************************************************)
(* The inductive invariant of Daemon is kept by every effect of a step     *)
(* (DaemonSteps), and what the runs check of the daemon follows from it    *)
(* for any number of clients, sessions and slots.                          *)
(*                                                                         *)
(* Each part of the invariant has a lemma with one step per effect.  The   *)
(* turns that end share most of what matters (Endings, Ceases), and so do  *)
(* the cancellations (Cancellations).                                      *)
(***************************************************************************)
EXTENDS DaemonSteps

Members ==
    /\ \A x \in Clients : Session(x) \in Sessions
    /\ \A x \in Clients : turn[x].kill \in BOOLEAN /\ turn[x].claimed \in BOOLEAN
    /\ \A x \in Clients : turn[x].cancel \in {"none", "canceled", "failed"}
    /\ \A x \in Clients : turn[x].stage \in Stages /\ turn[x].token \in Nat
    /\ \A x \in Clients : client[x].pc \in Pcs /\ client[x].pinned \in Nat
    /\ \A s \in Sessions : disk[s].turns \in Nat /\ disk[s].state \in States
    /\ \A s \in Sessions : table[s] \in Clients \cup {None}
    /\ ending \in Seq(Clients) /\ daemon \in {"serving", "ending", "exiting", "down"}

\* What a client can learn from the end of c's turn.
Advanced(c) == \A w \in Clients :
    /\ client'[w].command = client[w].command
    /\ client'[w].session = client[w].session
    /\ client'[w].pinned = client[w].pinned
    /\ client'[w].interrupted = client[w].interrupted
    /\ \/ client'[w].pc = client[w].pc
       \/ /\ client[w].pc # "idle" /\ Session(w) = Session(c)
          /\ client'[w].pc = "done" \/ (client'[w].pc = "failing" /\ Dispatches(w))
          /\ client[w].pc \in {"starting", "waiting"}
          /\ client[w].pc # "waiting" => w = c
\* What the end of c's turn can make of the sessions.
Settled(c) == \A z \in Sessions :
    \/ disk'[z].turns = disk[z].turns /\ disk'[z].state = disk[z].state
    \/ /\ z = Session(c) /\ disk'[z].turns # 0
       /\ disk'[z].state \in {"succeeded", "canceled", "failed"}
\* What a cancel that reaches the turn x can change.
Reaches(y) == \A x \in Clients :
    /\ turn'[x].stage = turn[x].stage
    /\ turn'[x].claimed = turn[x].claimed
    /\ turn'[x].token = turn[x].token
    /\ turn'[x].backup = turn[x].backup
    /\ turn'[x].waiters = turn[x].waiters
    /\ x # y => /\ turn'[x].cancel = turn[x].cancel
                 /\ turn'[x].asked = turn[x].asked
                 /\ (turn'[x].kill <=> turn[x].kill)

\* What is not forgotten: who asked for the end of a turn.
Recalls == \A x \in Clients :
    /\ client'[x].session = client[x].session /\ client'[x].command = client[x].command
    /\ client[x].pinned # 0 => client'[x].pinned = client[x].pinned
    /\ client[x].interrupted => client'[x].interrupted
    /\ turn[x].cancel = "canceled" => turn'[x].cancel = "canceled" /\ turn'[x].asked = turn[x].asked

\* Where the backup of a turn comes from.
Backs == \A x \in Clients :
    \/ turn'[x].backup \in {turn[x].backup, <<>>}
    \/ turn'[x].backup = <<disk[Session(x)]>> /\ Finished(Session(x))

\* Why a turn is canceled, and what a session that is canceled says.
Causes == \A x \in Clients :
    /\ turn[x].token # 0 => turn'[x].token = turn[x].token
    /\ turn'[x].cancel = "canceled" =>
        \/ turn[x].cancel = "canceled" \/ turn'[x].asked[2] = 0
        \/ \E w \in Clients : Session(w) = Session(x) /\
            \/ client'[w].interrupted
            \/ /\ client'[w].command = "cancel"
               /\ turn'[x].token # 0 /\ client'[w].pinned = turn'[x].token
Explained == \A z \in Sessions : disk'[z].state = "canceled" => Asked(z, disk'[z].turns)

Placed == queue \in Seq(Clients)

\* One more turn prompts, and only if there is a slot.
Slotted ==
    \/ Prompting' \subseteq Prompting
    \/ Free /\ \E x \in Clients : Prompting' \subseteq Prompting \cup {x}

\* A turn whose end the clients that wait for it will hear of, or never.
Answerable(y) == table[Session(y)] = y \/ turn[y].stage \in {"refused", "leaked"}
\* As long as the table is there, whoever waits for such a turn goes on waiting for one.
Held == daemon' \notin {"exiting", "down"} =>
    /\ daemon \notin {"exiting", "down"}
    /\ \A w \in Clients : client'[w].pc = "waiting" =>
        \/ client[w].pc = "waiting"
        \/ \E y \in Clients : w \in turn'[y].waiters /\ Answerable(y)'
    /\ \A w, y \in Clients :
        client'[w].pc = "waiting" /\ w \in turn[y].waiters /\ Answerable(y) =>
            w \in turn'[y].waiters /\ Answerable(y)'

\* What is enough to know of the types for the table.
Tabled ==
    /\ \A x \in Clients : Session(x) \in Sessions
    /\ \A s \in Sessions : table[s] \in Clients \cup {None}

\* Until the table is cleared, who hears of an end finds it on disk.
Announced == \A w \in Clients :
    (client[w].pc = "waiting" /\ client'[w].pc \in {"done", "failing"}
        /\ daemon \in {"serving", "ending"})
        => disk'[Session(w)].state \notin {"starting", "running"}

----------------------------------------------------------------------------
\* What the steps need of the types.
LEMMA Membership ==
  ASSUME Types PROVE Members
<1>1. \A x \in Clients : turn[x] \in Turns /\ client[x] \in Commands
  BY DEF Types
<1>2. \A s \in Sessions : disk[s] \in Disks /\ table[s] \in Clients \cup {None}
  BY DEF Types
<1>3. \A x \in Clients : Session(x) \in Sessions
  BY <1>1 DEF Commands, Session
<1>4. \A x \in Clients : client[x].pc \in Pcs /\ client[x].pinned \in Nat
  BY <1>1 DEF Commands
<1>5. \A x \in Clients :
        /\ turn[x].kill \in BOOLEAN /\ turn[x].claimed \in BOOLEAN
        /\ turn[x].cancel \in {"none", "canceled", "failed"}
        /\ turn[x].stage \in Stages /\ turn[x].token \in Nat
  BY <1>1, TurnParts
<1>6. \A s \in Sessions : disk[s].turns \in Nat /\ disk[s].state \in States
  BY <1>2 DEF Disks
<1> QED  BY <1>2, <1>3, <1>4, <1>5, <1>6 DEF Members, Types

\* The turn the shutdown is at is one it listed.
LEMMA Heads ==
  ASSUME Members, Listed, ending # <<>>
  PROVE  Head(ending) \in known /\ turn[Head(ending)].stage # "none"
<1>1. ending[1] = Head(ending) /\ 1 \in DOMAIN ending /\ ending[1] \in Clients
  BY DEF Members
<1> QED  BY <1>1 DEF Listed, Noted, ToEnd

\* The turns that end: what their clients hear, what the sessions become.
LEMMA Endings ==
  ASSUME Members, Backups, Numbered, Created, Dispatching, Fresh, Waiting, Listed,
         Entries,
         NEW c \in Clients,
         \/ StartIsUndone(c) \/ IsNotRestored(c) \/ RunIsOver(c)
         \/ StartIsCanceled(c) \/ PreparationIsCanceled(c) \/ IsClosed(c)
  PROVE  Advanced(c) /\ Settled(c) /\ turn[c].stage # "none"
<1>0. turn[c].stage # "none" /\ client[c].pc \notin {"idle", "sending"} /\ Dispatches(c)
  <2>1. turn[c].stage # "none"
    BY Heads DEF StartIsUndone, IsNotRestored, RunIsOver, StartIsCanceled,
       PreparationIsCanceled, IsClosed
  <2> QED  BY <2>1 DEF Fresh, Untouched, Dispatching
<1>1. \A v, y, e : (Heard(y, e, c, v) /\ v \in {"done", "failing"} /\ y = table[Session(c)])
                        => Advanced(c)
  BY <1>0 DEF Heard, Advanced, AfterOutcome, Dispatches, Waiting, Entries, Members
<1>2. \A v : Reached(c, v) /\ v \in {"done", "failing"} => Advanced(c)
  BY <1>0 DEF Reached, Advanced
<1>3. \A e : Learned(c, e) => Advanced(c)
  BY DEF Learned, Advanced, AfterOutcome, Dispatches, Waiting
<1>4. Session(c) \in Sessions /\ table[Session(c)] \in Clients \cup {None}
  BY DEF Members
<1>5. Advanced(c)
  BY <1>1, <1>2, <1>3, <1>4
     DEF StartIsUndone, IsNotRestored, RunIsOver, StartIsCanceled, PreparationIsCanceled,
         IsClosed, Finishes
<1>6. \A v, n : Ended(Session(c), v, n) /\ v \in {"succeeded", "canceled", "failed"} => Settled(c)
  BY DEF Ended, Settled, Active, Members, Numbered
<1>7. DiskAt(Session(c), RolledBack(c)) => Settled(c)
  BY DEF DiskAt, RolledBack, Settled, Backups
<1>8. Settled(c)
  BY <1>6, <1>7 DEF StartIsUndone, IsNotRestored, RunIsOver, StartIsCanceled,
        PreparationIsCanceled, IsClosed, Members
<1> QED  BY <1>0, <1>5, <1>8

\* A cancellation changes nothing but the stop of the turn it reaches.
LEMMA Cancellations ==
  ASSUME Members, Entries, NEW c \in Clients, CancelsTurn(c) \/ Breaks(c)
  PROVE  /\ Reaches(table[Session(c)])
         /\ table[Session(c)] # None => turn[table[Session(c)]].stage \notin {"none", "refused"}
<1>1. \A y, pin : CanceledAs(y, pin) => Reaches(y)
  <2> SUFFICES ASSUME NEW y, NEW pin, CanceledAs(y, pin), NEW x \in Clients
               PROVE  /\ turn'[x].stage = turn[x].stage
                      /\ turn'[x].claimed = turn[x].claimed
                      /\ turn'[x].token = turn[x].token
                      /\ turn'[x].backup = turn[x].backup
                      /\ turn'[x].waiters = turn[x].waiters
                      /\ x # y => /\ turn'[x].cancel = turn[x].cancel
                                  /\ turn'[x].asked = turn[x].asked
                                  /\ (turn'[x].kill <=> turn[x].kill)
    BY DEF Reaches
  <2>1. CanceledFields(x, y, pin)
    BY DEF CanceledAs
  <2>2. x # y => (turn'[x].kill <=> turn[x].kill)
    BY <2>1 DEF CanceledFields
  <2> QED  BY <2>1, <2>2 DEF CanceledFields
<1>2. turn' = turn => Reaches(table[Session(c)])
  BY DEF Reaches
<1> QED  BY <1>1, <1>2 DEF CancelsTurn, Breaks, Entries, Members

\* The first turn of a session is alone with it.
LEMMA Alone ==
  ASSUME Members, Reported, NoneFollows, OneRun, Fresh, Dispatching, NEW c \in Clients, NEW x \in Clients,
         First(c), Session(x) = Session(c)
  PROVE  /\ turn[x].stage # "none" => x = c
         /\ client[x].pc \notin {"sending", "failing"}
<1>1. client[c].pc \notin {"idle", "sending", "failing"}
  BY DEF Fresh, Untouched, Reported, First
<1>2. turn[x].stage # "none" \/ client[x].pc \in {"sending", "failing"} =>
        Dispatches(x) /\ client[x].pc # "idle"
  BY DEF Dispatching, Fresh, Untouched
<1>3. Dispatches(x) /\ client[x].pc # "idle" => x = c
  BY <1>1 DEF NoneFollows, OneRun, Dispatches, First
<1> QED  BY <1>1, <1>2, <1>3

\* Whoever asked for the end of a turn has asked for it.
LEMMA AskedStays ==
  ASSUME Recalls, NEW s, NEW n \in Nat \ {0}, Asked(s, n) PROVE Asked(s, n)'
BY DEF Recalls, Asked, Session

\* The turn that ends leaves its session finished, unless the daemon has forgotten it.
LEMMA Ceases ==
  ASSUME Members, Snapshots, Backups, Claimed, Listed, OnDisk, Reported, Dispatching, NEW c \in Clients,
         \/ StartIsUndone(c) \/ IsNotRestored(c) \/ RunIsOver(c)
         \/ StartIsCanceled(c) \/ PreparationIsCanceled(c) \/ IsClosed(c)
  PROVE  \/ disk'[Session(c)].state \notin {"starting", "running"}
         \/ daemon \in {"exiting", "down"} /\ c \notin known /\ turn'[c].stage = "ended"
<1>1. \A v, n : (Ended(Session(c), v, n) /\ v \in {"succeeded", "canceled", "failed"}
                    /\ n \in {0, disk[Session(c)].turns})
            => disk'[Session(c)].state \notin {"starting", "running"}
  BY DEF Ended, Active, Members
<1>2. turn[c].backup # <<>> /\ DiskAt(Session(c), RolledBack(c))
            => disk'[Session(c)].state \notin {"starting", "running"}
  BY DEF DiskAt, RolledBack, Backups, Members
<1>3. CASE StartIsUndone(c)
  BY <1>1, <1>2, <1>3 DEF StartIsUndone, Snapshots
<1>4. CASE IsNotRestored(c)
  BY <1>1, <1>2, <1>4 DEF IsNotRestored, Snapshots, Claimed
<1>5. CASE StartIsCanceled(c)
  BY <1>1, <1>5 DEF StartIsCanceled
<1>6. CASE IsClosed(c)
  BY <1>1, <1>6 DEF IsClosed
<1>7. ASSUME Live(c), Left(c), daemon \notin {"serving", "ending"}
      PROVE  daemon \in {"exiting", "down"} /\ c \notin known /\ turn'[c].stage = "ended"
  <2>1. daemon \in {"exiting", "down"} /\ ending = <<>>
    BY <1>7 DEF Listed, Phases, Members
  <2> QED  BY <1>7, <2>1 DEF Left, Listed, Accounted, ToEnd
<1>8. CASE PreparationIsCanceled(c)
  <2>1. Live(c) /\ turn[c].claimed /\ Left(c) /\ Ended(Session(c), "canceled", turn[c].token)
    BY <1>8 DEF PreparationIsCanceled, Finishes, Live, Claimed
  <2> QED  BY <1>1, <1>7, <2>1 DEF Claimed
<1>9. CASE RunIsOver(c)
  <2>1. PICK v \in {"succeeded", "failed"} :
            Ended(Session(c), IF turn[c].cancel = "none" THEN v ELSE turn[c].cancel, RequestToken(c))
    BY <1>9 DEF RunIsOver
  <2>2. Live(c) /\ turn[c].claimed /\ Left(c)
    BY <1>9 DEF RunIsOver, Finishes, Live, Claimed
  <2>3. turn[c].cancel \in {"none", "canceled", "failed"}
    BY DEF Members
  <2>4. daemon \in {"serving", "ending"} => RequestToken(c) \in {0, disk[Session(c)].turns}
    BY <2>2 DEF Claimed, RequestToken
  <2> QED  BY <1>1, <1>7, <2>1, <2>2, <2>3, <2>4
<1> QED  BY <1>3, <1>4, <1>5, <1>6, <1>8, <1>9

\* The shutdown takes the turn it ends off its list.
LEMMA Endless ==
  ASSUME Members, NEW c \in Clients, IsClosed(c)
  PROVE  ToEnd(c) /\ \A x \in Clients : (ToEnd(x)' => ToEnd(x)) /\ (ToEnd(x) => x = c \/ ToEnd(x)')
<1>1. ending # <<>> /\ Head(ending) = c /\ ending' = Tail(ending)
  BY DEF IsClosed
<1>2. /\ DOMAIN ending = 1..Len(ending) /\ Len(ending) \in Nat \ {0}
      /\ DOMAIN ending' = 1..(Len(ending) - 1) /\ ending[1] = c
      /\ \A i \in DOMAIN ending' : ending'[i] = ending[i + 1]
  BY <1>1 DEF Members
<1>3. \A i \in DOMAIN ending' : i + 1 \in DOMAIN ending
  BY <1>2
<1>4. \A i \in DOMAIN ending : i = 1 \/ (i - 1 \in DOMAIN ending' /\ ending'[i - 1] = ending[i])
  BY <1>2
<1>5. ToEnd(c)
  BY <1>2 DEF ToEnd
<1>6. ASSUME NEW x \in Clients, ToEnd(x)' PROVE ToEnd(x)
  <2>1. PICK i \in DOMAIN ending' : ending'[i] = x
    BY <1>6 DEF ToEnd
  <2>2. ending[i + 1] = x /\ i + 1 \in DOMAIN ending
    BY <1>2, <1>3, <2>1
  <2> QED  BY <2>2 DEF ToEnd
<1>7. ASSUME NEW x \in Clients, ToEnd(x), x # c PROVE ToEnd(x)'
  <2>1. PICK i \in DOMAIN ending : ending[i] = x
    BY <1>7 DEF ToEnd
  <2>2. i # 1
    BY <1>2, <1>7, <2>1
  <2>3. i - 1 \in DOMAIN ending' /\ ending'[i - 1] = x
    BY <1>4, <2>1, <2>2
  <2> QED  BY <2>3 DEF ToEnd
<1> QED  BY <1>5, <1>6, <1>7

\* ... and is at the first of it.
LEMMA Tops ==
  ASSUME Members, ending # <<>> PROVE ToEnd(Head(ending))
<1>1. ending[1] = Head(ending) /\ 1 \in DOMAIN ending
  BY DEF Members
<1> QED  BY <1>1 DEF ToEnd

\* A client that has not sent its `start` has no turn.
LEMMA FreshStep ==
  ASSUME Members, Backups, Numbered, Created, Dispatching, Fresh, Waiting, Listed,
         Entries, Effect PROVE Fresh'
<1> USE DEF Fresh, Untouched, Live
<1>1. ASSUME Quiet PROVE Fresh'
  BY <1>1 DEF Quiet
<1>2. ASSUME ShutsDown PROVE Fresh'
  BY <1>2 DEF ShutsDown
<1>3. ASSUME IsCleared PROVE Fresh'
  BY <1>3 DEF IsCleared
<1>4. ASSUME IsGone PROVE Fresh'
  BY <1>4 DEF IsGone
<1>5. ASSUME NEW c \in Clients, Creates(c) PROVE Fresh'
  BY <1>5 DEF Creates, Began, DiskAt
<1>6. ASSUME NEW c \in Clients, Continues(c) PROVE Fresh'
  BY <1>6 DEF Continues, Began
<1>7. ASSUME NEW c \in Clients, Observes(c) PROVE Fresh'
  BY <1>7 DEF Observes, Began
<1>8. ASSUME NEW c \in Clients, Goes(c) PROVE Fresh'
  <2>1. \A w \in Clients :
        /\ client'[w].pc = IF w = c THEN "left" ELSE client[w].pc
        /\ client'[w].pinned = client[w].pinned
    BY <1>8 DEF Goes, Parted, Spoke
  <2>2. \A x \in Clients :
        /\ turn'[x].stage = turn[x].stage
        /\ turn'[x].claimed = turn[x].claimed
        /\ turn'[x].token = turn[x].token
        /\ turn'[x].cancel = turn[x].cancel
        /\ turn'[x].kill = turn[x].kill
        /\ turn'[x].backup = turn[x].backup
    BY <1>8 DEF Goes, Parted, Spoke
  <2> QED  BY <1>8, <2>1, <2>2 DEF Goes
<1>9. ASSUME NEW c \in Clients, FailsSession(c) PROVE Fresh'
  BY <1>9 DEF FailsSession, Spoke, Ended
<1>10. ASSUME NEW c \in Clients, IsLost(c) PROVE Fresh'
  <2>1. \A x \in Clients :
        /\ turn'[x].stage = turn[x].stage
        /\ turn'[x].claimed = turn[x].claimed
        /\ turn'[x].token = turn[x].token
        /\ turn'[x].cancel = turn[x].cancel
        /\ turn'[x].kill = turn[x].kill
        /\ turn'[x].backup = turn[x].backup
    BY <1>10 DEF IsLost, Parted
  <2>2. \A x \in Clients : turn[x].stage # "ensuring"
    BY <1>10 DEF IsLost, Listed, Phases
  <2>3. \A x \in Clients : client'[x].pinned = client[x].pinned /\ (x # c => client'[x].pc = client[x].pc)
    BY <1>10 DEF IsLost, Spoke
  <2>4. client'[c].pc \notin {"idle", "sending"}
    BY <1>10 DEF IsLost, Spoke, AfterOutcome
  <2> QED  BY <2>1, <2>2, <2>3, <2>4
<1>11. ASSUME NEW c \in Clients, IsRefused(c) PROVE Fresh'
  BY <1>11 DEF IsRefused, Spoke, DiskAt, Serves
<1>12. ASSUME NEW c \in Clients, StartsNext(c) PROVE Fresh'
  BY <1>12 DEF StartsNext, Entered, Spoke, DiskAt, TableAt, Serves
<1>13. ASSUME NEW c \in Clients, StartsFirst(c) PROVE Fresh'
  BY <1>13 DEF StartsFirst, Entered, Spoke, TableAt, Serves
<1>14. ASSUME NEW c \in Clients, IsAccepted(c) PROVE Fresh'
  BY <1>14 DEF IsAccepted, Claiming, Reached
<1>15. ASSUME NEW c \in Clients, StartIsUndone(c) PROVE Fresh'
  <2>1. \A x \in Clients :
        /\ turn'[x].stage = IF x = c THEN "refused" ELSE turn[x].stage
        /\ turn'[x].claimed = turn[x].claimed
        /\ turn'[x].token = turn[x].token
        /\ turn'[x].cancel = turn[x].cancel
        /\ turn'[x].kill <=> x # c /\ turn[x].kill
        /\ turn'[x].backup = turn[x].backup
    BY <1>15 DEF StartIsUndone, Stopped
  <2>2. Advanced(c) /\ Settled(c) /\ turn[c].stage # "none"
    BY <1>15, Endings
  <2> QED  BY <1>15, <2>1, <2>2 DEF StartIsUndone, Advanced, Settled
<1>16. ASSUME NEW c \in Clients, Joins(c) PROVE Fresh'
  <2>1. \A x \in Clients :
        /\ turn'[x].stage = turn[x].stage
        /\ turn'[x].claimed = turn[x].claimed
        /\ turn'[x].token = turn[x].token
        /\ turn'[x].cancel = turn[x].cancel
        /\ turn'[x].kill = turn[x].kill
        /\ turn'[x].backup = turn[x].backup
    BY <1>16 DEF Joins, Joined, Spoke, Serves
  <2>2. \A w \in Clients :
        /\ client'[w].pc = IF w = c THEN "waiting" ELSE client[w].pc
        /\ client'[w].pinned = client[w].pinned
    BY <1>16 DEF Joins, Joined, Spoke, Serves
  <2> QED  BY <1>16, <2>1, <2>2 DEF Joins, Serves
<1>17. ASSUME NEW c \in Clients, FindsNothing(c) PROVE Fresh'
  BY <1>17 DEF FindsNothing, Spoke, Serves
<1>18. ASSUME NEW c \in Clients, CancelsTurn(c) PROVE Fresh'
  <2>1. /\ Reaches(table[Session(c)])
        /\ table[Session(c)] # None => turn[table[Session(c)]].stage \notin {"none", "refused"}
    BY <1>18, Cancellations
  <2> QED  BY <1>18, <2>1 DEF CancelsTurn, Reaches, Spoke
<1>19. ASSUME NEW c \in Clients, CancelsAlone(c) PROVE Fresh'
  BY <1>19 DEF CancelsAlone, Spoke, Serves
<1>20. ASSUME NEW c \in Clients, Breaks(c) PROVE Fresh'
  <2>1. /\ Reaches(table[Session(c)])
        /\ table[Session(c)] # None => turn[table[Session(c)]].stage \notin {"none", "refused"}
    BY <1>20, Cancellations
  <2> QED  BY <1>20, <2>1 DEF Breaks, Reaches, Broke
<1>21. ASSUME NEW c \in Clients, BeginsToRestore(c) PROVE Fresh'
  BY <1>21 DEF BeginsToRestore, Staged
<1>22. ASSUME NEW c \in Clients, Enqueues(c) PROVE Fresh'
  BY <1>22 DEF Enqueues, Staged, Queued, EntersSlot
<1>23. ASSUME NEW c \in Clients, IsRestored(c) PROVE Fresh'
  BY <1>23 DEF IsRestored, Prepared, Queued, EntersSlot
<1>24. ASSUME NEW c \in Clients, IsNotRestored(c) PROVE Fresh'
  <2>1. \A x \in Clients :
        /\ turn'[x].stage = IF x = c THEN "ended" ELSE turn[x].stage
        /\ turn'[x].claimed = turn[x].claimed
        /\ turn'[x].token = turn[x].token
        /\ turn'[x].cancel = turn[x].cancel
        /\ turn'[x].kill <=> x # c /\ turn[x].kill
        /\ turn'[x].backup = turn[x].backup
    BY <1>24 DEF IsNotRestored, Finishes, Left
  <2>2. Advanced(c) /\ Settled(c) /\ turn[c].stage # "none"
    BY <1>24, Endings
  <2> QED  BY <1>24, <2>1, <2>2 DEF IsNotRestored, Finishes, Advanced, Settled
<1>25. ASSUME NEW c \in Clients, IsNext(c) PROVE Fresh'
  BY <1>25 DEF IsNext, Staged
<1>26. ASSUME NEW c \in Clients, Drives(c) PROVE Fresh'
  BY <1>26 DEF Drives, Staged
<1>27. ASSUME NEW c \in Clients, RunIsOver(c) PROVE Fresh'
  <2>1. \A x \in Clients :
        /\ turn'[x].stage = IF x = c THEN "ended" ELSE turn[x].stage
        /\ turn'[x].claimed = turn[x].claimed
        /\ turn'[x].token = turn[x].token
        /\ turn'[x].cancel = turn[x].cancel
        /\ turn'[x].kill <=> x # c /\ turn[x].kill
        /\ turn'[x].backup = turn[x].backup
    BY <1>27 DEF RunIsOver, Finishes, Left
  <2>2. Advanced(c) /\ Settled(c) /\ turn[c].stage # "none"
    BY <1>27, Endings
  <2> QED  BY <1>27, <2>1, <2>2 DEF RunIsOver, Finishes, Advanced, Settled
<1>28. ASSUME NEW c \in Clients, StartIsCanceled(c) PROVE Fresh'
  <2>1. \A x \in Clients :
        /\ turn'[x].stage = IF x = c THEN "ended" ELSE turn[x].stage
        /\ turn'[x].claimed = turn[x].claimed
        /\ turn'[x].token = turn[x].token
        /\ turn'[x].cancel = turn[x].cancel
        /\ turn'[x].kill <=> x # c /\ turn[x].kill
        /\ turn'[x].backup = turn[x].backup
    BY <1>28 DEF StartIsCanceled, Left
  <2>2. Advanced(c) /\ Settled(c) /\ turn[c].stage # "none"
    BY <1>28, Endings
  <2> QED  BY <1>28, <2>1, <2>2 DEF StartIsCanceled, Advanced, Settled
<1>29. ASSUME NEW c \in Clients, Leaks(c) PROVE Fresh'
  BY <1>29 DEF Leaks, Stopped
<1>30. ASSUME NEW c \in Clients, PreparationIsCanceled(c) PROVE Fresh'
  <2>1. \A x \in Clients :
        /\ turn'[x].stage = IF x = c THEN "ended" ELSE turn[x].stage
        /\ turn'[x].claimed = turn[x].claimed
        /\ turn'[x].token = turn[x].token
        /\ turn'[x].cancel = turn[x].cancel
        /\ turn'[x].kill <=> x # c /\ turn[x].kill
        /\ turn'[x].backup = turn[x].backup
    BY <1>30 DEF PreparationIsCanceled, Finishes, Left
  <2>2. Advanced(c) /\ Settled(c) /\ turn[c].stage # "none"
    BY <1>30, Endings
  <2> QED  BY <1>30, <2>1, <2>2 DEF PreparationIsCanceled, Finishes, Advanced, Settled
<1>31. ASSUME NEW c \in Clients, PreparationIsKilled(c) PROVE Fresh'
  BY <1>31 DEF PreparationIsKilled, Stopped
<1>32. ASSUME NEW c \in Clients, IsStruck(c) PROVE Fresh'
  BY <1>32 DEF IsStruck, Struck
<1>33. ASSUME NEW c \in Clients, IsClosed(c) PROVE Fresh'
  <2>1. \A x \in Clients :
        /\ turn'[x].stage = IF x = c THEN "ended" ELSE turn[x].stage
        /\ turn'[x].claimed = turn[x].claimed
        /\ turn'[x].token = turn[x].token
        /\ turn'[x].cancel = turn[x].cancel
        /\ turn'[x].kill = turn[x].kill
        /\ turn'[x].backup = turn[x].backup
    BY <1>33 DEF IsClosed, Closed
  <2>2. Advanced(c) /\ Settled(c) /\ turn[c].stage # "none"
    BY <1>33, Endings
  <2> QED  BY <1>33, <2>1, <2>2 DEF IsClosed, Advanced, Settled
<1>34. ASSUME NEW c \in Clients, IsAbandoned(c) PROVE Fresh'
  BY <1>34 DEF IsAbandoned, Shot
<1> QED
  BY <1>1, <1>2, <1>3, <1>4, <1>5, <1>6, <1>7, <1>8, <1>9, <1>10, <1>11, <1>12, <1>13,
    <1>14, <1>15, <1>16, <1>17, <1>18, <1>19, <1>20, <1>21, <1>22, <1>23, <1>24,
    <1>25, <1>26, <1>27, <1>28, <1>29, <1>30, <1>31, <1>32, <1>33, <1>34 DEF Effect

\* Only `run` and `continue` dispatch, and only who dispatched can fail.
LEMMA DispatchingStep ==
  ASSUME Members, Backups, Numbered, Created, Dispatching, Fresh, Waiting, Listed,
         Entries, Effect PROVE Dispatching'
<1> USE DEF Dispatching, Dispatches
<1>1. ASSUME Quiet PROVE Dispatching'
  BY <1>1 DEF Quiet
<1>2. ASSUME ShutsDown PROVE Dispatching'
  BY <1>2 DEF ShutsDown
<1>3. ASSUME IsCleared PROVE Dispatching'
  BY <1>3 DEF IsCleared
<1>4. ASSUME IsGone PROVE Dispatching'
  BY <1>4 DEF IsGone
<1>5. ASSUME NEW c \in Clients, Creates(c) PROVE Dispatching'
  BY <1>5 DEF Creates, Began, DiskAt
<1>6. ASSUME NEW c \in Clients, Continues(c) PROVE Dispatching'
  BY <1>6 DEF Continues, Began
<1>7. ASSUME NEW c \in Clients, Observes(c) PROVE Dispatching'
  BY <1>7 DEF Observes, Began
<1>8. ASSUME NEW c \in Clients, Goes(c) PROVE Dispatching'
  <2>1. \A w \in Clients :
        /\ client'[w].command = client[w].command
        /\ client'[w].pc = IF w = c THEN "left" ELSE client[w].pc
    BY <1>8 DEF Goes, Parted, Spoke
  <2>2. \A x \in Clients :
        /\ turn'[x].stage = turn[x].stage
    BY <1>8 DEF Goes, Parted, Spoke
  <2> QED  BY <1>8, <2>1, <2>2 DEF Goes
<1>9. ASSUME NEW c \in Clients, FailsSession(c) PROVE Dispatching'
  BY <1>9 DEF FailsSession, Spoke, Ended
<1>10. ASSUME NEW c \in Clients, IsLost(c) PROVE Dispatching'
  <2>1. \A w \in Clients :
        /\ client'[w].command = client[w].command
        /\ client'[w].pc = IF w = c THEN AfterOutcome(c, TRUE) ELSE client[w].pc
    BY <1>10 DEF IsLost, Parted, Spoke, AfterOutcome
  <2>2. \A x \in Clients :
        /\ turn'[x].stage = turn[x].stage
    BY <1>10 DEF IsLost, Parted, Spoke, AfterOutcome
  <2> QED  BY <1>10, <2>1, <2>2 DEF IsLost, AfterOutcome
<1>11. ASSUME NEW c \in Clients, IsRefused(c) PROVE Dispatching'
  BY <1>11 DEF IsRefused, Spoke, DiskAt, Serves
<1>12. ASSUME NEW c \in Clients, StartsNext(c) PROVE Dispatching'
  BY <1>12 DEF StartsNext, Entered, Spoke, DiskAt, TableAt, Serves
<1>13. ASSUME NEW c \in Clients, StartsFirst(c) PROVE Dispatching'
  BY <1>13 DEF StartsFirst, Entered, Spoke, TableAt, Serves
<1>14. ASSUME NEW c \in Clients, IsAccepted(c) PROVE Dispatching'
  BY <1>14 DEF IsAccepted, Claiming, Reached
<1>15. ASSUME NEW c \in Clients, StartIsUndone(c) PROVE Dispatching'
  <2>1. \A x \in Clients :
        /\ turn'[x].stage = IF x = c THEN "refused" ELSE turn[x].stage
    BY <1>15 DEF StartIsUndone, Stopped
  <2>2. Advanced(c) /\ Settled(c) /\ turn[c].stage # "none"
    BY <1>15, Endings
  <2> QED  BY <1>15, <2>1, <2>2 DEF StartIsUndone, Advanced, Settled
<1>16. ASSUME NEW c \in Clients, Joins(c) PROVE Dispatching'
  <2>1. \A x \in Clients :
        /\ turn'[x].stage = turn[x].stage
    BY <1>16 DEF Joins, Joined, Spoke, Serves
  <2>2. \A w \in Clients :
        /\ client'[w].command = client[w].command
        /\ client'[w].pc = IF w = c THEN "waiting" ELSE client[w].pc
    BY <1>16 DEF Joins, Joined, Spoke, Serves
  <2> QED  BY <1>16, <2>1, <2>2 DEF Joins, Serves
<1>17. ASSUME NEW c \in Clients, FindsNothing(c) PROVE Dispatching'
  BY <1>17 DEF FindsNothing, Spoke, Serves
<1>18. ASSUME NEW c \in Clients, CancelsTurn(c) PROVE Dispatching'
  <2>1. /\ Reaches(table[Session(c)])
        /\ table[Session(c)] # None => turn[table[Session(c)]].stage \notin {"none", "refused"}
    BY <1>18, Cancellations
  <2> QED  BY <1>18, <2>1 DEF CancelsTurn, Reaches, Spoke
<1>19. ASSUME NEW c \in Clients, CancelsAlone(c) PROVE Dispatching'
  BY <1>19 DEF CancelsAlone, Spoke, Serves
<1>20. ASSUME NEW c \in Clients, Breaks(c) PROVE Dispatching'
  <2>1. /\ Reaches(table[Session(c)])
        /\ table[Session(c)] # None => turn[table[Session(c)]].stage \notin {"none", "refused"}
    BY <1>20, Cancellations
  <2> QED  BY <1>20, <2>1 DEF Breaks, Reaches, Broke
<1>21. ASSUME NEW c \in Clients, BeginsToRestore(c) PROVE Dispatching'
  BY <1>21 DEF BeginsToRestore, Staged
<1>22. ASSUME NEW c \in Clients, Enqueues(c) PROVE Dispatching'
  BY <1>22 DEF Enqueues, Staged, Queued, EntersSlot
<1>23. ASSUME NEW c \in Clients, IsRestored(c) PROVE Dispatching'
  BY <1>23 DEF IsRestored, Prepared, Queued, EntersSlot
<1>24. ASSUME NEW c \in Clients, IsNotRestored(c) PROVE Dispatching'
  <2>1. \A x \in Clients :
        /\ turn'[x].stage = IF x = c THEN "ended" ELSE turn[x].stage
    BY <1>24 DEF IsNotRestored, Finishes, Left
  <2>2. Advanced(c) /\ Settled(c) /\ turn[c].stage # "none"
    BY <1>24, Endings
  <2> QED  BY <1>24, <2>1, <2>2 DEF IsNotRestored, Finishes, Advanced, Settled
<1>25. ASSUME NEW c \in Clients, IsNext(c) PROVE Dispatching'
  BY <1>25 DEF IsNext, Staged
<1>26. ASSUME NEW c \in Clients, Drives(c) PROVE Dispatching'
  BY <1>26 DEF Drives, Staged
<1>27. ASSUME NEW c \in Clients, RunIsOver(c) PROVE Dispatching'
  <2>1. \A x \in Clients :
        /\ turn'[x].stage = IF x = c THEN "ended" ELSE turn[x].stage
    BY <1>27 DEF RunIsOver, Finishes, Left
  <2>2. Advanced(c) /\ Settled(c) /\ turn[c].stage # "none"
    BY <1>27, Endings
  <2> QED  BY <1>27, <2>1, <2>2 DEF RunIsOver, Finishes, Advanced, Settled
<1>28. ASSUME NEW c \in Clients, StartIsCanceled(c) PROVE Dispatching'
  <2>1. \A x \in Clients :
        /\ turn'[x].stage = IF x = c THEN "ended" ELSE turn[x].stage
    BY <1>28 DEF StartIsCanceled, Left
  <2>2. Advanced(c) /\ Settled(c) /\ turn[c].stage # "none"
    BY <1>28, Endings
  <2> QED  BY <1>28, <2>1, <2>2 DEF StartIsCanceled, Advanced, Settled
<1>29. ASSUME NEW c \in Clients, Leaks(c) PROVE Dispatching'
  BY <1>29 DEF Leaks, Stopped
<1>30. ASSUME NEW c \in Clients, PreparationIsCanceled(c) PROVE Dispatching'
  <2>1. \A x \in Clients :
        /\ turn'[x].stage = IF x = c THEN "ended" ELSE turn[x].stage
    BY <1>30 DEF PreparationIsCanceled, Finishes, Left
  <2>2. Advanced(c) /\ Settled(c) /\ turn[c].stage # "none"
    BY <1>30, Endings
  <2> QED  BY <1>30, <2>1, <2>2 DEF PreparationIsCanceled, Finishes, Advanced, Settled
<1>31. ASSUME NEW c \in Clients, PreparationIsKilled(c) PROVE Dispatching'
  BY <1>31 DEF PreparationIsKilled, Stopped
<1>32. ASSUME NEW c \in Clients, IsStruck(c) PROVE Dispatching'
  BY <1>32 DEF IsStruck, Struck
<1>33. ASSUME NEW c \in Clients, IsClosed(c) PROVE Dispatching'
  <2>1. \A x \in Clients :
        /\ turn'[x].stage = IF x = c THEN "ended" ELSE turn[x].stage
    BY <1>33 DEF IsClosed, Closed
  <2>2. Advanced(c) /\ Settled(c) /\ turn[c].stage # "none"
    BY <1>33, Endings
  <2> QED  BY <1>33, <2>1, <2>2 DEF IsClosed, Advanced, Settled
<1>34. ASSUME NEW c \in Clients, IsAbandoned(c) PROVE Dispatching'
  BY <1>34 DEF IsAbandoned, Shot
<1> QED
  BY <1>1, <1>2, <1>3, <1>4, <1>5, <1>6, <1>7, <1>8, <1>9, <1>10, <1>11, <1>12, <1>13,
    <1>14, <1>15, <1>16, <1>17, <1>18, <1>19, <1>20, <1>21, <1>22, <1>23, <1>24,
    <1>25, <1>26, <1>27, <1>28, <1>29, <1>30, <1>31, <1>32, <1>33, <1>34 DEF Effect

\* A client that began has seen a session.
LEMMA CreatedStep ==
  ASSUME Members, Backups, Numbered, Created, Dispatching, Fresh, Waiting, Listed,
         Entries, Effect PROVE Created'
<1> USE DEF Members, Created, Session, Dispatching
<1>1. ASSUME Quiet PROVE Created'
  BY <1>1 DEF Quiet
<1>2. ASSUME ShutsDown PROVE Created'
  BY <1>2 DEF ShutsDown
<1>3. ASSUME IsCleared PROVE Created'
  BY <1>3 DEF IsCleared
<1>4. ASSUME IsGone PROVE Created'
  BY <1>4 DEF IsGone
<1>5. ASSUME NEW c \in Clients, Creates(c) PROVE Created'
  BY <1>5 DEF Creates, Began, DiskAt
<1>6. ASSUME NEW c \in Clients, Continues(c) PROVE Created'
  BY <1>6 DEF Continues, Began, Finished, Numbered
<1>7. ASSUME NEW c \in Clients, Observes(c) PROVE Created'
  BY <1>7 DEF Observes, Began, Active, Numbered
<1>8. ASSUME NEW c \in Clients, Goes(c) PROVE Created'
  <2>1. \A w \in Clients :
        /\ client'[w].session = client[w].session
        /\ client'[w].pc = IF w = c THEN "left" ELSE client[w].pc
        /\ client'[w].pinned = client[w].pinned
    BY <1>8 DEF Goes, Parted, Spoke
  <2> QED  BY <1>8, <2>1 DEF Goes
<1>9. ASSUME NEW c \in Clients, FailsSession(c) PROVE Created'
  BY <1>9 DEF FailsSession, Spoke, Ended
<1>10. ASSUME NEW c \in Clients, IsLost(c) PROVE Created'
  <2>1. \A w \in Clients :
        /\ client'[w].session = client[w].session
        /\ client'[w].pc = IF w = c THEN AfterOutcome(c, TRUE) ELSE client[w].pc
        /\ client'[w].pinned = client[w].pinned
    BY <1>10 DEF IsLost, Parted, Spoke, AfterOutcome
  <2> QED  BY <1>10, <2>1 DEF IsLost, AfterOutcome
<1>11. ASSUME NEW c \in Clients, IsRefused(c) PROVE Created'
  BY SMTT(30), <1>11 DEF IsRefused, Spoke, DiskAt, Serves
<1>12. ASSUME NEW c \in Clients, StartsNext(c) PROVE Created'
  BY <1>12 DEF StartsNext, Entered, Spoke, DiskAt, TableAt, Serves
<1>13. ASSUME NEW c \in Clients, StartsFirst(c) PROVE Created'
  BY <1>13 DEF StartsFirst, Entered, Spoke, TableAt, Serves
<1>14. ASSUME NEW c \in Clients, IsAccepted(c) PROVE Created'
  BY <1>14 DEF IsAccepted, Claiming, Reached
<1>15. ASSUME NEW c \in Clients, StartIsUndone(c) PROVE Created'
  <2>1. \A x \in Clients :
        /\ turn'[x].stage = IF x = c THEN "refused" ELSE turn[x].stage
        /\ turn'[x].claimed = turn[x].claimed
        /\ turn'[x].token = turn[x].token
        /\ turn'[x].cancel = turn[x].cancel
        /\ turn'[x].asked = turn[x].asked
        /\ turn'[x].kill <=> x # c /\ turn[x].kill
        /\ turn'[x].backup = turn[x].backup
        /\ turn'[x].waiters = turn[x].waiters
    BY <1>15 DEF StartIsUndone, Stopped
  <2>2. Advanced(c) /\ Settled(c) /\ turn[c].stage # "none"
    BY <1>15, Endings
  <2> QED  BY <1>15, <2>1, <2>2 DEF StartIsUndone, Advanced, Settled
<1>16. ASSUME NEW c \in Clients, Joins(c) PROVE Created'
  <2>1. \A w \in Clients :
        /\ client'[w].session = client[w].session
        /\ client'[w].pc = IF w = c THEN "waiting" ELSE client[w].pc
        /\ client'[w].pinned = client[w].pinned
    BY <1>16 DEF Joins, Joined, Spoke, Serves
  <2> QED  BY <1>16, <2>1 DEF Joins, Serves
<1>17. ASSUME NEW c \in Clients, FindsNothing(c) PROVE Created'
  BY <1>17 DEF FindsNothing, Spoke, Serves
<1>18. ASSUME NEW c \in Clients, CancelsTurn(c) PROVE Created'
  <2>1. /\ Reaches(table[Session(c)])
        /\ table[Session(c)] # None => turn[table[Session(c)]].stage \notin {"none", "refused"}
    BY <1>18, Cancellations
  <2> QED  BY <1>18, <2>1 DEF CancelsTurn, Reaches, Spoke
<1>19. ASSUME NEW c \in Clients, CancelsAlone(c) PROVE Created'
  BY <1>19 DEF CancelsAlone, Spoke, Serves
<1>20. ASSUME NEW c \in Clients, Breaks(c) PROVE Created'
  <2>1. /\ Reaches(table[Session(c)])
        /\ table[Session(c)] # None => turn[table[Session(c)]].stage \notin {"none", "refused"}
    BY <1>20, Cancellations
  <2> QED  BY <1>20, <2>1 DEF Breaks, Reaches, Broke
<1>21. ASSUME NEW c \in Clients, BeginsToRestore(c) PROVE Created'
  BY <1>21 DEF BeginsToRestore, Staged
<1>22. ASSUME NEW c \in Clients, Enqueues(c) PROVE Created'
  BY <1>22 DEF Enqueues, Staged, Queued, EntersSlot
<1>23. ASSUME NEW c \in Clients, IsRestored(c) PROVE Created'
  BY <1>23 DEF IsRestored, Prepared, Queued, EntersSlot
<1>24. ASSUME NEW c \in Clients, IsNotRestored(c) PROVE Created'
  <2>1. \A x \in Clients :
        /\ turn'[x].stage = IF x = c THEN "ended" ELSE turn[x].stage
        /\ turn'[x].claimed = turn[x].claimed
        /\ turn'[x].token = turn[x].token
        /\ turn'[x].cancel = turn[x].cancel
        /\ turn'[x].asked = turn[x].asked
        /\ turn'[x].kill <=> x # c /\ turn[x].kill
        /\ turn'[x].backup = turn[x].backup
        /\ turn'[x].waiters = IF x = table[Session(c)] THEN {} ELSE turn[x].waiters
    BY <1>24 DEF IsNotRestored, Finishes, Left
  <2>2. Advanced(c) /\ Settled(c) /\ turn[c].stage # "none"
    BY <1>24, Endings
  <2> QED  BY <1>24, <2>1, <2>2 DEF IsNotRestored, Finishes, Advanced, Settled
<1>25. ASSUME NEW c \in Clients, IsNext(c) PROVE Created'
  BY <1>25 DEF IsNext, Staged
<1>26. ASSUME NEW c \in Clients, Drives(c) PROVE Created'
  BY <1>26 DEF Drives, Staged
<1>27. ASSUME NEW c \in Clients, RunIsOver(c) PROVE Created'
  <2>1. \A x \in Clients :
        /\ turn'[x].stage = IF x = c THEN "ended" ELSE turn[x].stage
        /\ turn'[x].claimed = turn[x].claimed
        /\ turn'[x].token = turn[x].token
        /\ turn'[x].cancel = turn[x].cancel
        /\ turn'[x].asked = turn[x].asked
        /\ turn'[x].kill <=> x # c /\ turn[x].kill
        /\ turn'[x].backup = turn[x].backup
        /\ turn'[x].waiters = IF x = table[Session(c)] THEN {} ELSE turn[x].waiters
    BY <1>27 DEF RunIsOver, Finishes, Left
  <2>2. Advanced(c) /\ Settled(c) /\ turn[c].stage # "none"
    BY <1>27, Endings
  <2> QED  BY <1>27, <2>1, <2>2 DEF RunIsOver, Finishes, Advanced, Settled
<1>28. ASSUME NEW c \in Clients, StartIsCanceled(c) PROVE Created'
  <2>1. \A x \in Clients :
        /\ turn'[x].stage = IF x = c THEN "ended" ELSE turn[x].stage
        /\ turn'[x].claimed = turn[x].claimed
        /\ turn'[x].token = turn[x].token
        /\ turn'[x].cancel = turn[x].cancel
        /\ turn'[x].asked = turn[x].asked
        /\ turn'[x].kill <=> x # c /\ turn[x].kill
        /\ turn'[x].backup = turn[x].backup
        /\ turn'[x].waiters = IF x = table[Session(c)] THEN {} ELSE turn[x].waiters
    BY <1>28 DEF StartIsCanceled, Left
  <2>2. Advanced(c) /\ Settled(c) /\ turn[c].stage # "none"
    BY <1>28, Endings
  <2> QED  BY <1>28, <2>1, <2>2 DEF StartIsCanceled, Advanced, Settled
<1>29. ASSUME NEW c \in Clients, Leaks(c) PROVE Created'
  BY <1>29 DEF Leaks, Stopped
<1>30. ASSUME NEW c \in Clients, PreparationIsCanceled(c) PROVE Created'
  <2>1. \A x \in Clients :
        /\ turn'[x].stage = IF x = c THEN "ended" ELSE turn[x].stage
        /\ turn'[x].claimed = turn[x].claimed
        /\ turn'[x].token = turn[x].token
        /\ turn'[x].cancel = turn[x].cancel
        /\ turn'[x].asked = turn[x].asked
        /\ turn'[x].kill <=> x # c /\ turn[x].kill
        /\ turn'[x].backup = turn[x].backup
        /\ turn'[x].waiters = IF x = table[Session(c)] THEN {} ELSE turn[x].waiters
    BY <1>30 DEF PreparationIsCanceled, Finishes, Left
  <2>2. Advanced(c) /\ Settled(c) /\ turn[c].stage # "none"
    BY <1>30, Endings
  <2> QED  BY <1>30, <2>1, <2>2 DEF PreparationIsCanceled, Finishes, Advanced, Settled
<1>31. ASSUME NEW c \in Clients, PreparationIsKilled(c) PROVE Created'
  BY <1>31 DEF PreparationIsKilled, Stopped
<1>32. ASSUME NEW c \in Clients, IsStruck(c) PROVE Created'
  BY <1>32 DEF IsStruck, Struck
<1>33. ASSUME NEW c \in Clients, IsClosed(c) PROVE Created'
  <2>1. \A x \in Clients :
        /\ turn'[x].stage = IF x = c THEN "ended" ELSE turn[x].stage
        /\ turn'[x].claimed = turn[x].claimed
        /\ turn'[x].token = turn[x].token
        /\ turn'[x].cancel = turn[x].cancel
        /\ turn'[x].asked = turn[x].asked
        /\ turn'[x].kill = turn[x].kill
        /\ turn'[x].backup = turn[x].backup
        /\ turn'[x].waiters = IF x = c THEN {} ELSE turn[x].waiters
    BY <1>33 DEF IsClosed, Closed
  <2>2. Advanced(c) /\ Settled(c) /\ turn[c].stage # "none"
    BY <1>33, Endings
  <2> QED  BY <1>33, <2>1, <2>2 DEF IsClosed, Advanced, Settled
<1>34. ASSUME NEW c \in Clients, IsAbandoned(c) PROVE Created'
  BY <1>34 DEF IsAbandoned, Shot
<1> QED
  BY <1>1, <1>2, <1>3, <1>4, <1>5, <1>6, <1>7, <1>8, <1>9, <1>10, <1>11, <1>12, <1>13,
    <1>14, <1>15, <1>16, <1>17, <1>18, <1>19, <1>20, <1>21, <1>22, <1>23, <1>24,
    <1>25, <1>26, <1>27, <1>28, <1>29, <1>30, <1>31, <1>32, <1>33, <1>34 DEF Effect

\* A session that exists counts its turns from one.
LEMMA NumberedStep ==
  ASSUME Members, Backups, Numbered, Created, Dispatching, Fresh, Waiting, Listed,
         Entries, Effect PROVE Numbered'
<1> USE DEF Members, Numbered
<1>1. ASSUME Quiet PROVE Numbered'
  BY <1>1 DEF Quiet
<1>2. ASSUME ShutsDown PROVE Numbered'
  BY <1>2 DEF ShutsDown
<1>3. ASSUME IsCleared PROVE Numbered'
  BY <1>3 DEF IsCleared
<1>4. ASSUME IsGone PROVE Numbered'
  BY <1>4 DEF IsGone
<1>5. ASSUME NEW c \in Clients, Creates(c) PROVE Numbered'
  BY <1>5 DEF Creates, Began, DiskAt
<1>6. ASSUME NEW c \in Clients, Continues(c) PROVE Numbered'
  BY <1>6 DEF Continues, Began
<1>7. ASSUME NEW c \in Clients, Observes(c) PROVE Numbered'
  BY <1>7 DEF Observes, Began
<1>8. ASSUME NEW c \in Clients, Goes(c) PROVE Numbered'
  BY <1>8 DEF Goes, Parted, Spoke
<1>9. ASSUME NEW c \in Clients, FailsSession(c) PROVE Numbered'
  <2>1. \A z \in Sessions :
        disk'[z].turns = disk[z].turns /\ (disk'[z].state # "none" => disk[z].state # "none")
    BY <1>9 DEF FailsSession, Ended, Active
  <2> QED  BY <2>1
<1>10. ASSUME NEW c \in Clients, IsLost(c) PROVE Numbered'
  BY <1>10 DEF IsLost, Parted, Spoke, AfterOutcome
<1>11. ASSUME NEW c \in Clients, IsRefused(c) PROVE Numbered'
  BY <1>11 DEF IsRefused, Spoke, DiskAt, Serves, Finished
<1>12. ASSUME NEW c \in Clients, StartsNext(c) PROVE Numbered'
  BY <1>12 DEF StartsNext, Entered, Spoke, DiskAt, TableAt, Serves, Finished
<1>13. ASSUME NEW c \in Clients, StartsFirst(c) PROVE Numbered'
  BY <1>13 DEF StartsFirst, Entered, Spoke, TableAt, Serves
<1>14. ASSUME NEW c \in Clients, IsAccepted(c) PROVE Numbered'
  BY <1>14 DEF IsAccepted, Claiming, Reached
<1>15. ASSUME NEW c \in Clients, StartIsUndone(c) PROVE Numbered'
  <2>1. \A x \in Clients :
        /\ turn'[x].stage = IF x = c THEN "refused" ELSE turn[x].stage
        /\ turn'[x].claimed = turn[x].claimed
        /\ turn'[x].token = turn[x].token
        /\ turn'[x].cancel = turn[x].cancel
        /\ turn'[x].asked = turn[x].asked
        /\ turn'[x].kill <=> x # c /\ turn[x].kill
        /\ turn'[x].backup = turn[x].backup
        /\ turn'[x].waiters = turn[x].waiters
    BY <1>15 DEF StartIsUndone, Stopped
  <2>2. Settled(c) /\ turn[c].stage # "none"
    BY <1>15, Endings
  <2> QED  BY <1>15, <2>1, <2>2 DEF StartIsUndone, Settled
<1>16. ASSUME NEW c \in Clients, Joins(c) PROVE Numbered'
  BY <1>16 DEF Joins, Joined, Spoke, Serves
<1>17. ASSUME NEW c \in Clients, FindsNothing(c) PROVE Numbered'
  BY <1>17 DEF FindsNothing, Spoke, Serves
<1>18. ASSUME NEW c \in Clients, CancelsTurn(c) PROVE Numbered'
  <2>1. /\ Reaches(table[Session(c)])
        /\ table[Session(c)] # None => turn[table[Session(c)]].stage \notin {"none", "refused"}
    BY <1>18, Cancellations
  <2> QED  BY <1>18, <2>1 DEF CancelsTurn, Reaches, Spoke
<1>19. ASSUME NEW c \in Clients, CancelsAlone(c) PROVE Numbered'
  BY <1>19 DEF CancelsAlone, Spoke, Serves
<1>20. ASSUME NEW c \in Clients, Breaks(c) PROVE Numbered'
  <2>1. /\ Reaches(table[Session(c)])
        /\ table[Session(c)] # None => turn[table[Session(c)]].stage \notin {"none", "refused"}
    BY <1>20, Cancellations
  <2> QED  BY <1>20, <2>1 DEF Breaks, Reaches, Broke
<1>21. ASSUME NEW c \in Clients, BeginsToRestore(c) PROVE Numbered'
  BY <1>21 DEF BeginsToRestore, Staged
<1>22. ASSUME NEW c \in Clients, Enqueues(c) PROVE Numbered'
  BY <1>22 DEF Enqueues, Staged, Queued, EntersSlot
<1>23. ASSUME NEW c \in Clients, IsRestored(c) PROVE Numbered'
  BY <1>23 DEF IsRestored, Prepared, Queued, EntersSlot
<1>24. ASSUME NEW c \in Clients, IsNotRestored(c) PROVE Numbered'
  <2>1. \A x \in Clients :
        /\ turn'[x].stage = IF x = c THEN "ended" ELSE turn[x].stage
        /\ turn'[x].claimed = turn[x].claimed
        /\ turn'[x].token = turn[x].token
        /\ turn'[x].cancel = turn[x].cancel
        /\ turn'[x].asked = turn[x].asked
        /\ turn'[x].kill <=> x # c /\ turn[x].kill
        /\ turn'[x].backup = turn[x].backup
        /\ turn'[x].waiters = IF x = table[Session(c)] THEN {} ELSE turn[x].waiters
    BY <1>24 DEF IsNotRestored, Finishes, Left
  <2>2. Settled(c) /\ turn[c].stage # "none"
    BY <1>24, Endings
  <2> QED  BY <1>24, <2>1, <2>2 DEF IsNotRestored, Finishes, Settled
<1>25. ASSUME NEW c \in Clients, IsNext(c) PROVE Numbered'
  BY <1>25 DEF IsNext, Staged
<1>26. ASSUME NEW c \in Clients, Drives(c) PROVE Numbered'
  BY <1>26 DEF Drives, Staged
<1>27. ASSUME NEW c \in Clients, RunIsOver(c) PROVE Numbered'
  <2>1. \A x \in Clients :
        /\ turn'[x].stage = IF x = c THEN "ended" ELSE turn[x].stage
        /\ turn'[x].claimed = turn[x].claimed
        /\ turn'[x].token = turn[x].token
        /\ turn'[x].cancel = turn[x].cancel
        /\ turn'[x].asked = turn[x].asked
        /\ turn'[x].kill <=> x # c /\ turn[x].kill
        /\ turn'[x].backup = turn[x].backup
        /\ turn'[x].waiters = IF x = table[Session(c)] THEN {} ELSE turn[x].waiters
    BY <1>27 DEF RunIsOver, Finishes, Left
  <2>2. Settled(c) /\ turn[c].stage # "none"
    BY <1>27, Endings
  <2> QED  BY <1>27, <2>1, <2>2 DEF RunIsOver, Finishes, Settled
<1>28. ASSUME NEW c \in Clients, StartIsCanceled(c) PROVE Numbered'
  <2>1. \A x \in Clients :
        /\ turn'[x].stage = IF x = c THEN "ended" ELSE turn[x].stage
        /\ turn'[x].claimed = turn[x].claimed
        /\ turn'[x].token = turn[x].token
        /\ turn'[x].cancel = turn[x].cancel
        /\ turn'[x].asked = turn[x].asked
        /\ turn'[x].kill <=> x # c /\ turn[x].kill
        /\ turn'[x].backup = turn[x].backup
        /\ turn'[x].waiters = IF x = table[Session(c)] THEN {} ELSE turn[x].waiters
    BY <1>28 DEF StartIsCanceled, Left
  <2>2. Settled(c) /\ turn[c].stage # "none"
    BY <1>28, Endings
  <2> QED  BY <1>28, <2>1, <2>2 DEF StartIsCanceled, Settled
<1>29. ASSUME NEW c \in Clients, Leaks(c) PROVE Numbered'
  BY <1>29 DEF Leaks, Stopped
<1>30. ASSUME NEW c \in Clients, PreparationIsCanceled(c) PROVE Numbered'
  <2>1. \A x \in Clients :
        /\ turn'[x].stage = IF x = c THEN "ended" ELSE turn[x].stage
        /\ turn'[x].claimed = turn[x].claimed
        /\ turn'[x].token = turn[x].token
        /\ turn'[x].cancel = turn[x].cancel
        /\ turn'[x].asked = turn[x].asked
        /\ turn'[x].kill <=> x # c /\ turn[x].kill
        /\ turn'[x].backup = turn[x].backup
        /\ turn'[x].waiters = IF x = table[Session(c)] THEN {} ELSE turn[x].waiters
    BY <1>30 DEF PreparationIsCanceled, Finishes, Left
  <2>2. Settled(c) /\ turn[c].stage # "none"
    BY <1>30, Endings
  <2> QED  BY <1>30, <2>1, <2>2 DEF PreparationIsCanceled, Finishes, Settled
<1>31. ASSUME NEW c \in Clients, PreparationIsKilled(c) PROVE Numbered'
  BY <1>31 DEF PreparationIsKilled, Stopped
<1>32. ASSUME NEW c \in Clients, IsStruck(c) PROVE Numbered'
  BY <1>32 DEF IsStruck, Struck
<1>33. ASSUME NEW c \in Clients, IsClosed(c) PROVE Numbered'
  <2>1. \A x \in Clients :
        /\ turn'[x].stage = IF x = c THEN "ended" ELSE turn[x].stage
        /\ turn'[x].claimed = turn[x].claimed
        /\ turn'[x].token = turn[x].token
        /\ turn'[x].cancel = turn[x].cancel
        /\ turn'[x].asked = turn[x].asked
        /\ turn'[x].kill = turn[x].kill
        /\ turn'[x].backup = turn[x].backup
        /\ turn'[x].waiters = IF x = c THEN {} ELSE turn[x].waiters
    BY <1>33 DEF IsClosed, Closed
  <2>2. Settled(c) /\ turn[c].stage # "none"
    BY <1>33, Endings
  <2> QED  BY <1>33, <2>1, <2>2 DEF IsClosed, Settled
<1>34. ASSUME NEW c \in Clients, IsAbandoned(c) PROVE Numbered'
  BY <1>34 DEF IsAbandoned, Shot
<1> QED
  BY <1>1, <1>2, <1>3, <1>4, <1>5, <1>6, <1>7, <1>8, <1>9, <1>10, <1>11, <1>12, <1>13,
    <1>14, <1>15, <1>16, <1>17, <1>18, <1>19, <1>20, <1>21, <1>22, <1>23, <1>24,
    <1>25, <1>26, <1>27, <1>28, <1>29, <1>30, <1>31, <1>32, <1>33, <1>34 DEF Effect

\* While a session is starting only its first turn can have been seen.
LEMMA OpeningStep ==
  ASSUME Members, Backups, Numbered, Created, Dispatching, Fresh, Waiting, Listed,
         Entries, Opening, Effect PROVE Opening'
<1> USE DEF Members, Opening, Session
<1>1. ASSUME Quiet PROVE Opening'
  BY <1>1 DEF Quiet
<1>2. ASSUME ShutsDown PROVE Opening'
  BY <1>2 DEF ShutsDown
<1>3. ASSUME IsCleared PROVE Opening'
  BY <1>3 DEF IsCleared
<1>4. ASSUME IsGone PROVE Opening'
  BY <1>4 DEF IsGone
<1>5. ASSUME NEW c \in Clients, Creates(c) PROVE Opening'
  BY <1>5 DEF Creates, Began, DiskAt, Created
<1>6. ASSUME NEW c \in Clients, Continues(c) PROVE Opening'
  BY <1>6 DEF Continues, Began, Finished
<1>7. ASSUME NEW c \in Clients, Observes(c) PROVE Opening'
  BY <1>7 DEF Observes, Began, Active
<1>8. ASSUME NEW c \in Clients, Goes(c) PROVE Opening'
  <2>1. \A w \in Clients :
        /\ client'[w].command = client[w].command
        /\ client'[w].session = client[w].session
        /\ client'[w].pc = IF w = c THEN "left" ELSE client[w].pc
        /\ client'[w].pinned = client[w].pinned
    BY <1>8 DEF Goes, Parted, Spoke
  <2> QED  BY <1>8, <2>1 DEF Goes
<1>9. ASSUME NEW c \in Clients, FailsSession(c) PROVE Opening'
  <2>1. \A z \in Sessions : disk'[z].turns = disk[z].turns /\ disk'[z].state \in {disk[z].state, "failed"}
    BY <1>9 DEF FailsSession, Ended
  <2>2. \A x \in Clients :
        /\ client'[x].session = client[x].session /\ client'[x].command = client[x].command
        /\ client'[x].pinned = client[x].pinned
        /\ client'[x].pc = IF x = c THEN "done" ELSE client[x].pc
    BY <1>9 DEF FailsSession, Spoke
  <2>3. client[c].pc = "failing"
    BY <1>9 DEF FailsSession
  <2> QED  BY <2>1, <2>2, <2>3
<1>10. ASSUME NEW c \in Clients, IsLost(c) PROVE Opening'
  <2>1. \A w \in Clients :
        /\ client'[w].command = client[w].command
        /\ client'[w].session = client[w].session
        /\ client'[w].pc = IF w = c THEN AfterOutcome(c, TRUE) ELSE client[w].pc
        /\ client'[w].pinned = client[w].pinned
    BY <1>10 DEF IsLost, Parted, Spoke, AfterOutcome
  <2> QED  BY <1>10, <2>1 DEF IsLost, AfterOutcome
<1>11. ASSUME NEW c \in Clients, IsRefused(c) PROVE Opening'
  BY <1>11 DEF IsRefused, Spoke, DiskAt, Serves, Finished
<1>12. ASSUME NEW c \in Clients, StartsNext(c) PROVE Opening'
  <2>1. \A z \in Sessions : disk'[z].state # "running" => disk'[z] = disk[z]
    BY <1>12 DEF StartsNext, DiskAt
  <2>2. \A x \in Clients :
        /\ client'[x].session = client[x].session /\ client'[x].command = client[x].command
        /\ client'[x].pinned = client[x].pinned
        /\ client'[x].pc = IF x = c THEN "starting" ELSE client[x].pc
    BY <1>12 DEF StartsNext, Spoke
  <2>3. client[c].pc = "sending"
    BY <1>12 DEF StartsNext
  <2> QED  BY <2>1, <2>2, <2>3
<1>13. ASSUME NEW c \in Clients, StartsFirst(c) PROVE Opening'
  BY <1>13 DEF StartsFirst, Entered, Spoke, TableAt, Serves
<1>14. ASSUME NEW c \in Clients, IsAccepted(c) PROVE Opening'
  BY <1>14 DEF IsAccepted, Claiming, Reached
<1>15. ASSUME NEW c \in Clients, StartIsUndone(c) PROVE Opening'
  <2>1. \A x \in Clients :
        /\ turn'[x].stage = IF x = c THEN "refused" ELSE turn[x].stage
        /\ turn'[x].claimed = turn[x].claimed
        /\ turn'[x].token = turn[x].token
        /\ turn'[x].cancel = turn[x].cancel
        /\ turn'[x].asked = turn[x].asked
        /\ turn'[x].kill <=> x # c /\ turn[x].kill
        /\ turn'[x].backup = turn[x].backup
        /\ turn'[x].waiters = turn[x].waiters
    BY <1>15 DEF StartIsUndone, Stopped
  <2>2. Advanced(c) /\ Settled(c) /\ turn[c].stage # "none"
    BY <1>15, Endings
  <2> QED  BY <1>15, <2>1, <2>2 DEF StartIsUndone, Advanced, Settled
<1>16. ASSUME NEW c \in Clients, Joins(c) PROVE Opening'
  <2>1. \A w \in Clients :
        /\ client'[w].command = client[w].command
        /\ client'[w].session = client[w].session
        /\ client'[w].pc = IF w = c THEN "waiting" ELSE client[w].pc
        /\ client'[w].pinned = client[w].pinned
    BY <1>16 DEF Joins, Joined, Spoke, Serves
  <2> QED  BY <1>16, <2>1 DEF Joins, Serves
<1>17. ASSUME NEW c \in Clients, FindsNothing(c) PROVE Opening'
  BY SMTT(30), <1>17 DEF FindsNothing, Spoke, Serves
<1>18. ASSUME NEW c \in Clients, CancelsTurn(c) PROVE Opening'
  <2>1. /\ Reaches(table[Session(c)])
        /\ table[Session(c)] # None => turn[table[Session(c)]].stage \notin {"none", "refused"}
    BY <1>18, Cancellations
  <2> QED  BY <1>18, <2>1 DEF CancelsTurn, Reaches, Spoke
<1>19. ASSUME NEW c \in Clients, CancelsAlone(c) PROVE Opening'
  BY <1>19 DEF CancelsAlone, Spoke, Serves
<1>20. ASSUME NEW c \in Clients, Breaks(c) PROVE Opening'
  <2>1. /\ Reaches(table[Session(c)])
        /\ table[Session(c)] # None => turn[table[Session(c)]].stage \notin {"none", "refused"}
    BY <1>20, Cancellations
  <2> QED  BY <1>20, <2>1 DEF Breaks, Reaches, Broke
<1>21. ASSUME NEW c \in Clients, BeginsToRestore(c) PROVE Opening'
  BY <1>21 DEF BeginsToRestore, Staged
<1>22. ASSUME NEW c \in Clients, Enqueues(c) PROVE Opening'
  BY <1>22 DEF Enqueues, Staged, Queued, EntersSlot
<1>23. ASSUME NEW c \in Clients, IsRestored(c) PROVE Opening'
  BY <1>23 DEF IsRestored, Prepared, Queued, EntersSlot
<1>24. ASSUME NEW c \in Clients, IsNotRestored(c) PROVE Opening'
  <2>1. \A x \in Clients :
        /\ turn'[x].stage = IF x = c THEN "ended" ELSE turn[x].stage
        /\ turn'[x].claimed = turn[x].claimed
        /\ turn'[x].token = turn[x].token
        /\ turn'[x].cancel = turn[x].cancel
        /\ turn'[x].asked = turn[x].asked
        /\ turn'[x].kill <=> x # c /\ turn[x].kill
        /\ turn'[x].backup = turn[x].backup
        /\ turn'[x].waiters = IF x = table[Session(c)] THEN {} ELSE turn[x].waiters
    BY <1>24 DEF IsNotRestored, Finishes, Left
  <2>2. Advanced(c) /\ Settled(c) /\ turn[c].stage # "none"
    BY <1>24, Endings
  <2> QED  BY <1>24, <2>1, <2>2 DEF IsNotRestored, Finishes, Advanced, Settled
<1>25. ASSUME NEW c \in Clients, IsNext(c) PROVE Opening'
  BY <1>25 DEF IsNext, Staged
<1>26. ASSUME NEW c \in Clients, Drives(c) PROVE Opening'
  BY <1>26 DEF Drives, Staged
<1>27. ASSUME NEW c \in Clients, RunIsOver(c) PROVE Opening'
  <2>1. \A x \in Clients :
        /\ turn'[x].stage = IF x = c THEN "ended" ELSE turn[x].stage
        /\ turn'[x].claimed = turn[x].claimed
        /\ turn'[x].token = turn[x].token
        /\ turn'[x].cancel = turn[x].cancel
        /\ turn'[x].asked = turn[x].asked
        /\ turn'[x].kill <=> x # c /\ turn[x].kill
        /\ turn'[x].backup = turn[x].backup
        /\ turn'[x].waiters = IF x = table[Session(c)] THEN {} ELSE turn[x].waiters
    BY <1>27 DEF RunIsOver, Finishes, Left
  <2>2. Advanced(c) /\ Settled(c) /\ turn[c].stage # "none"
    BY <1>27, Endings
  <2> QED  BY SMTT(30), <1>27, <2>1, <2>2 DEF RunIsOver, Finishes, Advanced, Settled
<1>28. ASSUME NEW c \in Clients, StartIsCanceled(c) PROVE Opening'
  <2>1. \A x \in Clients :
        /\ turn'[x].stage = IF x = c THEN "ended" ELSE turn[x].stage
        /\ turn'[x].claimed = turn[x].claimed
        /\ turn'[x].token = turn[x].token
        /\ turn'[x].cancel = turn[x].cancel
        /\ turn'[x].asked = turn[x].asked
        /\ turn'[x].kill <=> x # c /\ turn[x].kill
        /\ turn'[x].backup = turn[x].backup
        /\ turn'[x].waiters = IF x = table[Session(c)] THEN {} ELSE turn[x].waiters
    BY <1>28 DEF StartIsCanceled, Left
  <2>2. Advanced(c) /\ Settled(c) /\ turn[c].stage # "none"
    BY <1>28, Endings
  <2> QED  BY <1>28, <2>1, <2>2 DEF StartIsCanceled, Advanced, Settled
<1>29. ASSUME NEW c \in Clients, Leaks(c) PROVE Opening'
  BY <1>29 DEF Leaks, Stopped
<1>30. ASSUME NEW c \in Clients, PreparationIsCanceled(c) PROVE Opening'
  <2>1. \A x \in Clients :
        /\ turn'[x].stage = IF x = c THEN "ended" ELSE turn[x].stage
        /\ turn'[x].claimed = turn[x].claimed
        /\ turn'[x].token = turn[x].token
        /\ turn'[x].cancel = turn[x].cancel
        /\ turn'[x].asked = turn[x].asked
        /\ turn'[x].kill <=> x # c /\ turn[x].kill
        /\ turn'[x].backup = turn[x].backup
        /\ turn'[x].waiters = IF x = table[Session(c)] THEN {} ELSE turn[x].waiters
    BY <1>30 DEF PreparationIsCanceled, Finishes, Left
  <2>2. Advanced(c) /\ Settled(c) /\ turn[c].stage # "none"
    BY <1>30, Endings
  <2> QED  BY <1>30, <2>1, <2>2 DEF PreparationIsCanceled, Finishes, Advanced, Settled
<1>31. ASSUME NEW c \in Clients, PreparationIsKilled(c) PROVE Opening'
  BY <1>31 DEF PreparationIsKilled, Stopped
<1>32. ASSUME NEW c \in Clients, IsStruck(c) PROVE Opening'
  BY <1>32 DEF IsStruck, Struck
<1>33. ASSUME NEW c \in Clients, IsClosed(c) PROVE Opening'
  <2>1. \A x \in Clients :
        /\ turn'[x].stage = IF x = c THEN "ended" ELSE turn[x].stage
        /\ turn'[x].claimed = turn[x].claimed
        /\ turn'[x].token = turn[x].token
        /\ turn'[x].cancel = turn[x].cancel
        /\ turn'[x].asked = turn[x].asked
        /\ turn'[x].kill = turn[x].kill
        /\ turn'[x].backup = turn[x].backup
        /\ turn'[x].waiters = IF x = c THEN {} ELSE turn[x].waiters
    BY <1>33 DEF IsClosed, Closed
  <2>2. Advanced(c) /\ Settled(c) /\ turn[c].stage # "none"
    BY <1>33, Endings
  <2> QED  BY <1>33, <2>1, <2>2 DEF IsClosed, Advanced, Settled
<1>34. ASSUME NEW c \in Clients, IsAbandoned(c) PROVE Opening'
  BY <1>34 DEF IsAbandoned, Shot
<1> QED
  BY <1>1, <1>2, <1>3, <1>4, <1>5, <1>6, <1>7, <1>8, <1>9, <1>10, <1>11, <1>12, <1>13,
    <1>14, <1>15, <1>16, <1>17, <1>18, <1>19, <1>20, <1>21, <1>22, <1>23, <1>24,
    <1>25, <1>26, <1>27, <1>28, <1>29, <1>30, <1>31, <1>32, <1>33, <1>34 DEF Effect

\* A session is created once.
LEMMA OneRunStep ==
  ASSUME Members, Backups, Numbered, Created, Dispatching, Fresh, Waiting, Listed,
         Entries, OneRun, Effect PROVE OneRun'
<1> USE DEF OneRun, Session, Members
<1>1. ASSUME Quiet PROVE OneRun'
  BY <1>1 DEF Quiet
<1>2. ASSUME ShutsDown PROVE OneRun'
  BY <1>2 DEF ShutsDown
<1>3. ASSUME IsCleared PROVE OneRun'
  BY <1>3 DEF IsCleared
<1>4. ASSUME IsGone PROVE OneRun'
  BY <1>4 DEF IsGone
<1>5. ASSUME NEW c \in Clients, Creates(c) PROVE OneRun'
  BY <1>5 DEF Creates, Began, DiskAt, Created
<1>6. ASSUME NEW c \in Clients, Continues(c) PROVE OneRun'
  BY <1>6 DEF Continues, Began
<1>7. ASSUME NEW c \in Clients, Observes(c) PROVE OneRun'
  BY <1>7 DEF Observes, Began
<1>8. ASSUME NEW c \in Clients, Goes(c) PROVE OneRun'
  <2>1. \A w \in Clients :
        /\ client'[w].command = client[w].command
        /\ client'[w].session = client[w].session
        /\ client'[w].pc = IF w = c THEN "left" ELSE client[w].pc
    BY <1>8 DEF Goes, Parted, Spoke
  <2> QED  BY <1>8, <2>1 DEF Goes
<1>9. ASSUME NEW c \in Clients, FailsSession(c) PROVE OneRun'
  BY <1>9 DEF FailsSession, Spoke, Ended
<1>10. ASSUME NEW c \in Clients, IsLost(c) PROVE OneRun'
  <2>1. \A w \in Clients :
        /\ client'[w].command = client[w].command
        /\ client'[w].session = client[w].session
        /\ client'[w].pc = IF w = c THEN AfterOutcome(c, TRUE) ELSE client[w].pc
    BY <1>10 DEF IsLost, Parted, Spoke, AfterOutcome
  <2> QED  BY <1>10, <2>1 DEF IsLost, AfterOutcome
<1>11. ASSUME NEW c \in Clients, IsRefused(c) PROVE OneRun'
  BY <1>11 DEF IsRefused, Spoke, DiskAt, Serves
<1>12. ASSUME NEW c \in Clients, StartsNext(c) PROVE OneRun'
  BY <1>12 DEF StartsNext, Entered, Spoke, DiskAt, TableAt, Serves
<1>13. ASSUME NEW c \in Clients, StartsFirst(c) PROVE OneRun'
  BY <1>13 DEF StartsFirst, Entered, Spoke, TableAt, Serves
<1>14. ASSUME NEW c \in Clients, IsAccepted(c) PROVE OneRun'
  BY <1>14 DEF IsAccepted, Claiming, Reached
<1>15. ASSUME NEW c \in Clients, StartIsUndone(c) PROVE OneRun'
  <2>1. \A x \in Clients :
        /\ turn'[x].stage = IF x = c THEN "refused" ELSE turn[x].stage
        /\ turn'[x].claimed = turn[x].claimed
        /\ turn'[x].token = turn[x].token
        /\ turn'[x].cancel = turn[x].cancel
        /\ turn'[x].asked = turn[x].asked
        /\ turn'[x].kill <=> x # c /\ turn[x].kill
        /\ turn'[x].backup = turn[x].backup
        /\ turn'[x].waiters = turn[x].waiters
    BY <1>15 DEF StartIsUndone, Stopped
  <2>2. Advanced(c) /\ turn[c].stage # "none"
    BY <1>15, Endings
  <2> QED  BY <1>15, <2>1, <2>2 DEF StartIsUndone, Advanced
<1>16. ASSUME NEW c \in Clients, Joins(c) PROVE OneRun'
  <2>1. \A w \in Clients :
        /\ client'[w].command = client[w].command
        /\ client'[w].session = client[w].session
        /\ client'[w].pc = IF w = c THEN "waiting" ELSE client[w].pc
    BY <1>16 DEF Joins, Joined, Spoke, Serves
  <2> QED  BY <1>16, <2>1 DEF Joins, Serves
<1>17. ASSUME NEW c \in Clients, FindsNothing(c) PROVE OneRun'
  BY <1>17 DEF FindsNothing, Spoke, Serves
<1>18. ASSUME NEW c \in Clients, CancelsTurn(c) PROVE OneRun'
  <2>1. /\ Reaches(table[Session(c)])
        /\ table[Session(c)] # None => turn[table[Session(c)]].stage \notin {"none", "refused"}
    BY <1>18, Cancellations
  <2> QED  BY <1>18, <2>1 DEF CancelsTurn, Reaches, Spoke
<1>19. ASSUME NEW c \in Clients, CancelsAlone(c) PROVE OneRun'
  BY <1>19 DEF CancelsAlone, Spoke, Serves
<1>20. ASSUME NEW c \in Clients, Breaks(c) PROVE OneRun'
  <2>1. /\ Reaches(table[Session(c)])
        /\ table[Session(c)] # None => turn[table[Session(c)]].stage \notin {"none", "refused"}
    BY <1>20, Cancellations
  <2> QED  BY <1>20, <2>1 DEF Breaks, Reaches, Broke
<1>21. ASSUME NEW c \in Clients, BeginsToRestore(c) PROVE OneRun'
  BY <1>21 DEF BeginsToRestore, Staged
<1>22. ASSUME NEW c \in Clients, Enqueues(c) PROVE OneRun'
  BY <1>22 DEF Enqueues, Staged, Queued, EntersSlot
<1>23. ASSUME NEW c \in Clients, IsRestored(c) PROVE OneRun'
  BY <1>23 DEF IsRestored, Prepared, Queued, EntersSlot
<1>24. ASSUME NEW c \in Clients, IsNotRestored(c) PROVE OneRun'
  <2>1. \A x \in Clients :
        /\ turn'[x].stage = IF x = c THEN "ended" ELSE turn[x].stage
        /\ turn'[x].claimed = turn[x].claimed
        /\ turn'[x].token = turn[x].token
        /\ turn'[x].cancel = turn[x].cancel
        /\ turn'[x].asked = turn[x].asked
        /\ turn'[x].kill <=> x # c /\ turn[x].kill
        /\ turn'[x].backup = turn[x].backup
        /\ turn'[x].waiters = IF x = table[Session(c)] THEN {} ELSE turn[x].waiters
    BY <1>24 DEF IsNotRestored, Finishes, Left
  <2>2. Advanced(c) /\ turn[c].stage # "none"
    BY <1>24, Endings
  <2> QED  BY <1>24, <2>1, <2>2 DEF IsNotRestored, Finishes, Advanced
<1>25. ASSUME NEW c \in Clients, IsNext(c) PROVE OneRun'
  BY <1>25 DEF IsNext, Staged
<1>26. ASSUME NEW c \in Clients, Drives(c) PROVE OneRun'
  BY <1>26 DEF Drives, Staged
<1>27. ASSUME NEW c \in Clients, RunIsOver(c) PROVE OneRun'
  <2>1. \A x \in Clients :
        /\ turn'[x].stage = IF x = c THEN "ended" ELSE turn[x].stage
        /\ turn'[x].claimed = turn[x].claimed
        /\ turn'[x].token = turn[x].token
        /\ turn'[x].cancel = turn[x].cancel
        /\ turn'[x].asked = turn[x].asked
        /\ turn'[x].kill <=> x # c /\ turn[x].kill
        /\ turn'[x].backup = turn[x].backup
        /\ turn'[x].waiters = IF x = table[Session(c)] THEN {} ELSE turn[x].waiters
    BY <1>27 DEF RunIsOver, Finishes, Left
  <2>2. Advanced(c) /\ turn[c].stage # "none"
    BY <1>27, Endings
  <2> QED  BY <1>27, <2>1, <2>2 DEF RunIsOver, Finishes, Advanced
<1>28. ASSUME NEW c \in Clients, StartIsCanceled(c) PROVE OneRun'
  <2>1. \A x \in Clients :
        /\ turn'[x].stage = IF x = c THEN "ended" ELSE turn[x].stage
        /\ turn'[x].claimed = turn[x].claimed
        /\ turn'[x].token = turn[x].token
        /\ turn'[x].cancel = turn[x].cancel
        /\ turn'[x].asked = turn[x].asked
        /\ turn'[x].kill <=> x # c /\ turn[x].kill
        /\ turn'[x].backup = turn[x].backup
        /\ turn'[x].waiters = IF x = table[Session(c)] THEN {} ELSE turn[x].waiters
    BY <1>28 DEF StartIsCanceled, Left
  <2>2. Advanced(c) /\ turn[c].stage # "none"
    BY <1>28, Endings
  <2> QED  BY <1>28, <2>1, <2>2 DEF StartIsCanceled, Advanced
<1>29. ASSUME NEW c \in Clients, Leaks(c) PROVE OneRun'
  BY <1>29 DEF Leaks, Stopped
<1>30. ASSUME NEW c \in Clients, PreparationIsCanceled(c) PROVE OneRun'
  <2>1. \A x \in Clients :
        /\ turn'[x].stage = IF x = c THEN "ended" ELSE turn[x].stage
        /\ turn'[x].claimed = turn[x].claimed
        /\ turn'[x].token = turn[x].token
        /\ turn'[x].cancel = turn[x].cancel
        /\ turn'[x].asked = turn[x].asked
        /\ turn'[x].kill <=> x # c /\ turn[x].kill
        /\ turn'[x].backup = turn[x].backup
        /\ turn'[x].waiters = IF x = table[Session(c)] THEN {} ELSE turn[x].waiters
    BY <1>30 DEF PreparationIsCanceled, Finishes, Left
  <2>2. Advanced(c) /\ turn[c].stage # "none"
    BY <1>30, Endings
  <2> QED  BY <1>30, <2>1, <2>2 DEF PreparationIsCanceled, Finishes, Advanced
<1>31. ASSUME NEW c \in Clients, PreparationIsKilled(c) PROVE OneRun'
  BY <1>31 DEF PreparationIsKilled, Stopped
<1>32. ASSUME NEW c \in Clients, IsStruck(c) PROVE OneRun'
  BY <1>32 DEF IsStruck, Struck
<1>33. ASSUME NEW c \in Clients, IsClosed(c) PROVE OneRun'
  <2>1. \A x \in Clients :
        /\ turn'[x].stage = IF x = c THEN "ended" ELSE turn[x].stage
        /\ turn'[x].claimed = turn[x].claimed
        /\ turn'[x].token = turn[x].token
        /\ turn'[x].cancel = turn[x].cancel
        /\ turn'[x].asked = turn[x].asked
        /\ turn'[x].kill = turn[x].kill
        /\ turn'[x].backup = turn[x].backup
        /\ turn'[x].waiters = IF x = c THEN {} ELSE turn[x].waiters
    BY <1>33 DEF IsClosed, Closed
  <2>2. Advanced(c) /\ turn[c].stage # "none"
    BY <1>33, Endings
  <2> QED  BY <1>33, <2>1, <2>2 DEF IsClosed, Advanced
<1>34. ASSUME NEW c \in Clients, IsAbandoned(c) PROVE OneRun'
  BY <1>34 DEF IsAbandoned, Shot
<1> QED
  BY <1>1, <1>2, <1>3, <1>4, <1>5, <1>6, <1>7, <1>8, <1>9, <1>10, <1>11, <1>12, <1>13,
    <1>14, <1>15, <1>16, <1>17, <1>18, <1>19, <1>20, <1>21, <1>22, <1>23, <1>24,
    <1>25, <1>26, <1>27, <1>28, <1>29, <1>30, <1>31, <1>32, <1>33, <1>34 DEF Effect

\* The table and the turns in flight agree until the shutdown clears it.
LEMMA EntriesStep ==
  ASSUME Tabled, Entries, Effect PROVE Entries'
<1> USE DaemonAssumption DEF Tabled, Entries, InFlight, Live, Session
<1>1. ASSUME Quiet PROVE Entries'
  BY <1>1 DEF Quiet
<1>2. ASSUME ShutsDown PROVE Entries'
  BY <1>2 DEF ShutsDown
<1>3. ASSUME IsCleared PROVE Entries'
  BY <1>3 DEF IsCleared
<1>4. ASSUME IsGone PROVE Entries'
  BY <1>4 DEF IsGone
<1>5. ASSUME NEW c \in Clients, Creates(c) PROVE Entries'
  BY <1>5 DEF Creates, Began, DiskAt
<1>6. ASSUME NEW c \in Clients, Continues(c) PROVE Entries'
  BY <1>6 DEF Continues, Began
<1>7. ASSUME NEW c \in Clients, Observes(c) PROVE Entries'
  BY <1>7 DEF Observes, Began
<1>8. ASSUME NEW c \in Clients, Goes(c) PROVE Entries'
  BY <1>8 DEF Goes, Parted, Spoke
<1>9. ASSUME NEW c \in Clients, FailsSession(c) PROVE Entries'
  BY <1>9 DEF FailsSession, Spoke, Ended
<1>10. ASSUME NEW c \in Clients, IsLost(c) PROVE Entries'
  BY <1>10 DEF IsLost, Parted, Spoke, AfterOutcome
<1>11. ASSUME NEW c \in Clients, IsRefused(c) PROVE Entries'
  BY <1>11 DEF IsRefused, Spoke, DiskAt, Serves
<1>12. ASSUME NEW c \in Clients, StartsNext(c) PROVE Entries'
  BY <1>12 DEF StartsNext, Entered, Spoke, DiskAt, TableAt, Serves
<1>13. ASSUME NEW c \in Clients, StartsFirst(c) PROVE Entries'
  BY <1>13 DEF StartsFirst, Entered, Spoke, TableAt, Serves
<1>14. ASSUME NEW c \in Clients, IsAccepted(c) PROVE Entries'
  BY <1>14 DEF IsAccepted, Claiming, Reached
<1>15. ASSUME NEW c \in Clients, StartIsUndone(c) PROVE Entries'
  BY <1>15 DEF StartIsUndone, Stopped, Reached, Ended, DiskAt, TableAt, RolledBack
<1>16. ASSUME NEW c \in Clients, Joins(c) PROVE Entries'
  <2>1. \A x \in Clients :
        /\ turn'[x].stage = turn[x].stage
    BY <1>16 DEF Joins, Joined, Spoke, Serves
  <2>2. \A w \in Clients :
        /\ client'[w].session = client[w].session
    BY <1>16 DEF Joins, Joined, Spoke, Serves
  <2> QED  BY <1>16, <2>1, <2>2 DEF Joins, Serves
<1>17. ASSUME NEW c \in Clients, FindsNothing(c) PROVE Entries'
  BY <1>17 DEF FindsNothing, Spoke, Serves
<1>18. ASSUME NEW c \in Clients, CancelsTurn(c) PROVE Entries'
  <2>1. \A x \in Clients :
        /\ turn'[x].stage = turn[x].stage
    BY <1>18 DEF CancelsTurn, CanceledAs, Spoke, Serves, CanceledFields
  <2>2. \A w \in Clients :
        /\ client'[w].session = client[w].session
    BY <1>18 DEF CancelsTurn, CanceledAs, Spoke, Serves, CanceledFields
  <2> QED  BY <1>18, <2>1, <2>2 DEF CancelsTurn, Serves
<1>19. ASSUME NEW c \in Clients, CancelsAlone(c) PROVE Entries'
  BY <1>19 DEF CancelsAlone, Spoke, Serves
<1>20. ASSUME NEW c \in Clients, Breaks(c) PROVE Entries'
  <2>1. \A x \in Clients :
        /\ turn'[x].stage = turn[x].stage
    BY <1>20 DEF Breaks, CanceledAs, Broke, Serves, CanceledFields
  <2>2. \A w \in Clients :
        /\ client'[w].session = client[w].session
    BY <1>20 DEF Breaks, CanceledAs, Broke, Serves, CanceledFields
  <2> QED  BY <1>20, <2>1, <2>2 DEF Breaks, Serves
<1>21. ASSUME NEW c \in Clients, BeginsToRestore(c) PROVE Entries'
  BY <1>21 DEF BeginsToRestore, Staged
<1>22. ASSUME NEW c \in Clients, Enqueues(c) PROVE Entries'
  BY <1>22 DEF Enqueues, Staged, Queued, EntersSlot
<1>23. ASSUME NEW c \in Clients, IsRestored(c) PROVE Entries'
  BY <1>23 DEF IsRestored, Prepared, Queued, EntersSlot
<1>24. ASSUME NEW c \in Clients, IsNotRestored(c) PROVE Entries'
  BY <1>24 DEF IsNotRestored, Ended, DiskAt, Finishes, RolledBack, TableAt, Left,
    Heard, AfterOutcome
<1>25. ASSUME NEW c \in Clients, IsNext(c) PROVE Entries'
  BY <1>25 DEF IsNext, Staged
<1>26. ASSUME NEW c \in Clients, Drives(c) PROVE Entries'
  BY <1>26 DEF Drives, Staged
<1>27. ASSUME NEW c \in Clients, RunIsOver(c) PROVE Entries'
  BY <1>27 DEF RunIsOver, Ended, Finishes, RequestToken, TableAt, Left, Heard,
    AfterOutcome
<1>28. ASSUME NEW c \in Clients, StartIsCanceled(c) PROVE Entries'
  <2>1. \E pc \in {"done", "failing"} : Heard(table[Session(c)], FALSE, c, pc)
    BY <1>28 DEF StartIsCanceled
  <2>2. \A w \in Clients : client'[w].session = client[w].session
    BY <2>1 DEF Heard
  <2>3. turn[c].stage = "ensuring" /\ Left(c) /\ TableAt(Session(c), None) /\ UNCHANGED daemon
    BY <1>28 DEF StartIsCanceled
  <2>4. \A x \in Clients : turn'[x].stage = IF x = c THEN "ended" ELSE turn[x].stage
    BY <2>3 DEF Left
  <2>5. \A s \in Sessions : table'[s] = IF s = Session(c) THEN None ELSE table[s]
    BY <2>3 DEF TableAt
  <2>6. ASSUME NEW s \in Sessions, table'[s] # None
        PROVE  client'[table[s]].session = s /\ turn'[table[s]].stage \notin {"none", "refused"}
    BY <2>2, <2>4, <2>5, <2>6
  <2>7. ASSUME daemon' \in {"serving", "ending"}, NEW x \in Clients, InFlight(x)'
        PROVE  table'[Session(x)'] = x
    BY <2>2, <2>3, <2>4, <2>5, <2>7
  <2> QED  BY <2>5, <2>6, <2>7
<1>29. ASSUME NEW c \in Clients, Leaks(c) PROVE Entries'
  BY <1>29 DEF Leaks, Stopped
<1>30. ASSUME NEW c \in Clients, PreparationIsCanceled(c) PROVE Entries'
  BY SMTT(30), <1>30 DEF PreparationIsCanceled, Ended, Finishes, TableAt, Left, Heard,
    AfterOutcome
<1>31. ASSUME NEW c \in Clients, PreparationIsKilled(c) PROVE Entries'
  BY <1>31 DEF PreparationIsKilled, Stopped
<1>32. ASSUME NEW c \in Clients, IsStruck(c) PROVE Entries'
  BY <1>32 DEF IsStruck, Struck
<1>33. ASSUME NEW c \in Clients, IsClosed(c) PROVE Entries'
  BY <1>33 DEF IsClosed, Closed, Learned, Ended, AfterOutcome
<1>34. ASSUME NEW c \in Clients, IsAbandoned(c) PROVE Entries'
  BY <1>34 DEF IsAbandoned, Shot
<1> QED
  BY <1>1, <1>2, <1>3, <1>4, <1>5, <1>6, <1>7, <1>8, <1>9, <1>10, <1>11, <1>12, <1>13,
    <1>14, <1>15, <1>16, <1>17, <1>18, <1>19, <1>20, <1>21, <1>22, <1>23, <1>24,
    <1>25, <1>26, <1>27, <1>28, <1>29, <1>30, <1>31, <1>32, <1>33, <1>34 DEF Effect

\* A turn that has claimed is the turn meta.json counts, as long as the table is
\* there to keep another one out.
LEMMA ClaimedStep ==
  ASSUME Members, Backups, Numbered, Created, Dispatching, Fresh, Waiting, Listed,
         Entries, Claimed, Effect PROVE Claimed'
<1> USE DEF Members, Claimed, Session, Live, Entries, InFlight, Deferred
<1>1. ASSUME Quiet PROVE Claimed'
  BY <1>1 DEF Quiet
<1>2. ASSUME ShutsDown PROVE Claimed'
  BY <1>2 DEF ShutsDown
<1>3. ASSUME IsCleared PROVE Claimed'
  BY <1>3 DEF IsCleared
<1>4. ASSUME IsGone PROVE Claimed'
  BY <1>4 DEF IsGone
<1>5. ASSUME NEW c \in Clients, Creates(c) PROVE Claimed'
  BY <1>5 DEF Creates, Began, DiskAt, Created, Fresh, Untouched
<1>6. ASSUME NEW c \in Clients, Continues(c) PROVE Claimed'
  BY <1>6 DEF Continues, Began
<1>7. ASSUME NEW c \in Clients, Observes(c) PROVE Claimed'
  BY <1>7 DEF Observes, Began
<1>8. ASSUME NEW c \in Clients, Goes(c) PROVE Claimed'
  <2>1. \A w \in Clients :
        /\ client'[w].command = client[w].command
        /\ client'[w].session = client[w].session
    BY <1>8 DEF Goes, Parted, Spoke
  <2>2. \A x \in Clients :
        /\ turn'[x].stage = turn[x].stage
        /\ turn'[x].claimed = turn[x].claimed
        /\ turn'[x].token = turn[x].token
    BY <1>8 DEF Goes, Parted, Spoke
  <2> QED  BY <1>8, <2>1, <2>2 DEF Goes
<1>9. ASSUME NEW c \in Clients, FailsSession(c) PROVE Claimed'
  BY <1>9 DEF FailsSession, Spoke, Ended
<1>10. ASSUME NEW c \in Clients, IsLost(c) PROVE Claimed'
  <2>1. \A w \in Clients :
        /\ client'[w].command = client[w].command
        /\ client'[w].session = client[w].session
    BY <1>10 DEF IsLost, Parted, Spoke, AfterOutcome
  <2>2. \A x \in Clients :
        /\ turn'[x].stage = turn[x].stage
        /\ turn'[x].claimed = turn[x].claimed
        /\ turn'[x].token = turn[x].token
    BY <1>10 DEF IsLost, Parted, Spoke, AfterOutcome
  <2> QED  BY <1>10, <2>1, <2>2 DEF IsLost
<1>11. ASSUME NEW c \in Clients, IsRefused(c) PROVE Claimed'
  <2>1. daemon \in {"serving", "ending"} /\ table[Session(c)] = None =>
        \A x \in Clients : InFlight(x) => Session(x) # Session(c)
    BY DaemonAssumption DEF Entries, Members, Session
  <2>2. \A z \in Sessions : disk'[z].turns # disk[z].turns => z = Session(c) /\ table[Session(c)] = None
    BY <1>11 DEF IsRefused, DiskAt
  <2>3. turn' = turn /\ daemon' = daemon
    BY <1>11 DEF IsRefused
  <2>4. \A x \in Clients :
        /\ client'[x].session = client[x].session
        /\ client'[x].command = client[x].command
    BY <1>11 DEF IsRefused, Spoke
  <2> QED  BY <2>1, <2>2, <2>3, <2>4
<1>12. ASSUME NEW c \in Clients, StartsNext(c) PROVE Claimed'
  <2>1. daemon \in {"serving", "ending"} /\ table[Session(c)] = None =>
        \A x \in Clients : InFlight(x) => Session(x) # Session(c)
    BY DaemonAssumption DEF Entries, Members, Session
  <2>2. table[Session(c)] = None
    BY <1>12 DEF StartsNext
  <2>3. \A z \in Sessions : z # Session(c) => disk'[z] = disk[z]
    BY <1>12 DEF StartsNext, DiskAt
  <2>4. daemon' = daemon /\ ~turn[c].claimed /\ turn[c].token = 0
    BY <1>12 DEF StartsNext, Fresh, Untouched
  <2>5. \A x \in Clients :
        /\ client'[x].session = client[x].session
        /\ client'[x].command = client[x].command
    BY <1>12 DEF StartsNext, Spoke
  <2>6. \A x \in Clients :
        /\ turn'[x].stage = IF x = c THEN "ensuring" ELSE turn[x].stage
        /\ turn'[x].claimed = turn[x].claimed /\ turn'[x].token = turn[x].token
    BY <1>12 DEF StartsNext, Entered
  <2> QED  BY <2>1, <2>2, <2>3, <2>4, <2>5, <2>6
<1>13. ASSUME NEW c \in Clients, StartsFirst(c) PROVE Claimed'
  <2>1. daemon \in {"serving", "ending"} /\ table[Session(c)] = None =>
        \A x \in Clients : InFlight(x) => Session(x) # Session(c)
    BY DaemonAssumption DEF Entries, Members, Session
  <2>2. table[Session(c)] = None
    BY <1>13 DEF StartsFirst
  <2>3. disk' = disk
    BY <1>13 DEF StartsFirst
  <2>4. daemon' = daemon /\ ~turn[c].claimed /\ turn[c].token = 0
    BY <1>13 DEF StartsFirst, Fresh, Untouched
  <2>5. \A x \in Clients :
        /\ client'[x].session = client[x].session
        /\ client'[x].command = client[x].command
    BY <1>13 DEF StartsFirst, Spoke
  <2>6. \A x \in Clients :
        /\ turn'[x].stage = IF x = c THEN "ensuring" ELSE turn[x].stage
        /\ turn'[x].claimed = turn[x].claimed /\ turn'[x].token = turn[x].token
    BY <1>13 DEF StartsFirst, Entered
  <2> QED  BY <2>1, <2>2, <2>3, <2>4, <2>5, <2>6
<1>14. ASSUME NEW c \in Clients, IsAccepted(c) PROVE Claimed'
  BY <1>14 DEF IsAccepted, Claiming, Reached, Fresh, Untouched, Created, Numbered
<1>15. ASSUME NEW c \in Clients, StartIsUndone(c) PROVE Claimed'
  <2>1. \A x \in Clients :
        /\ turn'[x].stage = IF x = c THEN "refused" ELSE turn[x].stage
        /\ turn'[x].claimed = turn[x].claimed
        /\ turn'[x].token = turn[x].token
    BY <1>15 DEF StartIsUndone, Stopped
  <2>2. Advanced(c) /\ Settled(c) /\ turn[c].stage # "none"
    BY <1>15, Endings
  <2> QED  BY <1>15, <2>1, <2>2 DEF StartIsUndone, Advanced, Settled
<1>16. ASSUME NEW c \in Clients, Joins(c) PROVE Claimed'
  <2>1. \A x \in Clients :
        /\ turn'[x].stage = turn[x].stage
        /\ turn'[x].claimed = turn[x].claimed
        /\ turn'[x].token = turn[x].token
    BY <1>16 DEF Joins, Joined, Spoke, Serves
  <2>2. \A w \in Clients :
        /\ client'[w].command = client[w].command
        /\ client'[w].session = client[w].session
    BY <1>16 DEF Joins, Joined, Spoke, Serves
  <2> QED  BY <1>16, <2>1, <2>2 DEF Joins, Serves
<1>17. ASSUME NEW c \in Clients, FindsNothing(c) PROVE Claimed'
  BY <1>17 DEF FindsNothing, Spoke, Serves
<1>18. ASSUME NEW c \in Clients, CancelsTurn(c) PROVE Claimed'
  <2>1. /\ Reaches(table[Session(c)])
        /\ table[Session(c)] # None => turn[table[Session(c)]].stage \notin {"none", "refused"}
    BY <1>18, Cancellations
  <2> QED  BY <1>18, <2>1 DEF CancelsTurn, Reaches, Spoke
<1>19. ASSUME NEW c \in Clients, CancelsAlone(c) PROVE Claimed'
  BY <1>19 DEF CancelsAlone, Spoke, Serves
<1>20. ASSUME NEW c \in Clients, Breaks(c) PROVE Claimed'
  <2>1. /\ Reaches(table[Session(c)])
        /\ table[Session(c)] # None => turn[table[Session(c)]].stage \notin {"none", "refused"}
    BY <1>20, Cancellations
  <2> QED  BY <1>20, <2>1 DEF Breaks, Reaches, Broke
<1>21. ASSUME NEW c \in Clients, BeginsToRestore(c) PROVE Claimed'
  BY <1>21 DEF BeginsToRestore, Staged
<1>22. ASSUME NEW c \in Clients, Enqueues(c) PROVE Claimed'
  BY <1>22 DEF Enqueues, Staged, Queued, EntersSlot
<1>23. ASSUME NEW c \in Clients, IsRestored(c) PROVE Claimed'
  BY <1>23 DEF IsRestored, Prepared, Queued, EntersSlot
<1>24. ASSUME NEW c \in Clients, IsNotRestored(c) PROVE Claimed'
  <2>1. \A x \in Clients :
        /\ turn'[x].stage = IF x = c THEN "ended" ELSE turn[x].stage
        /\ turn'[x].claimed = turn[x].claimed
        /\ turn'[x].token = turn[x].token
    BY <1>24 DEF IsNotRestored, Finishes, Left
  <2>2. Advanced(c) /\ Settled(c) /\ turn[c].stage # "none"
    BY <1>24, Endings
  <2> QED  BY <1>24, <2>1, <2>2 DEF IsNotRestored, Finishes, Advanced, Settled
<1>25. ASSUME NEW c \in Clients, IsNext(c) PROVE Claimed'
  BY <1>25 DEF IsNext, Staged
<1>26. ASSUME NEW c \in Clients, Drives(c) PROVE Claimed'
  BY <1>26 DEF Drives, Staged
<1>27. ASSUME NEW c \in Clients, RunIsOver(c) PROVE Claimed'
  <2>1. \A x \in Clients :
        /\ turn'[x].stage = IF x = c THEN "ended" ELSE turn[x].stage
        /\ turn'[x].claimed = turn[x].claimed
        /\ turn'[x].token = turn[x].token
    BY <1>27 DEF RunIsOver, Finishes, Left
  <2>2. Advanced(c) /\ Settled(c) /\ turn[c].stage # "none"
    BY <1>27, Endings
  <2> QED  BY SMTT(30), <1>27, <2>1, <2>2 DEF RunIsOver, Finishes, Advanced, Settled
<1>28. ASSUME NEW c \in Clients, StartIsCanceled(c) PROVE Claimed'
  <2>1. \A x \in Clients :
        /\ turn'[x].stage = IF x = c THEN "ended" ELSE turn[x].stage
        /\ turn'[x].claimed = turn[x].claimed
        /\ turn'[x].token = turn[x].token
    BY <1>28 DEF StartIsCanceled, Left
  <2>2. Advanced(c) /\ Settled(c) /\ turn[c].stage # "none"
    BY <1>28, Endings
  <2> QED  BY SMTT(30), <1>28, <2>1, <2>2 DEF StartIsCanceled, Advanced, Settled
<1>29. ASSUME NEW c \in Clients, Leaks(c) PROVE Claimed'
  BY <1>29 DEF Leaks, Stopped
<1>30. ASSUME NEW c \in Clients, PreparationIsCanceled(c) PROVE Claimed'
  <2>1. \A x \in Clients :
        /\ turn'[x].stage = IF x = c THEN "ended" ELSE turn[x].stage
        /\ turn'[x].claimed = turn[x].claimed
        /\ turn'[x].token = turn[x].token
    BY <1>30 DEF PreparationIsCanceled, Finishes, Left
  <2>2. Advanced(c) /\ Settled(c) /\ turn[c].stage # "none"
    BY <1>30, Endings
  <2> QED  BY SMTT(30), <1>30, <2>1, <2>2 DEF PreparationIsCanceled, Finishes, Advanced, Settled
<1>31. ASSUME NEW c \in Clients, PreparationIsKilled(c) PROVE Claimed'
  BY <1>31 DEF PreparationIsKilled, Stopped
<1>32. ASSUME NEW c \in Clients, IsStruck(c) PROVE Claimed'
  BY <1>32 DEF IsStruck, Struck
<1>33. ASSUME NEW c \in Clients, IsClosed(c) PROVE Claimed'
  <2>1. \A x \in Clients :
        /\ turn'[x].stage = IF x = c THEN "ended" ELSE turn[x].stage
        /\ turn'[x].claimed = turn[x].claimed /\ turn'[x].token = turn[x].token
    BY <1>33 DEF IsClosed, Closed
  <2>2. \A x \in Clients : client'[x].session = client[x].session /\ client'[x].command = client[x].command
    BY <1>33 DEF IsClosed, Learned
  <2>3. \A z \in Sessions : disk'[z].turns = disk[z].turns
    BY <1>33 DEF IsClosed, Ended
  <2> QED  BY SMTT(30), <1>33, <2>1, <2>2, <2>3, Heads DEF IsClosed
<1>34. ASSUME NEW c \in Clients, IsAbandoned(c) PROVE Claimed'
  BY <1>34 DEF IsAbandoned, Shot
<1> QED
  BY <1>1, <1>2, <1>3, <1>4, <1>5, <1>6, <1>7, <1>8, <1>9, <1>10, <1>11, <1>12, <1>13,
    <1>14, <1>15, <1>16, <1>17, <1>18, <1>19, <1>20, <1>21, <1>22, <1>23, <1>24,
    <1>25, <1>26, <1>27, <1>28, <1>29, <1>30, <1>31, <1>32, <1>33, <1>34 DEF Effect

\* The first turn of a session has it running as turn one until it ends,
LEMMA OnDiskStep ==
  ASSUME Members, Backups, Numbered, Created, Dispatching, Fresh, Waiting, Listed,
         Entries, Claimed, OnDisk, Reported, NoneFollows, Opening, OneRun, Effect
         PROVE OnDisk'
<1> USE DEF Members, OnDisk, First, Session, Live
<1>1. ASSUME Quiet PROVE OnDisk'
  BY <1>1 DEF Quiet
<1>2. ASSUME ShutsDown PROVE OnDisk'
  BY <1>2 DEF ShutsDown
<1>3. ASSUME IsCleared PROVE OnDisk'
  BY <1>3 DEF IsCleared
<1>4. ASSUME IsGone PROVE OnDisk'
  BY <1>4 DEF IsGone
<1>5. ASSUME NEW c \in Clients, Creates(c) PROVE OnDisk'
  BY <1>5 DEF Creates, Began, DiskAt
<1>6. ASSUME NEW c \in Clients, Continues(c) PROVE OnDisk'
  BY <1>6 DEF Continues, Began
<1>7. ASSUME NEW c \in Clients, Observes(c) PROVE OnDisk'
  BY <1>7 DEF Observes, Began
<1>8. ASSUME NEW c \in Clients, Goes(c) PROVE OnDisk'
  <2>1. \A w \in Clients :
        /\ client'[w].command = client[w].command
        /\ client'[w].session = client[w].session
    BY <1>8 DEF Goes, Parted, Spoke
  <2>2. \A x \in Clients :
        /\ turn'[x].stage = turn[x].stage
        /\ turn'[x].claimed = turn[x].claimed
    BY <1>8 DEF Goes, Parted, Spoke
  <2> QED  BY <1>8, <2>1, <2>2 DEF Goes
<1>9. ASSUME NEW c \in Clients, FailsSession(c) PROVE OnDisk'
  <2>1. client[c].pc \in {"sending", "failing"}
    BY <1>9 DEF FailsSession
  <2>2. \A x \in Clients : First(x) =>
        Session(x) # Session(c) /\ x # c
    BY <2>1, Alone DEF First
  <2>3. \A x \in Clients :
        /\ client'[x].session = client[x].session /\ client'[x].command = client[x].command
        /\ x # c => client'[x].pc = client[x].pc
        /\ client[c].pc # "idle"
    BY <1>9 DEF FailsSession, Spoke
  <2>4. turn' = turn
    BY <1>9 DEF FailsSession
  <2>5. First(c)' => First(c)
    BY <1>9 DEF FailsSession, Spoke, First, Live
  <2>6. \A z \in Sessions : z # Session(c) =>
        disk'[z].turns = disk[z].turns /\ disk'[z].state = disk[z].state
    BY <1>9 DEF FailsSession, Ended
  <2> QED  BY <2>1, <2>2, <2>3, <2>4, <2>5, <2>6
<1>10. ASSUME NEW c \in Clients, IsLost(c) PROVE OnDisk'
  <2>1. \A w \in Clients :
        /\ client'[w].command = client[w].command
        /\ client'[w].session = client[w].session
    BY <1>10 DEF IsLost, Parted, Spoke, AfterOutcome
  <2>2. \A x \in Clients :
        /\ turn'[x].stage = turn[x].stage
        /\ turn'[x].claimed = turn[x].claimed
    BY <1>10 DEF IsLost, Parted, Spoke, AfterOutcome
  <2> QED  BY <1>10, <2>1, <2>2 DEF IsLost
<1>11. ASSUME NEW c \in Clients, IsRefused(c) PROVE OnDisk'
  <2>1. client[c].pc \in {"sending", "failing"}
    BY <1>11 DEF IsRefused
  <2>2. \A x \in Clients : First(x) =>
        Session(x) # Session(c) /\ x # c
    BY <2>1, Alone DEF First
  <2>3. \A x \in Clients :
        /\ client'[x].session = client[x].session /\ client'[x].command = client[x].command
        /\ x # c => client'[x].pc = client[x].pc
        /\ client[c].pc # "idle"
    BY <1>11 DEF IsRefused, Spoke
  <2>4. turn' = turn
    BY <1>11 DEF IsRefused
  <2>5. First(c)' => First(c)
    BY <1>11 DEF IsRefused, Spoke, First, Live
  <2>6. \A z \in Sessions : z # Session(c) =>
        disk'[z].turns = disk[z].turns /\ disk'[z].state = disk[z].state
    BY <1>11 DEF IsRefused, DiskAt
  <2> QED  BY <2>1, <2>2, <2>3, <2>4, <2>5, <2>6
<1>12. ASSUME NEW c \in Clients, StartsNext(c) PROVE OnDisk'
  <2>1. client[c].pc \in {"sending", "failing"}
    BY <1>12 DEF StartsNext
  <2>2. \A x \in Clients : First(x) =>
        Session(x) # Session(c) /\ x # c
    BY <2>1, Alone DEF First
  <2>3. \A x \in Clients :
        /\ client'[x].session = client[x].session /\ client'[x].command = client[x].command
        /\ x # c => client'[x].pc = client[x].pc
        /\ client[c].pc # "idle"
    BY <1>12 DEF StartsNext, Spoke
  <2>4. \A x \in Clients : x # c => turn'[x].stage = turn[x].stage /\ turn'[x].token = turn[x].token
        /\ (turn'[x].claimed <=> turn[x].claimed)
    BY <1>12 DEF StartsNext, Entered
  <2>5. ~First(c)'
    BY <1>12 DEF StartsNext, Entered, First, Fresh, Untouched
  <2>6. \A z \in Sessions : z # Session(c) =>
        disk'[z].turns = disk[z].turns /\ disk'[z].state = disk[z].state
    BY <1>12 DEF StartsNext, DiskAt
  <2> QED  BY <2>1, <2>2, <2>3, <2>4, <2>5, <2>6
<1>13. ASSUME NEW c \in Clients, StartsFirst(c) PROVE OnDisk'
  <2>1. client[c].pc \in {"sending", "failing"}
    BY <1>13 DEF StartsFirst
  <2>2. \A x \in Clients : First(x) =>
        Session(x) # Session(c) /\ x # c
    BY <2>1, Alone DEF First
  <2>3. \A x \in Clients :
        /\ client'[x].session = client[x].session /\ client'[x].command = client[x].command
        /\ x # c => client'[x].pc = client[x].pc
        /\ client[c].pc # "idle"
    BY <1>13 DEF StartsFirst, Spoke
  <2>4. \A x \in Clients : x # c => turn'[x].stage = turn[x].stage /\ turn'[x].token = turn[x].token
        /\ (turn'[x].claimed <=> turn[x].claimed)
    BY <1>13 DEF StartsFirst, Entered
  <2>5. ~First(c)'
    BY <1>13 DEF StartsFirst, Entered, First, Fresh, Untouched
  <2>6. \A z \in Sessions : z # Session(c) =>
        disk'[z].turns = disk[z].turns /\ disk'[z].state = disk[z].state
    BY <1>13 DEF StartsFirst, DiskAt
  <2> QED  BY <2>1, <2>2, <2>3, <2>4, <2>5, <2>6
<1>14. ASSUME NEW c \in Clients, IsAccepted(c) PROVE OnDisk'
  <2>1. client[c].pc \in {"starting", "left"}
    BY <1>14 DEF IsAccepted, Fresh
  <2>2. \A x \in Clients : x # c => turn'[x].stage = turn[x].stage /\ turn'[x].token = turn[x].token
        /\ (turn'[x].claimed <=> turn[x].claimed)
    BY <1>14 DEF IsAccepted, Claiming
  <2>3. turn'[c].token = disk[Session(c)].turns
    BY <1>14 DEF IsAccepted, Claiming
  <2>4. \A x \in Clients :
        /\ client'[x].session = client[x].session /\ client'[x].command = client[x].command
        /\ x # c => client'[x].pc = client[x].pc
        /\ client'[c].pc \in {"left", "replied"}
    BY <1>14 DEF IsAccepted, Reached, Fresh
  <2>5. Deferred(c) \/ disk[Session(c)].state = "starting"
    BY <1>14 DEF IsAccepted
  <2>6. \A z \in Sessions :
        /\ disk'[z].turns = disk[z].turns
        /\ disk'[z].state = IF z = Session(c) /\ ~Deferred(c) THEN "running" ELSE disk[z].state
    BY <1>14 DEF IsAccepted
  <2> QED  BY <2>1, <2>2, <2>3, <2>4, <2>5, <2>6 DEF Opening, Deferred
<1>15. ASSUME NEW c \in Clients, StartIsUndone(c) PROVE OnDisk'
  <2>1. Advanced(c) /\ Settled(c) /\ turn[c].stage # "none"
    BY <1>15, Endings
  <2>2. \A x \in Clients : First(x) =>
        /\ Session(x) # Session(c) \/ (x = c /\ Live(c))
        /\ disk[Session(x)].turns = 1 /\ disk[Session(x)].state = "running"
    BY <2>1, Alone DEF OnDisk, First
  <2>3. \A x \in Clients : First(x)' => First(x) /\ x # c
    BY <1>15, <2>1 DEF StartIsUndone, Advanced, First, Live, Stopped
  <2> QED  BY <2>1, <2>2, <2>3 DEF Advanced, Settled, OnDisk
<1>16. ASSUME NEW c \in Clients, Joins(c) PROVE OnDisk'
  <2>1. \A x \in Clients :
        /\ turn'[x].stage = turn[x].stage
        /\ turn'[x].claimed = turn[x].claimed
    BY <1>16 DEF Joins, Joined, Spoke, Serves
  <2>2. \A w \in Clients :
        /\ client'[w].command = client[w].command
        /\ client'[w].session = client[w].session
    BY <1>16 DEF Joins, Joined, Spoke, Serves
  <2> QED  BY <1>16, <2>1, <2>2 DEF Joins, Serves
<1>17. ASSUME NEW c \in Clients, FindsNothing(c) PROVE OnDisk'
  BY <1>17 DEF FindsNothing, Spoke, Serves
<1>18. ASSUME NEW c \in Clients, CancelsTurn(c) PROVE OnDisk'
  <2>1. /\ Reaches(table[Session(c)])
        /\ table[Session(c)] # None => turn[table[Session(c)]].stage \notin {"none", "refused"}
    BY <1>18, Cancellations
  <2> QED  BY <1>18, <2>1 DEF CancelsTurn, Reaches, Spoke
<1>19. ASSUME NEW c \in Clients, CancelsAlone(c) PROVE OnDisk'
  BY <1>19 DEF CancelsAlone, Spoke, Serves
<1>20. ASSUME NEW c \in Clients, Breaks(c) PROVE OnDisk'
  <2>1. /\ Reaches(table[Session(c)])
        /\ table[Session(c)] # None => turn[table[Session(c)]].stage \notin {"none", "refused"}
    BY <1>20, Cancellations
  <2> QED  BY <1>20, <2>1 DEF Breaks, Reaches, Broke
<1>21. ASSUME NEW c \in Clients, BeginsToRestore(c) PROVE OnDisk'
  BY <1>21 DEF BeginsToRestore, Staged
<1>22. ASSUME NEW c \in Clients, Enqueues(c) PROVE OnDisk'
  BY <1>22 DEF Enqueues, Staged, Queued, EntersSlot
<1>23. ASSUME NEW c \in Clients, IsRestored(c) PROVE OnDisk'
  BY <1>23 DEF IsRestored, Prepared, Queued, EntersSlot
<1>24. ASSUME NEW c \in Clients, IsNotRestored(c) PROVE OnDisk'
  <2>1. Advanced(c) /\ Settled(c) /\ turn[c].stage # "none"
    BY <1>24, Endings
  <2>2. \A x \in Clients : First(x) =>
        /\ Session(x) # Session(c) \/ (x = c /\ Live(c))
        /\ disk[Session(x)].turns = 1 /\ disk[Session(x)].state = "running"
    BY <2>1, Alone DEF OnDisk, First
  <2>3. \A x \in Clients : First(x)' => First(x) /\ x # c
    BY <1>24, <2>1 DEF IsNotRestored, Advanced, First, Live, Left, Finishes
  <2> QED  BY <2>1, <2>2, <2>3 DEF Advanced, Settled, OnDisk
<1>25. ASSUME NEW c \in Clients, IsNext(c) PROVE OnDisk'
  BY <1>25 DEF IsNext, Staged
<1>26. ASSUME NEW c \in Clients, Drives(c) PROVE OnDisk'
  BY <1>26 DEF Drives, Staged
<1>27. ASSUME NEW c \in Clients, RunIsOver(c) PROVE OnDisk'
  <2>1. Advanced(c) /\ Settled(c) /\ turn[c].stage # "none"
    BY <1>27, Endings
  <2>2. \A x \in Clients : First(x) =>
        /\ Session(x) # Session(c) \/ (x = c /\ Live(c))
        /\ disk[Session(x)].turns = 1 /\ disk[Session(x)].state = "running"
    BY <2>1, Alone DEF OnDisk, First
  <2>3. \A x \in Clients : First(x)' => First(x) /\ x # c
    BY <1>27, <2>1 DEF RunIsOver, Advanced, First, Live, Left, Finishes
  <2> QED  BY <2>1, <2>2, <2>3 DEF Advanced, Settled, OnDisk
<1>28. ASSUME NEW c \in Clients, StartIsCanceled(c) PROVE OnDisk'
  <2>1. Advanced(c) /\ Settled(c) /\ turn[c].stage # "none"
    BY <1>28, Endings
  <2>2. \A x \in Clients : First(x) =>
        /\ Session(x) # Session(c) \/ (x = c /\ Live(c))
        /\ disk[Session(x)].turns = 1 /\ disk[Session(x)].state = "running"
    BY <2>1, Alone DEF OnDisk, First
  <2>3. \A x \in Clients : First(x)' => First(x) /\ x # c
    BY <1>28, <2>1 DEF StartIsCanceled, Advanced, First, Live, Left
  <2> QED  BY <2>1, <2>2, <2>3 DEF Advanced, Settled, OnDisk
<1>29. ASSUME NEW c \in Clients, Leaks(c) PROVE OnDisk'
  BY <1>29 DEF Leaks, Stopped
<1>30. ASSUME NEW c \in Clients, PreparationIsCanceled(c) PROVE OnDisk'
  <2>1. Advanced(c) /\ Settled(c) /\ turn[c].stage # "none"
    BY <1>30, Endings
  <2>2. \A x \in Clients : First(x) =>
        /\ Session(x) # Session(c) \/ (x = c /\ Live(c))
        /\ disk[Session(x)].turns = 1 /\ disk[Session(x)].state = "running"
    BY <2>1, Alone DEF OnDisk, First
  <2>3. \A x \in Clients : First(x)' => First(x) /\ x # c
    BY <1>30, <2>1 DEF PreparationIsCanceled, Advanced, First, Live, Left, Finishes
  <2> QED  BY <2>1, <2>2, <2>3 DEF Advanced, Settled, OnDisk
<1>31. ASSUME NEW c \in Clients, PreparationIsKilled(c) PROVE OnDisk'
  BY <1>31 DEF PreparationIsKilled, Stopped
<1>32. ASSUME NEW c \in Clients, IsStruck(c) PROVE OnDisk'
  BY <1>32 DEF IsStruck, Struck
<1>33. ASSUME NEW c \in Clients, IsClosed(c) PROVE OnDisk'
  <2>1. Advanced(c) /\ Settled(c) /\ turn[c].stage # "none"
    BY <1>33, Endings
  <2>2. \A x \in Clients : First(x) =>
        /\ Session(x) # Session(c) \/ (x = c /\ Live(c))
        /\ disk[Session(x)].turns = 1 /\ disk[Session(x)].state = "running"
    BY <2>1, Alone DEF OnDisk, First
  <2>3. \A x \in Clients : First(x)' => First(x) /\ x # c
    BY <1>33, <2>1 DEF IsClosed, Advanced, First, Live, Closed
  <2> QED  BY <2>1, <2>2, <2>3 DEF Advanced, Settled, OnDisk
<1>34. ASSUME NEW c \in Clients, IsAbandoned(c) PROVE OnDisk'
  BY <1>34 DEF IsAbandoned, Shot
<1> QED
  BY <1>1, <1>2, <1>3, <1>4, <1>5, <1>6, <1>7, <1>8, <1>9, <1>10, <1>11, <1>12, <1>13,
    <1>14, <1>15, <1>16, <1>17, <1>18, <1>19, <1>20, <1>21, <1>22, <1>23, <1>24,
    <1>25, <1>26, <1>27, <1>28, <1>29, <1>30, <1>31, <1>32, <1>33, <1>34 DEF Effect

\* its client has not failed meanwhile,
LEMMA ReportedStep ==
  ASSUME Members, Backups, Numbered, Created, Dispatching, Fresh, Waiting, Listed,
         Entries, Claimed, OnDisk, Reported, NoneFollows, Opening, OneRun, Effect
         PROVE Reported'
<1> USE DEF Members, Reported, First, Session, Live
<1>1. ASSUME Quiet PROVE Reported'
  BY <1>1 DEF Quiet
<1>2. ASSUME ShutsDown PROVE Reported'
  BY <1>2 DEF ShutsDown
<1>3. ASSUME IsCleared PROVE Reported'
  BY <1>3 DEF IsCleared
<1>4. ASSUME IsGone PROVE Reported'
  BY <1>4 DEF IsGone
<1>5. ASSUME NEW c \in Clients, Creates(c) PROVE Reported'
  BY <1>5 DEF Creates, Began, DiskAt
<1>6. ASSUME NEW c \in Clients, Continues(c) PROVE Reported'
  BY <1>6 DEF Continues, Began
<1>7. ASSUME NEW c \in Clients, Observes(c) PROVE Reported'
  BY <1>7 DEF Observes, Began
<1>8. ASSUME NEW c \in Clients, Goes(c) PROVE Reported'
  <2>1. \A w \in Clients :
        /\ client'[w].command = client[w].command
        /\ client'[w].session = client[w].session
        /\ client'[w].pc = IF w = c THEN "left" ELSE client[w].pc
    BY <1>8 DEF Goes, Parted, Spoke
  <2>2. \A x \in Clients :
        /\ turn'[x].stage = turn[x].stage
        /\ turn'[x].claimed = turn[x].claimed
        /\ turn'[x].token = turn[x].token
    BY <1>8 DEF Goes, Parted, Spoke
  <2> QED  BY <1>8, <2>1, <2>2 DEF Goes
<1>9. ASSUME NEW c \in Clients, FailsSession(c) PROVE Reported'
  <2>1. client[c].pc \in {"sending", "failing"}
    BY <1>9 DEF FailsSession
  <2>2. \A x \in Clients : First(x) =>
        Session(x) # Session(c) /\ x # c
    BY <2>1, Alone DEF First
  <2>3. \A x \in Clients :
        /\ client'[x].session = client[x].session /\ client'[x].command = client[x].command
        /\ x # c => client'[x].pc = client[x].pc
        /\ client[c].pc # "idle"
    BY <1>9 DEF FailsSession, Spoke
  <2>4. turn' = turn
    BY <1>9 DEF FailsSession
  <2>5. First(c)' => First(c)
    BY <1>9 DEF FailsSession, Spoke, First, Live
  <2>6. \A z \in Sessions : z # Session(c) =>
        disk'[z].turns = disk[z].turns /\ disk'[z].state = disk[z].state
    BY <1>9 DEF FailsSession, Ended
  <2> QED  BY <2>1, <2>2, <2>3, <2>4, <2>5, <2>6
<1>10. ASSUME NEW c \in Clients, IsLost(c) PROVE Reported'
  <2>1. \A x \in Clients : ~Live(x) /\ turn'[x].stage = turn[x].stage
    BY <1>10 DEF IsLost, Listed, Phases, Parted
  <2> QED  BY <2>1 DEF Live
<1>11. ASSUME NEW c \in Clients, IsRefused(c) PROVE Reported'
  <2>1. client[c].pc \in {"sending", "failing"}
    BY <1>11 DEF IsRefused
  <2>2. \A x \in Clients : First(x) =>
        Session(x) # Session(c) /\ x # c
    BY <2>1, Alone DEF First
  <2>3. \A x \in Clients :
        /\ client'[x].session = client[x].session /\ client'[x].command = client[x].command
        /\ x # c => client'[x].pc = client[x].pc
        /\ client[c].pc # "idle"
    BY <1>11 DEF IsRefused, Spoke
  <2>4. turn' = turn
    BY <1>11 DEF IsRefused
  <2>5. First(c)' => First(c)
    BY <1>11 DEF IsRefused, Spoke, First, Live
  <2>6. \A z \in Sessions : z # Session(c) =>
        disk'[z].turns = disk[z].turns /\ disk'[z].state = disk[z].state
    BY <1>11 DEF IsRefused, DiskAt
  <2> QED  BY <2>1, <2>2, <2>3, <2>4, <2>5, <2>6
<1>12. ASSUME NEW c \in Clients, StartsNext(c) PROVE Reported'
  <2>1. client[c].pc \in {"sending", "failing"}
    BY <1>12 DEF StartsNext
  <2>2. \A x \in Clients : First(x) =>
        Session(x) # Session(c) /\ x # c
    BY <2>1, Alone DEF First
  <2>3. \A x \in Clients :
        /\ client'[x].session = client[x].session /\ client'[x].command = client[x].command
        /\ x # c => client'[x].pc = client[x].pc
        /\ client[c].pc # "idle"
    BY <1>12 DEF StartsNext, Spoke
  <2>4. \A x \in Clients : x # c => turn'[x].stage = turn[x].stage /\ turn'[x].token = turn[x].token
        /\ (turn'[x].claimed <=> turn[x].claimed)
    BY <1>12 DEF StartsNext, Entered
  <2>5. ~First(c)'
    BY <1>12 DEF StartsNext, Entered, First, Fresh, Untouched
  <2>6. \A z \in Sessions : z # Session(c) =>
        disk'[z].turns = disk[z].turns /\ disk'[z].state = disk[z].state
    BY <1>12 DEF StartsNext, DiskAt
  <2> QED  BY <2>1, <2>2, <2>3, <2>4, <2>5, <2>6
<1>13. ASSUME NEW c \in Clients, StartsFirst(c) PROVE Reported'
  <2>1. client[c].pc \in {"sending", "failing"}
    BY <1>13 DEF StartsFirst
  <2>2. \A x \in Clients : First(x) =>
        Session(x) # Session(c) /\ x # c
    BY <2>1, Alone DEF First
  <2>3. \A x \in Clients :
        /\ client'[x].session = client[x].session /\ client'[x].command = client[x].command
        /\ x # c => client'[x].pc = client[x].pc
        /\ client[c].pc # "idle"
    BY <1>13 DEF StartsFirst, Spoke
  <2>4. \A x \in Clients : x # c => turn'[x].stage = turn[x].stage /\ turn'[x].token = turn[x].token
        /\ (turn'[x].claimed <=> turn[x].claimed)
    BY <1>13 DEF StartsFirst, Entered
  <2>5. ~First(c)'
    BY <1>13 DEF StartsFirst, Entered, First, Fresh, Untouched
  <2>6. \A z \in Sessions : z # Session(c) =>
        disk'[z].turns = disk[z].turns /\ disk'[z].state = disk[z].state
    BY <1>13 DEF StartsFirst, DiskAt
  <2> QED  BY <2>1, <2>2, <2>3, <2>4, <2>5, <2>6
<1>14. ASSUME NEW c \in Clients, IsAccepted(c) PROVE Reported'
  <2>1. client[c].pc \in {"starting", "left"}
    BY <1>14 DEF IsAccepted, Fresh
  <2>2. \A x \in Clients : x # c => turn'[x].stage = turn[x].stage /\ turn'[x].token = turn[x].token
        /\ (turn'[x].claimed <=> turn[x].claimed)
    BY <1>14 DEF IsAccepted, Claiming
  <2>3. turn'[c].token = disk[Session(c)].turns
    BY <1>14 DEF IsAccepted, Claiming
  <2>4. \A x \in Clients :
        /\ client'[x].session = client[x].session /\ client'[x].command = client[x].command
        /\ x # c => client'[x].pc = client[x].pc
        /\ client'[c].pc \in {"left", "replied"}
    BY <1>14 DEF IsAccepted, Reached, Fresh
  <2>5. Deferred(c) \/ disk[Session(c)].state = "starting"
    BY <1>14 DEF IsAccepted
  <2>6. \A z \in Sessions :
        /\ disk'[z].turns = disk[z].turns
        /\ disk'[z].state = IF z = Session(c) /\ ~Deferred(c) THEN "running" ELSE disk[z].state
    BY <1>14 DEF IsAccepted
  <2> QED  BY <2>1, <2>2, <2>3, <2>4, <2>5, <2>6 DEF Opening, Deferred
<1>15. ASSUME NEW c \in Clients, StartIsUndone(c) PROVE Reported'
  <2>1. Advanced(c) /\ Settled(c) /\ turn[c].stage # "none"
    BY <1>15, Endings
  <2>2. \A x \in Clients : First(x) =>
        /\ Session(x) # Session(c) \/ (x = c /\ Live(c))
        /\ disk[Session(x)].turns = 1 /\ disk[Session(x)].state = "running"
    BY <2>1, Alone DEF OnDisk, First
  <2>3. \A x \in Clients : First(x)' => First(x) /\ x # c
    BY <1>15, <2>1 DEF StartIsUndone, Advanced, First, Live, Stopped
  <2>4. \A x \in Clients : turn'[x].token = turn[x].token
    BY <1>15 DEF StartIsUndone, Left, Stopped, Closed, Finishes
  <2> QED  BY <2>1, <2>2, <2>3, <2>4 DEF Advanced, Reported
<1>16. ASSUME NEW c \in Clients, Joins(c) PROVE Reported'
  <2>1. \A x \in Clients :
        /\ turn'[x].stage = turn[x].stage
        /\ turn'[x].claimed = turn[x].claimed
        /\ turn'[x].token = turn[x].token
    BY <1>16 DEF Joins, Joined, Spoke, Serves
  <2>2. \A w \in Clients :
        /\ client'[w].command = client[w].command
        /\ client'[w].session = client[w].session
        /\ client'[w].pc = IF w = c THEN "waiting" ELSE client[w].pc
    BY <1>16 DEF Joins, Joined, Spoke, Serves
  <2> QED  BY SMTT(30), <1>16, <2>1, <2>2 DEF Joins, Serves
<1>17. ASSUME NEW c \in Clients, FindsNothing(c) PROVE Reported'
  BY <1>17 DEF FindsNothing, Spoke, Serves
<1>18. ASSUME NEW c \in Clients, CancelsTurn(c) PROVE Reported'
  <2>1. /\ Reaches(table[Session(c)])
        /\ table[Session(c)] # None => turn[table[Session(c)]].stage \notin {"none", "refused"}
    BY <1>18, Cancellations
  <2> QED  BY <1>18, <2>1 DEF CancelsTurn, Reaches, Spoke
<1>19. ASSUME NEW c \in Clients, CancelsAlone(c) PROVE Reported'
  BY <1>19 DEF CancelsAlone, Spoke, Serves
<1>20. ASSUME NEW c \in Clients, Breaks(c) PROVE Reported'
  <2>1. /\ Reaches(table[Session(c)])
        /\ table[Session(c)] # None => turn[table[Session(c)]].stage \notin {"none", "refused"}
    BY <1>20, Cancellations
  <2> QED  BY <1>20, <2>1 DEF Breaks, Reaches, Broke
<1>21. ASSUME NEW c \in Clients, BeginsToRestore(c) PROVE Reported'
  BY <1>21 DEF BeginsToRestore, Staged
<1>22. ASSUME NEW c \in Clients, Enqueues(c) PROVE Reported'
  BY <1>22 DEF Enqueues, Staged, Queued, EntersSlot
<1>23. ASSUME NEW c \in Clients, IsRestored(c) PROVE Reported'
  BY <1>23 DEF IsRestored, Prepared, Queued, EntersSlot
<1>24. ASSUME NEW c \in Clients, IsNotRestored(c) PROVE Reported'
  <2>1. Advanced(c) /\ Settled(c) /\ turn[c].stage # "none"
    BY <1>24, Endings
  <2>2. \A x \in Clients : First(x) =>
        /\ Session(x) # Session(c) \/ (x = c /\ Live(c))
        /\ disk[Session(x)].turns = 1 /\ disk[Session(x)].state = "running"
    BY <2>1, Alone DEF OnDisk, First
  <2>3. \A x \in Clients : First(x)' => First(x) /\ x # c
    BY <1>24, <2>1 DEF IsNotRestored, Advanced, First, Live, Left, Finishes
  <2>4. \A x \in Clients : turn'[x].token = turn[x].token
    BY <1>24 DEF IsNotRestored, Left, Stopped, Closed, Finishes
  <2> QED  BY <2>1, <2>2, <2>3, <2>4 DEF Advanced, Reported
<1>25. ASSUME NEW c \in Clients, IsNext(c) PROVE Reported'
  BY <1>25 DEF IsNext, Staged
<1>26. ASSUME NEW c \in Clients, Drives(c) PROVE Reported'
  BY <1>26 DEF Drives, Staged
<1>27. ASSUME NEW c \in Clients, RunIsOver(c) PROVE Reported'
  <2>1. Advanced(c) /\ Settled(c) /\ turn[c].stage # "none"
    BY <1>27, Endings
  <2>2. \A x \in Clients : First(x) =>
        /\ Session(x) # Session(c) \/ (x = c /\ Live(c))
        /\ disk[Session(x)].turns = 1 /\ disk[Session(x)].state = "running"
    BY <2>1, Alone DEF OnDisk, First
  <2>3. \A x \in Clients : First(x)' => First(x) /\ x # c
    BY <1>27, <2>1 DEF RunIsOver, Advanced, First, Live, Left, Finishes
  <2>4. \A x \in Clients : turn'[x].token = turn[x].token
    BY <1>27 DEF RunIsOver, Left, Stopped, Closed, Finishes
  <2> QED  BY <2>1, <2>2, <2>3, <2>4 DEF Advanced, Reported
<1>28. ASSUME NEW c \in Clients, StartIsCanceled(c) PROVE Reported'
  <2>1. Advanced(c) /\ Settled(c) /\ turn[c].stage # "none"
    BY <1>28, Endings
  <2>2. \A x \in Clients : First(x) =>
        /\ Session(x) # Session(c) \/ (x = c /\ Live(c))
        /\ disk[Session(x)].turns = 1 /\ disk[Session(x)].state = "running"
    BY <2>1, Alone DEF OnDisk, First
  <2>3. \A x \in Clients : First(x)' => First(x) /\ x # c
    BY <1>28, <2>1 DEF StartIsCanceled, Advanced, First, Live, Left
  <2>4. \A x \in Clients : turn'[x].token = turn[x].token
    BY <1>28 DEF StartIsCanceled, Left, Stopped, Closed, Finishes
  <2> QED  BY <2>1, <2>2, <2>3, <2>4 DEF Advanced, Reported
<1>29. ASSUME NEW c \in Clients, Leaks(c) PROVE Reported'
  BY <1>29 DEF Leaks, Stopped
<1>30. ASSUME NEW c \in Clients, PreparationIsCanceled(c) PROVE Reported'
  <2>1. Advanced(c) /\ Settled(c) /\ turn[c].stage # "none"
    BY <1>30, Endings
  <2>2. \A x \in Clients : First(x) =>
        /\ Session(x) # Session(c) \/ (x = c /\ Live(c))
        /\ disk[Session(x)].turns = 1 /\ disk[Session(x)].state = "running"
    BY <2>1, Alone DEF OnDisk, First
  <2>3. \A x \in Clients : First(x)' => First(x) /\ x # c
    BY <1>30, <2>1 DEF PreparationIsCanceled, Advanced, First, Live, Left, Finishes
  <2>4. \A x \in Clients : turn'[x].token = turn[x].token
    BY <1>30 DEF PreparationIsCanceled, Left, Stopped, Closed, Finishes
  <2> QED  BY <2>1, <2>2, <2>3, <2>4 DEF Advanced, Reported
<1>31. ASSUME NEW c \in Clients, PreparationIsKilled(c) PROVE Reported'
  BY <1>31 DEF PreparationIsKilled, Stopped
<1>32. ASSUME NEW c \in Clients, IsStruck(c) PROVE Reported'
  BY <1>32 DEF IsStruck, Struck
<1>33. ASSUME NEW c \in Clients, IsClosed(c) PROVE Reported'
  <2>1. Advanced(c) /\ Settled(c) /\ turn[c].stage # "none"
    BY <1>33, Endings
  <2>2. \A x \in Clients : First(x) =>
        /\ Session(x) # Session(c) \/ (x = c /\ Live(c))
        /\ disk[Session(x)].turns = 1 /\ disk[Session(x)].state = "running"
    BY <2>1, Alone DEF OnDisk, First
  <2>3. \A x \in Clients : First(x)' => First(x) /\ x # c
    BY <1>33, <2>1 DEF IsClosed, Advanced, First, Live, Closed
  <2>4. \A x \in Clients : turn'[x].token = turn[x].token
    BY <1>33 DEF IsClosed, Left, Stopped, Closed, Finishes
  <2> QED  BY <2>1, <2>2, <2>3, <2>4 DEF Advanced, Reported
<1>34. ASSUME NEW c \in Clients, IsAbandoned(c) PROVE Reported'
  BY <1>34 DEF IsAbandoned, Shot
<1> QED
  BY <1>1, <1>2, <1>3, <1>4, <1>5, <1>6, <1>7, <1>8, <1>9, <1>10, <1>11, <1>12, <1>13,
    <1>14, <1>15, <1>16, <1>17, <1>18, <1>19, <1>20, <1>21, <1>22, <1>23, <1>24,
    <1>25, <1>26, <1>27, <1>28, <1>29, <1>30, <1>31, <1>32, <1>33, <1>34 DEF Effect

\* and no continuation has begun.
LEMMA NoneFollowsStep ==
  ASSUME Members, Backups, Numbered, Created, Dispatching, Fresh, Waiting, Listed,
         Entries, Claimed, OnDisk, Reported, NoneFollows, Opening, OneRun, Effect
         PROVE NoneFollows'
<1> USE DEF Members, NoneFollows, First, Session, Live
<1>1. ASSUME Quiet PROVE NoneFollows'
  BY <1>1 DEF Quiet
<1>2. ASSUME ShutsDown PROVE NoneFollows'
  BY <1>2 DEF ShutsDown
<1>3. ASSUME IsCleared PROVE NoneFollows'
  BY <1>3 DEF IsCleared
<1>4. ASSUME IsGone PROVE NoneFollows'
  BY <1>4 DEF IsGone
<1>5. ASSUME NEW c \in Clients, Creates(c) PROVE NoneFollows'
  BY <1>5 DEF Creates, Began, DiskAt
<1>6. ASSUME NEW c \in Clients, Continues(c) PROVE NoneFollows'
  BY <1>6 DEF Continues, Began, Finished, OnDisk
<1>7. ASSUME NEW c \in Clients, Observes(c) PROVE NoneFollows'
  BY <1>7 DEF Observes, Began
<1>8. ASSUME NEW c \in Clients, Goes(c) PROVE NoneFollows'
  <2>1. \A w \in Clients :
        /\ client'[w].command = client[w].command
        /\ client'[w].session = client[w].session
        /\ client'[w].pc = IF w = c THEN "left" ELSE client[w].pc
    BY <1>8 DEF Goes, Parted, Spoke
  <2>2. \A x \in Clients :
        /\ turn'[x].stage = turn[x].stage
        /\ turn'[x].claimed = turn[x].claimed
    BY <1>8 DEF Goes, Parted, Spoke
  <2> QED  BY <1>8, <2>1, <2>2 DEF Goes
<1>9. ASSUME NEW c \in Clients, FailsSession(c) PROVE NoneFollows'
  <2>1. client[c].pc \in {"sending", "failing"}
    BY <1>9 DEF FailsSession
  <2>2. \A x \in Clients : First(x) =>
        Session(x) # Session(c) /\ x # c
    BY <2>1, Alone DEF First
  <2>3. \A x \in Clients :
        /\ client'[x].session = client[x].session /\ client'[x].command = client[x].command
        /\ x # c => client'[x].pc = client[x].pc
        /\ client[c].pc # "idle"
    BY <1>9 DEF FailsSession, Spoke
  <2>4. turn' = turn
    BY <1>9 DEF FailsSession
  <2>5. First(c)' => First(c)
    BY <1>9 DEF FailsSession, Spoke, First, Live
  <2>6. \A z \in Sessions : z # Session(c) =>
        disk'[z].turns = disk[z].turns /\ disk'[z].state = disk[z].state
    BY <1>9 DEF FailsSession, Ended
  <2> QED  BY <2>1, <2>2, <2>3, <2>4, <2>5, <2>6
<1>10. ASSUME NEW c \in Clients, IsLost(c) PROVE NoneFollows'
  <2>1. \A w \in Clients :
        /\ client'[w].command = client[w].command
        /\ client'[w].session = client[w].session
        /\ client'[w].pc = IF w = c THEN AfterOutcome(c, TRUE) ELSE client[w].pc
    BY <1>10 DEF IsLost, Parted, Spoke, AfterOutcome
  <2>2. \A x \in Clients :
        /\ turn'[x].stage = turn[x].stage
        /\ turn'[x].claimed = turn[x].claimed
    BY <1>10 DEF IsLost, Parted, Spoke, AfterOutcome
  <2> QED  BY <1>10, <2>1, <2>2 DEF IsLost, AfterOutcome
<1>11. ASSUME NEW c \in Clients, IsRefused(c) PROVE NoneFollows'
  <2>1. client[c].pc \in {"sending", "failing"}
    BY <1>11 DEF IsRefused
  <2>2. \A x \in Clients : First(x) =>
        Session(x) # Session(c) /\ x # c
    BY <2>1, Alone DEF First
  <2>3. \A x \in Clients :
        /\ client'[x].session = client[x].session /\ client'[x].command = client[x].command
        /\ x # c => client'[x].pc = client[x].pc
        /\ client[c].pc # "idle"
    BY <1>11 DEF IsRefused, Spoke
  <2>4. turn' = turn
    BY <1>11 DEF IsRefused
  <2>5. First(c)' => First(c)
    BY <1>11 DEF IsRefused, Spoke, First, Live
  <2>6. \A z \in Sessions : z # Session(c) =>
        disk'[z].turns = disk[z].turns /\ disk'[z].state = disk[z].state
    BY <1>11 DEF IsRefused, DiskAt
  <2> QED  BY <2>1, <2>2, <2>3, <2>4, <2>5, <2>6
<1>12. ASSUME NEW c \in Clients, StartsNext(c) PROVE NoneFollows'
  <2>1. client[c].pc \in {"sending", "failing"}
    BY <1>12 DEF StartsNext
  <2>2. \A x \in Clients : First(x) =>
        Session(x) # Session(c) /\ x # c
    BY <2>1, Alone DEF First
  <2>3. \A x \in Clients :
        /\ client'[x].session = client[x].session /\ client'[x].command = client[x].command
        /\ x # c => client'[x].pc = client[x].pc
        /\ client[c].pc # "idle"
    BY <1>12 DEF StartsNext, Spoke
  <2>4. \A x \in Clients : x # c => turn'[x].stage = turn[x].stage /\ turn'[x].token = turn[x].token
        /\ (turn'[x].claimed <=> turn[x].claimed)
    BY <1>12 DEF StartsNext, Entered
  <2>5. ~First(c)'
    BY <1>12 DEF StartsNext, Entered, First, Fresh, Untouched
  <2>6. \A z \in Sessions : z # Session(c) =>
        disk'[z].turns = disk[z].turns /\ disk'[z].state = disk[z].state
    BY <1>12 DEF StartsNext, DiskAt
  <2> QED  BY <2>1, <2>2, <2>3, <2>4, <2>5, <2>6
<1>13. ASSUME NEW c \in Clients, StartsFirst(c) PROVE NoneFollows'
  <2>1. client[c].pc \in {"sending", "failing"}
    BY <1>13 DEF StartsFirst
  <2>2. \A x \in Clients : First(x) =>
        Session(x) # Session(c) /\ x # c
    BY <2>1, Alone DEF First
  <2>3. \A x \in Clients :
        /\ client'[x].session = client[x].session /\ client'[x].command = client[x].command
        /\ x # c => client'[x].pc = client[x].pc
        /\ client[c].pc # "idle"
    BY <1>13 DEF StartsFirst, Spoke
  <2>4. \A x \in Clients : x # c => turn'[x].stage = turn[x].stage /\ turn'[x].token = turn[x].token
        /\ (turn'[x].claimed <=> turn[x].claimed)
    BY <1>13 DEF StartsFirst, Entered
  <2>5. ~First(c)'
    BY <1>13 DEF StartsFirst, Entered, First, Fresh, Untouched
  <2>6. \A z \in Sessions : z # Session(c) =>
        disk'[z].turns = disk[z].turns /\ disk'[z].state = disk[z].state
    BY <1>13 DEF StartsFirst, DiskAt
  <2> QED  BY <2>1, <2>2, <2>3, <2>4, <2>5, <2>6
<1>14. ASSUME NEW c \in Clients, IsAccepted(c) PROVE NoneFollows'
  <2>1. client[c].pc \in {"starting", "left"}
    BY <1>14 DEF IsAccepted, Fresh
  <2>2. \A x \in Clients : x # c => turn'[x].stage = turn[x].stage /\ turn'[x].token = turn[x].token
        /\ (turn'[x].claimed <=> turn[x].claimed)
    BY <1>14 DEF IsAccepted, Claiming
  <2>3. turn'[c].token = disk[Session(c)].turns
    BY <1>14 DEF IsAccepted, Claiming
  <2>4. \A x \in Clients :
        /\ client'[x].session = client[x].session /\ client'[x].command = client[x].command
        /\ x # c => client'[x].pc = client[x].pc
        /\ client'[c].pc \in {"left", "replied"}
    BY <1>14 DEF IsAccepted, Reached, Fresh
  <2>5. Deferred(c) \/ disk[Session(c)].state = "starting"
    BY <1>14 DEF IsAccepted
  <2>6. \A z \in Sessions :
        /\ disk'[z].turns = disk[z].turns
        /\ disk'[z].state = IF z = Session(c) /\ ~Deferred(c) THEN "running" ELSE disk[z].state
    BY <1>14 DEF IsAccepted
  <2> QED  BY <2>1, <2>2, <2>3, <2>4, <2>5, <2>6 DEF Opening, Deferred
<1>15. ASSUME NEW c \in Clients, StartIsUndone(c) PROVE NoneFollows'
  <2>1. Advanced(c) /\ Settled(c) /\ turn[c].stage # "none"
    BY <1>15, Endings
  <2>2. \A x \in Clients : First(x) =>
        /\ Session(x) # Session(c) \/ (x = c /\ Live(c))
        /\ disk[Session(x)].turns = 1 /\ disk[Session(x)].state = "running"
    BY <2>1, Alone DEF OnDisk, First
  <2>3. \A x \in Clients : First(x)' => First(x) /\ x # c
    BY <1>15, <2>1 DEF StartIsUndone, Advanced, First, Live, Stopped
  <2> QED  BY <2>1, <2>2, <2>3 DEF Advanced, NoneFollows
<1>16. ASSUME NEW c \in Clients, Joins(c) PROVE NoneFollows'
  <2>1. \A x \in Clients :
        /\ turn'[x].stage = turn[x].stage
        /\ turn'[x].claimed = turn[x].claimed
    BY <1>16 DEF Joins, Joined, Spoke, Serves
  <2>2. \A w \in Clients :
        /\ client'[w].command = client[w].command
        /\ client'[w].session = client[w].session
        /\ client'[w].pc = IF w = c THEN "waiting" ELSE client[w].pc
    BY <1>16 DEF Joins, Joined, Spoke, Serves
  <2> QED  BY <1>16, <2>1, <2>2 DEF Joins, Serves
<1>17. ASSUME NEW c \in Clients, FindsNothing(c) PROVE NoneFollows'
  BY <1>17 DEF FindsNothing, Spoke, Serves
<1>18. ASSUME NEW c \in Clients, CancelsTurn(c) PROVE NoneFollows'
  <2>1. /\ Reaches(table[Session(c)])
        /\ table[Session(c)] # None => turn[table[Session(c)]].stage \notin {"none", "refused"}
    BY <1>18, Cancellations
  <2> QED  BY <1>18, <2>1 DEF CancelsTurn, Reaches, Spoke
<1>19. ASSUME NEW c \in Clients, CancelsAlone(c) PROVE NoneFollows'
  BY <1>19 DEF CancelsAlone, Spoke, Serves
<1>20. ASSUME NEW c \in Clients, Breaks(c) PROVE NoneFollows'
  <2>1. /\ Reaches(table[Session(c)])
        /\ table[Session(c)] # None => turn[table[Session(c)]].stage \notin {"none", "refused"}
    BY <1>20, Cancellations
  <2> QED  BY <1>20, <2>1 DEF Breaks, Reaches, Broke
<1>21. ASSUME NEW c \in Clients, BeginsToRestore(c) PROVE NoneFollows'
  BY <1>21 DEF BeginsToRestore, Staged
<1>22. ASSUME NEW c \in Clients, Enqueues(c) PROVE NoneFollows'
  BY <1>22 DEF Enqueues, Staged, Queued, EntersSlot
<1>23. ASSUME NEW c \in Clients, IsRestored(c) PROVE NoneFollows'
  BY <1>23 DEF IsRestored, Prepared, Queued, EntersSlot
<1>24. ASSUME NEW c \in Clients, IsNotRestored(c) PROVE NoneFollows'
  <2>1. Advanced(c) /\ Settled(c) /\ turn[c].stage # "none"
    BY <1>24, Endings
  <2>2. \A x \in Clients : First(x) =>
        /\ Session(x) # Session(c) \/ (x = c /\ Live(c))
        /\ disk[Session(x)].turns = 1 /\ disk[Session(x)].state = "running"
    BY <2>1, Alone DEF OnDisk, First
  <2>3. \A x \in Clients : First(x)' => First(x) /\ x # c
    BY <1>24, <2>1 DEF IsNotRestored, Advanced, First, Live, Left, Finishes
  <2> QED  BY <2>1, <2>2, <2>3 DEF Advanced, NoneFollows
<1>25. ASSUME NEW c \in Clients, IsNext(c) PROVE NoneFollows'
  BY ZenonT(30), <1>25 DEF IsNext, Staged
<1>26. ASSUME NEW c \in Clients, Drives(c) PROVE NoneFollows'
  BY <1>26 DEF Drives, Staged
<1>27. ASSUME NEW c \in Clients, RunIsOver(c) PROVE NoneFollows'
  <2>1. Advanced(c) /\ Settled(c) /\ turn[c].stage # "none"
    BY <1>27, Endings
  <2>2. \A x \in Clients : First(x) =>
        /\ Session(x) # Session(c) \/ (x = c /\ Live(c))
        /\ disk[Session(x)].turns = 1 /\ disk[Session(x)].state = "running"
    BY <2>1, Alone DEF OnDisk, First
  <2>3. \A x \in Clients : First(x)' => First(x) /\ x # c
    BY <1>27, <2>1 DEF RunIsOver, Advanced, First, Live, Left, Finishes
  <2> QED  BY <2>1, <2>2, <2>3 DEF Advanced, NoneFollows
<1>28. ASSUME NEW c \in Clients, StartIsCanceled(c) PROVE NoneFollows'
  <2>1. Advanced(c) /\ Settled(c) /\ turn[c].stage # "none"
    BY <1>28, Endings
  <2>2. \A x \in Clients : First(x) =>
        /\ Session(x) # Session(c) \/ (x = c /\ Live(c))
        /\ disk[Session(x)].turns = 1 /\ disk[Session(x)].state = "running"
    BY <2>1, Alone DEF OnDisk, First
  <2>3. \A x \in Clients : First(x)' => First(x) /\ x # c
    BY <1>28, <2>1 DEF StartIsCanceled, Advanced, First, Live, Left
  <2> QED  BY <2>1, <2>2, <2>3 DEF Advanced, NoneFollows
<1>29. ASSUME NEW c \in Clients, Leaks(c) PROVE NoneFollows'
  BY <1>29 DEF Leaks, Stopped
<1>30. ASSUME NEW c \in Clients, PreparationIsCanceled(c) PROVE NoneFollows'
  <2>1. Advanced(c) /\ Settled(c) /\ turn[c].stage # "none"
    BY <1>30, Endings
  <2>2. \A x \in Clients : First(x) =>
        /\ Session(x) # Session(c) \/ (x = c /\ Live(c))
        /\ disk[Session(x)].turns = 1 /\ disk[Session(x)].state = "running"
    BY <2>1, Alone DEF OnDisk, First
  <2>3. \A x \in Clients : First(x)' => First(x) /\ x # c
    BY <1>30, <2>1 DEF PreparationIsCanceled, Advanced, First, Live, Left, Finishes
  <2> QED  BY <2>1, <2>2, <2>3 DEF Advanced, NoneFollows
<1>31. ASSUME NEW c \in Clients, PreparationIsKilled(c) PROVE NoneFollows'
  BY <1>31 DEF PreparationIsKilled, Stopped
<1>32. ASSUME NEW c \in Clients, IsStruck(c) PROVE NoneFollows'
  BY <1>32 DEF IsStruck, Struck
<1>33. ASSUME NEW c \in Clients, IsClosed(c) PROVE NoneFollows'
  <2>1. Advanced(c) /\ Settled(c) /\ turn[c].stage # "none"
    BY <1>33, Endings
  <2>2. \A x \in Clients : First(x) =>
        /\ Session(x) # Session(c) \/ (x = c /\ Live(c))
        /\ disk[Session(x)].turns = 1 /\ disk[Session(x)].state = "running"
    BY <2>1, Alone DEF OnDisk, First
  <2>3. \A x \in Clients : First(x)' => First(x) /\ x # c
    BY <1>33, <2>1 DEF IsClosed, Advanced, First, Live, Closed
  <2> QED  BY <2>1, <2>2, <2>3 DEF Advanced, NoneFollows
<1>34. ASSUME NEW c \in Clients, IsAbandoned(c) PROVE NoneFollows'
  BY <1>34 DEF IsAbandoned, Shot
<1> QED
  BY <1>1, <1>2, <1>3, <1>4, <1>5, <1>6, <1>7, <1>8, <1>9, <1>10, <1>11, <1>12, <1>13,
    <1>14, <1>15, <1>16, <1>17, <1>18, <1>19, <1>20, <1>21, <1>22, <1>23, <1>24,
    <1>25, <1>26, <1>27, <1>28, <1>29, <1>30, <1>31, <1>32, <1>33, <1>34 DEF Effect

\* Nobody's request is forgotten.
LEMMA Recalling ==
  ASSUME Members, Backups, Numbered, Created, Dispatching, Fresh, Waiting, Listed,
         Entries, Effect PROVE Recalls
<1> USE DEF Recalls
<1>1. ASSUME Quiet PROVE Recalls
  BY <1>1 DEF Quiet
<1>2. ASSUME ShutsDown PROVE Recalls
  BY <1>2 DEF ShutsDown
<1>3. ASSUME IsCleared PROVE Recalls
  BY <1>3 DEF IsCleared
<1>4. ASSUME IsGone PROVE Recalls
  BY <1>4 DEF IsGone
<1>5. ASSUME NEW c \in Clients, Creates(c) PROVE Recalls
  BY <1>5 DEF Creates, Began, DiskAt, Fresh
<1>6. ASSUME NEW c \in Clients, Continues(c) PROVE Recalls
  BY <1>6 DEF Continues, Began, Fresh
<1>7. ASSUME NEW c \in Clients, Observes(c) PROVE Recalls
  BY <1>7 DEF Observes, Began, Fresh
<1>8. ASSUME NEW c \in Clients, Goes(c) PROVE Recalls
  <2>1. \A w \in Clients :
        /\ client'[w].command = client[w].command
        /\ client'[w].session = client[w].session
        /\ client'[w].pinned = client[w].pinned
        /\ client'[w].interrupted = client[w].interrupted
    BY <1>8 DEF Goes, Parted, Spoke
  <2>2. \A x \in Clients :
        /\ turn'[x].cancel = turn[x].cancel
        /\ turn'[x].asked = turn[x].asked
    BY <1>8 DEF Goes, Parted, Spoke
  <2> QED  BY <1>8, <2>1, <2>2 DEF Goes
<1>9. ASSUME NEW c \in Clients, FailsSession(c) PROVE Recalls
  BY <1>9 DEF FailsSession, Spoke, Ended
<1>10. ASSUME NEW c \in Clients, IsLost(c) PROVE Recalls
  <2>1. \A w \in Clients :
        /\ client'[w].command = client[w].command
        /\ client'[w].session = client[w].session
        /\ client'[w].pinned = client[w].pinned
        /\ client'[w].interrupted = client[w].interrupted
    BY <1>10 DEF IsLost, Parted, Spoke, AfterOutcome
  <2>2. \A x \in Clients :
        /\ turn'[x].cancel = turn[x].cancel
        /\ turn'[x].asked = turn[x].asked
    BY <1>10 DEF IsLost, Parted, Spoke, AfterOutcome
  <2> QED  BY <1>10, <2>1, <2>2 DEF IsLost
<1>11. ASSUME NEW c \in Clients, IsRefused(c) PROVE Recalls
  BY <1>11 DEF IsRefused, Spoke, DiskAt, Serves
<1>12. ASSUME NEW c \in Clients, StartsNext(c) PROVE Recalls
  BY <1>12 DEF StartsNext, Entered, Spoke, DiskAt, TableAt, Serves
<1>13. ASSUME NEW c \in Clients, StartsFirst(c) PROVE Recalls
  BY <1>13 DEF StartsFirst, Entered, Spoke, TableAt, Serves
<1>14. ASSUME NEW c \in Clients, IsAccepted(c) PROVE Recalls
  BY <1>14 DEF IsAccepted, Claiming, Reached
<1>15. ASSUME NEW c \in Clients, StartIsUndone(c) PROVE Recalls
  <2>1. Advanced(c)
    BY <1>15, Endings
  <2>2. \A x \in Clients :
        /\ turn'[x].cancel = turn[x].cancel
        /\ turn'[x].asked = turn[x].asked
    BY <1>15 DEF StartIsUndone, Left, Stopped, Closed, Finishes
  <2> QED  BY <2>1, <2>2 DEF Advanced
<1>16. ASSUME NEW c \in Clients, Joins(c) PROVE Recalls
  <2>1. \A x \in Clients :
        /\ turn'[x].cancel = turn[x].cancel
        /\ turn'[x].asked = turn[x].asked
    BY <1>16 DEF Joins, Joined, Spoke, Serves
  <2>2. \A w \in Clients :
        /\ client'[w].command = client[w].command
        /\ client'[w].session = client[w].session
        /\ client'[w].pinned = client[w].pinned
        /\ client'[w].interrupted = client[w].interrupted
    BY <1>16 DEF Joins, Joined, Spoke, Serves
  <2> QED  BY <1>16, <2>1, <2>2 DEF Joins, Serves
<1>17. ASSUME NEW c \in Clients, FindsNothing(c) PROVE Recalls
  BY <1>17 DEF FindsNothing, Spoke, Serves
<1>18. ASSUME NEW c \in Clients, CancelsTurn(c) PROVE Recalls
  <2>1. \A x \in Clients : turn[x].cancel = "canceled" =>
        turn'[x].cancel = "canceled" /\ turn'[x].asked = turn[x].asked
    BY <1>18 DEF CancelsTurn, CanceledAs, CanceledFields
  <2>2. \A x \in Clients :
        /\ client'[x].session = client[x].session
        /\ client'[x].command = client[x].command
        /\ client'[x].pinned = client[x].pinned
    BY <1>18 DEF CancelsTurn, Spoke, Broke
  <2>3. \A x \in Clients : client[x].interrupted => client'[x].interrupted
    BY <1>18 DEF CancelsTurn, Spoke, Broke
  <2> QED  BY <2>1, <2>2, <2>3
<1>19. ASSUME NEW c \in Clients, CancelsAlone(c) PROVE Recalls
  BY <1>19 DEF CancelsAlone, Spoke, Serves
<1>20. ASSUME NEW c \in Clients, Breaks(c) PROVE Recalls
  <2>1. \A x \in Clients : turn[x].cancel = "canceled" =>
        turn'[x].cancel = "canceled" /\ turn'[x].asked = turn[x].asked
    BY <1>20 DEF Breaks, CanceledAs, CanceledFields
  <2>2. \A x \in Clients :
        /\ client'[x].session = client[x].session
        /\ client'[x].command = client[x].command
        /\ client'[x].pinned = client[x].pinned
    BY <1>20 DEF Breaks, Spoke, Broke
  <2>3. \A x \in Clients : client[x].interrupted => client'[x].interrupted
    BY <1>20 DEF Breaks, Spoke, Broke
  <2> QED  BY <2>1, <2>2, <2>3
<1>21. ASSUME NEW c \in Clients, BeginsToRestore(c) PROVE Recalls
  BY <1>21 DEF BeginsToRestore, Staged
<1>22. ASSUME NEW c \in Clients, Enqueues(c) PROVE Recalls
  BY <1>22 DEF Enqueues, Staged, Queued, EntersSlot
<1>23. ASSUME NEW c \in Clients, IsRestored(c) PROVE Recalls
  BY <1>23 DEF IsRestored, Prepared, Queued, EntersSlot
<1>24. ASSUME NEW c \in Clients, IsNotRestored(c) PROVE Recalls
  <2>1. Advanced(c)
    BY <1>24, Endings
  <2>2. \A x \in Clients :
        /\ turn'[x].cancel = turn[x].cancel
        /\ turn'[x].asked = turn[x].asked
    BY <1>24 DEF IsNotRestored, Left, Stopped, Closed, Finishes
  <2> QED  BY <2>1, <2>2 DEF Advanced
<1>25. ASSUME NEW c \in Clients, IsNext(c) PROVE Recalls
  BY <1>25 DEF IsNext, Staged
<1>26. ASSUME NEW c \in Clients, Drives(c) PROVE Recalls
  BY <1>26 DEF Drives, Staged
<1>27. ASSUME NEW c \in Clients, RunIsOver(c) PROVE Recalls
  <2>1. Advanced(c)
    BY <1>27, Endings
  <2>2. \A x \in Clients :
        /\ turn'[x].cancel = turn[x].cancel
        /\ turn'[x].asked = turn[x].asked
    BY <1>27 DEF RunIsOver, Left, Stopped, Closed, Finishes
  <2> QED  BY <2>1, <2>2 DEF Advanced
<1>28. ASSUME NEW c \in Clients, StartIsCanceled(c) PROVE Recalls
  <2>1. Advanced(c)
    BY <1>28, Endings
  <2>2. \A x \in Clients :
        /\ turn'[x].cancel = turn[x].cancel
        /\ turn'[x].asked = turn[x].asked
    BY <1>28 DEF StartIsCanceled, Left, Stopped, Closed, Finishes
  <2> QED  BY <2>1, <2>2 DEF Advanced
<1>29. ASSUME NEW c \in Clients, Leaks(c) PROVE Recalls
  BY <1>29 DEF Leaks, Stopped
<1>30. ASSUME NEW c \in Clients, PreparationIsCanceled(c) PROVE Recalls
  <2>1. Advanced(c)
    BY <1>30, Endings
  <2>2. \A x \in Clients :
        /\ turn'[x].cancel = turn[x].cancel
        /\ turn'[x].asked = turn[x].asked
    BY <1>30 DEF PreparationIsCanceled, Left, Stopped, Closed, Finishes
  <2> QED  BY <2>1, <2>2 DEF Advanced
<1>31. ASSUME NEW c \in Clients, PreparationIsKilled(c) PROVE Recalls
  BY <1>31 DEF PreparationIsKilled, Stopped
<1>32. ASSUME NEW c \in Clients, IsStruck(c) PROVE Recalls
  BY <1>32 DEF IsStruck, Struck
<1>33. ASSUME NEW c \in Clients, IsClosed(c) PROVE Recalls
  <2>1. Advanced(c)
    BY <1>33, Endings
  <2>2. \A x \in Clients :
        /\ turn'[x].cancel = turn[x].cancel
        /\ turn'[x].asked = turn[x].asked
    BY <1>33 DEF IsClosed, Left, Stopped, Closed, Finishes
  <2> QED  BY <2>1, <2>2 DEF Advanced
<1>34. ASSUME NEW c \in Clients, IsAbandoned(c) PROVE Recalls
  BY <1>34 DEF IsAbandoned, Shot
<1> QED
  BY <1>1, <1>2, <1>3, <1>4, <1>5, <1>6, <1>7, <1>8, <1>9, <1>10, <1>11, <1>12, <1>13,
    <1>14, <1>15, <1>16, <1>17, <1>18, <1>19, <1>20, <1>21, <1>22, <1>23, <1>24,
    <1>25, <1>26, <1>27, <1>28, <1>29, <1>30, <1>31, <1>32, <1>33, <1>34 DEF Effect

\* A backup is the session as it was, finished.
LEMMA Backing ==
  ASSUME Members, Backups, Numbered, Created, Dispatching, Fresh, Waiting, Listed,
         Entries, Effect PROVE Backs
<1> USE DEF Backs
<1>1. ASSUME Quiet PROVE Backs
  BY <1>1 DEF Quiet
<1>2. ASSUME ShutsDown PROVE Backs
  BY <1>2 DEF ShutsDown
<1>3. ASSUME IsCleared PROVE Backs
  BY <1>3 DEF IsCleared
<1>4. ASSUME IsGone PROVE Backs
  BY <1>4 DEF IsGone
<1>5. ASSUME NEW c \in Clients, Creates(c) PROVE Backs
  BY <1>5 DEF Creates, Began, DiskAt
<1>6. ASSUME NEW c \in Clients, Continues(c) PROVE Backs
  BY <1>6 DEF Continues, Began
<1>7. ASSUME NEW c \in Clients, Observes(c) PROVE Backs
  BY <1>7 DEF Observes, Began
<1>8. ASSUME NEW c \in Clients, Goes(c) PROVE Backs
  <2>1. \A x \in Clients : turn'[x].backup = turn[x].backup
    BY <1>8 DEF Goes, Parted, Joined
  <2> QED  BY <2>1
<1>9. ASSUME NEW c \in Clients, FailsSession(c) PROVE Backs
  BY <1>9 DEF FailsSession, Spoke, Ended
<1>10. ASSUME NEW c \in Clients, IsLost(c) PROVE Backs
  <2>1. \A x \in Clients : turn'[x].backup = turn[x].backup
    BY <1>10 DEF IsLost, Parted, Joined
  <2> QED  BY <2>1
<1>11. ASSUME NEW c \in Clients, IsRefused(c) PROVE Backs
  BY <1>11 DEF IsRefused, Spoke, DiskAt, Serves
<1>12. ASSUME NEW c \in Clients, StartsNext(c) PROVE Backs
  <2>1. \A x \in Clients : turn'[x].backup = IF x # c THEN turn[x].backup
        ELSE IF Deferred(c) THEN <<disk[Session(c)]>> ELSE <<>>
    BY <1>12 DEF StartsNext, Entered
  <2>2. Deferred(c) => Finished(Session(c))
    BY <1>12 DEF StartsNext
  <2> QED  BY <2>1, <2>2
<1>13. ASSUME NEW c \in Clients, StartsFirst(c) PROVE Backs
  <2>1. \A x \in Clients : turn'[x].backup = IF x # c THEN turn[x].backup
        ELSE IF Deferred(c) THEN <<disk[Session(c)]>> ELSE <<>>
    BY <1>13 DEF StartsFirst, Entered
  <2>2. Deferred(c) => Finished(Session(c))
    BY <1>13 DEF StartsFirst
  <2> QED  BY <2>1, <2>2
<1>14. ASSUME NEW c \in Clients, IsAccepted(c) PROVE Backs
  BY <1>14 DEF IsAccepted, Claiming, Reached
<1>15. ASSUME NEW c \in Clients, StartIsUndone(c) PROVE Backs
  <2>1. \A x \in Clients :
        /\ turn'[x].backup = turn[x].backup
    BY <1>15 DEF StartIsUndone, Left, Stopped, Closed, Finishes
  <2> QED  BY <2>1
<1>16. ASSUME NEW c \in Clients, Joins(c) PROVE Backs
  <2>1. \A x \in Clients : turn'[x].backup = turn[x].backup
    BY <1>16 DEF Joins, Parted, Joined
  <2> QED  BY <2>1
<1>17. ASSUME NEW c \in Clients, FindsNothing(c) PROVE Backs
  BY <1>17 DEF FindsNothing, Spoke, Serves
<1>18. ASSUME NEW c \in Clients, CancelsTurn(c) PROVE Backs
  <2>1. \A x \in Clients : turn'[x].backup = turn[x].backup
    BY <1>18, Cancellations DEF Reaches
  <2> QED  BY <2>1
<1>19. ASSUME NEW c \in Clients, CancelsAlone(c) PROVE Backs
  BY <1>19 DEF CancelsAlone, Spoke, Serves
<1>20. ASSUME NEW c \in Clients, Breaks(c) PROVE Backs
  <2>1. \A x \in Clients : turn'[x].backup = turn[x].backup
    BY <1>20, Cancellations DEF Reaches
  <2> QED  BY <2>1
<1>21. ASSUME NEW c \in Clients, BeginsToRestore(c) PROVE Backs
  BY <1>21 DEF BeginsToRestore, Staged
<1>22. ASSUME NEW c \in Clients, Enqueues(c) PROVE Backs
  BY <1>22 DEF Enqueues, Staged, Queued, EntersSlot
<1>23. ASSUME NEW c \in Clients, IsRestored(c) PROVE Backs
  BY <1>23 DEF IsRestored, Prepared, Queued, EntersSlot
<1>24. ASSUME NEW c \in Clients, IsNotRestored(c) PROVE Backs
  <2>1. \A x \in Clients :
        /\ turn'[x].backup = turn[x].backup
    BY <1>24 DEF IsNotRestored, Left, Stopped, Closed, Finishes
  <2> QED  BY <2>1
<1>25. ASSUME NEW c \in Clients, IsNext(c) PROVE Backs
  BY <1>25 DEF IsNext, Staged
<1>26. ASSUME NEW c \in Clients, Drives(c) PROVE Backs
  BY <1>26 DEF Drives, Staged
<1>27. ASSUME NEW c \in Clients, RunIsOver(c) PROVE Backs
  <2>1. \A x \in Clients :
        /\ turn'[x].backup = turn[x].backup
    BY <1>27 DEF RunIsOver, Left, Stopped, Closed, Finishes
  <2> QED  BY <2>1
<1>28. ASSUME NEW c \in Clients, StartIsCanceled(c) PROVE Backs
  <2>1. \A x \in Clients :
        /\ turn'[x].backup = turn[x].backup
    BY <1>28 DEF StartIsCanceled, Left, Stopped, Closed, Finishes
  <2> QED  BY <2>1
<1>29. ASSUME NEW c \in Clients, Leaks(c) PROVE Backs
  BY <1>29 DEF Leaks, Stopped
<1>30. ASSUME NEW c \in Clients, PreparationIsCanceled(c) PROVE Backs
  <2>1. \A x \in Clients :
        /\ turn'[x].backup = turn[x].backup
    BY <1>30 DEF PreparationIsCanceled, Left, Stopped, Closed, Finishes
  <2> QED  BY <2>1
<1>31. ASSUME NEW c \in Clients, PreparationIsKilled(c) PROVE Backs
  BY <1>31 DEF PreparationIsKilled, Stopped
<1>32. ASSUME NEW c \in Clients, IsStruck(c) PROVE Backs
  BY <1>32 DEF IsStruck, Struck
<1>33. ASSUME NEW c \in Clients, IsClosed(c) PROVE Backs
  <2>1. \A x \in Clients :
        /\ turn'[x].backup = turn[x].backup
    BY <1>33 DEF IsClosed, Left, Stopped, Closed, Finishes
  <2> QED  BY <2>1
<1>34. ASSUME NEW c \in Clients, IsAbandoned(c) PROVE Backs
  BY <1>34 DEF IsAbandoned, Shot
<1> QED
  BY <1>1, <1>2, <1>3, <1>4, <1>5, <1>6, <1>7, <1>8, <1>9, <1>10, <1>11, <1>12, <1>13,
    <1>14, <1>15, <1>16, <1>17, <1>18, <1>19, <1>20, <1>21, <1>22, <1>23, <1>24,
    <1>25, <1>26, <1>27, <1>28, <1>29, <1>30, <1>31, <1>32, <1>33, <1>34 DEF Effect

\* So what a rollback restores was asked for if it is canceled.
LEMMA BackupsStep ==
  ASSUME Members, Numbered, Backups, Cancels, Backs, Recalls PROVE Backups'
<1> SUFFICES ASSUME NEW x \in Clients, turn'[x].backup # <<>>, NEW b, b = turn'[x].backup[1]
             PROVE  /\ b.state \in {"succeeded", "canceled", "failed"} /\ b.turns # 0
                    /\ b.state = "canceled" =>
                        \E e \in Clients : client'[e].session = client'[x].session /\
                            \/ client'[e].command = "cancel" /\ client'[e].pinned = b.turns
                            \/ client'[e].interrupted
                            \/ turn'[e].cancel = "canceled" /\ turn'[e].asked[2] = 0
  BY DEF Backups, Asked, Session
<1>1. Session(x)' = Session(x) /\ Session(x) \in Sessions
  BY DEF Recalls, Session, Members
<1>2. /\ b.state \in {"succeeded", "canceled", "failed"} /\ b.turns # 0
      /\ b.state = "canceled" => Asked(Session(x), b.turns)
  <2>1. CASE turn'[x].backup = turn[x].backup
    BY <2>1 DEF Backups
  <2>2. CASE turn'[x].backup = <<disk[Session(x)]>> /\ Finished(Session(x))
    <3>1. b = disk[Session(x)]
      BY <2>2
    <3> QED  BY <2>2, <3>1, <1>1 DEF Finished, Cancels, Numbered
  <2> QED  BY <2>1, <2>2 DEF Backs
<1>3. \A n : n # 0 /\ Asked(Session(x), n) => \E e \in Clients : client'[e].session = Session(x) /\
        \/ client'[e].command = "cancel" /\ client'[e].pinned = n
        \/ client'[e].interrupted
        \/ turn'[e].cancel = "canceled" /\ turn'[e].asked[2] = 0
  BY DEF Recalls, Asked, Session
<1> QED  BY <1>1, <1>2, <1>3 DEF Session

\* A continuation keeps its backup while it may be undone.
LEMMA SnapshotsStep ==
  ASSUME Members, Backups, Numbered, Created, Dispatching, Fresh, Waiting, Listed,
         Entries, Snapshots, Effect PROVE Snapshots'
<1> USE DEF Snapshots, Deferred
<1>1. ASSUME Quiet PROVE Snapshots'
  BY <1>1 DEF Quiet
<1>2. ASSUME ShutsDown PROVE Snapshots'
  BY <1>2 DEF ShutsDown
<1>3. ASSUME IsCleared PROVE Snapshots'
  BY <1>3 DEF IsCleared
<1>4. ASSUME IsGone PROVE Snapshots'
  BY <1>4 DEF IsGone
<1>5. ASSUME NEW c \in Clients, Creates(c) PROVE Snapshots'
  BY <1>5 DEF Creates, Began, DiskAt
<1>6. ASSUME NEW c \in Clients, Continues(c) PROVE Snapshots'
  BY <1>6 DEF Continues, Began
<1>7. ASSUME NEW c \in Clients, Observes(c) PROVE Snapshots'
  BY <1>7 DEF Observes, Began
<1>8. ASSUME NEW c \in Clients, Goes(c) PROVE Snapshots'
  <2>1. \A w \in Clients :
        /\ client'[w].command = client[w].command
    BY <1>8 DEF Goes, Parted, Spoke
  <2>2. \A x \in Clients :
        /\ turn'[x].stage = turn[x].stage
        /\ turn'[x].backup = turn[x].backup
    BY <1>8 DEF Goes, Parted, Spoke
  <2> QED  BY <1>8, <2>1, <2>2 DEF Goes
<1>9. ASSUME NEW c \in Clients, FailsSession(c) PROVE Snapshots'
  BY <1>9 DEF FailsSession, Spoke, Ended
<1>10. ASSUME NEW c \in Clients, IsLost(c) PROVE Snapshots'
  <2>1. \A w \in Clients :
        /\ client'[w].command = client[w].command
    BY <1>10 DEF IsLost, Parted, Spoke, AfterOutcome
  <2>2. \A x \in Clients :
        /\ turn'[x].stage = turn[x].stage
        /\ turn'[x].backup = turn[x].backup
    BY <1>10 DEF IsLost, Parted, Spoke, AfterOutcome
  <2> QED  BY <1>10, <2>1, <2>2 DEF IsLost
<1>11. ASSUME NEW c \in Clients, IsRefused(c) PROVE Snapshots'
  BY <1>11 DEF IsRefused, Spoke, DiskAt, Serves
<1>12. ASSUME NEW c \in Clients, StartsNext(c) PROVE Snapshots'
  BY <1>12 DEF StartsNext, Entered, Spoke, DiskAt, TableAt, Serves, Deferred
<1>13. ASSUME NEW c \in Clients, StartsFirst(c) PROVE Snapshots'
  BY <1>13 DEF StartsFirst, Entered, Spoke, TableAt, Serves, Deferred
<1>14. ASSUME NEW c \in Clients, IsAccepted(c) PROVE Snapshots'
  BY <1>14 DEF IsAccepted, Claiming, Reached
<1>15. ASSUME NEW c \in Clients, StartIsUndone(c) PROVE Snapshots'
  <2>1. \A x \in Clients :
        /\ turn'[x].backup = turn[x].backup
    BY <1>15 DEF StartIsUndone, Left, Stopped, Closed, Finishes
  <2>2. \A x \in Clients : turn'[x].stage = IF x = c THEN "refused" ELSE turn[x].stage
    BY <1>15 DEF StartIsUndone, Left, Stopped, Closed, Finishes
  <2>3. \A x \in Clients : client'[x].command = client[x].command
    BY <1>15, Endings DEF Advanced
  <2> QED  BY <2>1, <2>2, <2>3
<1>16. ASSUME NEW c \in Clients, Joins(c) PROVE Snapshots'
  <2>1. \A x \in Clients :
        /\ turn'[x].stage = turn[x].stage
        /\ turn'[x].backup = turn[x].backup
    BY <1>16 DEF Joins, Joined, Spoke, Serves
  <2>2. \A w \in Clients :
        /\ client'[w].command = client[w].command
    BY <1>16 DEF Joins, Joined, Spoke, Serves
  <2> QED  BY <1>16, <2>1, <2>2 DEF Joins, Serves
<1>17. ASSUME NEW c \in Clients, FindsNothing(c) PROVE Snapshots'
  BY <1>17 DEF FindsNothing, Spoke, Serves
<1>18. ASSUME NEW c \in Clients, CancelsTurn(c) PROVE Snapshots'
  <2>1. /\ Reaches(table[Session(c)])
        /\ table[Session(c)] # None => turn[table[Session(c)]].stage \notin {"none", "refused"}
    BY <1>18, Cancellations
  <2> QED  BY <1>18, <2>1 DEF CancelsTurn, Reaches, Spoke
<1>19. ASSUME NEW c \in Clients, CancelsAlone(c) PROVE Snapshots'
  BY <1>19 DEF CancelsAlone, Spoke, Serves
<1>20. ASSUME NEW c \in Clients, Breaks(c) PROVE Snapshots'
  <2>1. /\ Reaches(table[Session(c)])
        /\ table[Session(c)] # None => turn[table[Session(c)]].stage \notin {"none", "refused"}
    BY <1>20, Cancellations
  <2> QED  BY <1>20, <2>1 DEF Breaks, Reaches, Broke
<1>21. ASSUME NEW c \in Clients, BeginsToRestore(c) PROVE Snapshots'
  BY <1>21 DEF BeginsToRestore, Staged
<1>22. ASSUME NEW c \in Clients, Enqueues(c) PROVE Snapshots'
  BY <1>22 DEF Enqueues, Staged, Queued, EntersSlot
<1>23. ASSUME NEW c \in Clients, IsRestored(c) PROVE Snapshots'
  BY <1>23 DEF IsRestored, Prepared, Queued, EntersSlot
<1>24. ASSUME NEW c \in Clients, IsNotRestored(c) PROVE Snapshots'
  <2>1. \A x \in Clients :
        /\ turn'[x].backup = turn[x].backup
    BY <1>24 DEF IsNotRestored, Left, Stopped, Closed, Finishes
  <2>2. \A x \in Clients : turn'[x].stage = IF x = c THEN "ended" ELSE turn[x].stage
    BY <1>24 DEF IsNotRestored, Left, Stopped, Closed, Finishes
  <2>3. \A x \in Clients : client'[x].command = client[x].command
    BY <1>24, Endings DEF Advanced
  <2> QED  BY <2>1, <2>2, <2>3
<1>25. ASSUME NEW c \in Clients, IsNext(c) PROVE Snapshots'
  BY <1>25 DEF IsNext, Staged
<1>26. ASSUME NEW c \in Clients, Drives(c) PROVE Snapshots'
  BY <1>26 DEF Drives, Staged
<1>27. ASSUME NEW c \in Clients, RunIsOver(c) PROVE Snapshots'
  <2>1. \A x \in Clients :
        /\ turn'[x].backup = turn[x].backup
    BY <1>27 DEF RunIsOver, Left, Stopped, Closed, Finishes
  <2>2. \A x \in Clients : turn'[x].stage = IF x = c THEN "ended" ELSE turn[x].stage
    BY <1>27 DEF RunIsOver, Left, Stopped, Closed, Finishes
  <2>3. \A x \in Clients : client'[x].command = client[x].command
    BY <1>27, Endings DEF Advanced
  <2> QED  BY <2>1, <2>2, <2>3
<1>28. ASSUME NEW c \in Clients, StartIsCanceled(c) PROVE Snapshots'
  <2>1. \A x \in Clients :
        /\ turn'[x].backup = turn[x].backup
    BY <1>28 DEF StartIsCanceled, Left, Stopped, Closed, Finishes
  <2>2. \A x \in Clients : turn'[x].stage = IF x = c THEN "ended" ELSE turn[x].stage
    BY <1>28 DEF StartIsCanceled, Left, Stopped, Closed, Finishes
  <2>3. \A x \in Clients : client'[x].command = client[x].command
    BY <1>28, Endings DEF Advanced
  <2> QED  BY <2>1, <2>2, <2>3
<1>29. ASSUME NEW c \in Clients, Leaks(c) PROVE Snapshots'
  BY <1>29 DEF Leaks, Stopped
<1>30. ASSUME NEW c \in Clients, PreparationIsCanceled(c) PROVE Snapshots'
  <2>1. \A x \in Clients :
        /\ turn'[x].backup = turn[x].backup
    BY <1>30 DEF PreparationIsCanceled, Left, Stopped, Closed, Finishes
  <2>2. \A x \in Clients : turn'[x].stage = IF x = c THEN "ended" ELSE turn[x].stage
    BY <1>30 DEF PreparationIsCanceled, Left, Stopped, Closed, Finishes
  <2>3. \A x \in Clients : client'[x].command = client[x].command
    BY <1>30, Endings DEF Advanced
  <2> QED  BY <2>1, <2>2, <2>3
<1>31. ASSUME NEW c \in Clients, PreparationIsKilled(c) PROVE Snapshots'
  BY <1>31 DEF PreparationIsKilled, Stopped
<1>32. ASSUME NEW c \in Clients, IsStruck(c) PROVE Snapshots'
  BY <1>32 DEF IsStruck, Struck
<1>33. ASSUME NEW c \in Clients, IsClosed(c) PROVE Snapshots'
  <2>1. \A x \in Clients :
        /\ turn'[x].backup = turn[x].backup
    BY <1>33 DEF IsClosed, Left, Stopped, Closed, Finishes
  <2>2. \A x \in Clients : turn'[x].stage = IF x = c THEN "ended" ELSE turn[x].stage
    BY <1>33 DEF IsClosed, Left, Stopped, Closed, Finishes
  <2>3. \A x \in Clients : client'[x].command = client[x].command
    BY <1>33, Endings DEF Advanced
  <2> QED  BY <2>1, <2>2, <2>3
<1>34. ASSUME NEW c \in Clients, IsAbandoned(c) PROVE Snapshots'
  BY <1>34 DEF IsAbandoned, Shot
<1> QED
  BY <1>1, <1>2, <1>3, <1>4, <1>5, <1>6, <1>7, <1>8, <1>9, <1>10, <1>11, <1>12, <1>13,
    <1>14, <1>15, <1>16, <1>17, <1>18, <1>19, <1>20, <1>21, <1>22, <1>23, <1>24,
    <1>25, <1>26, <1>27, <1>28, <1>29, <1>30, <1>31, <1>32, <1>33, <1>34 DEF Effect

\* A turn is canceled because of a request that named it or named none.
LEMMA Causing ==
  ASSUME Members, Backups, Numbered, Created, Dispatching, Fresh, Waiting, Listed,
         Entries, Claimed, Effect PROVE Causes
<1> USE DEF Causes
<1>1. ASSUME Quiet PROVE Causes
  BY <1>1 DEF Quiet
<1>2. ASSUME ShutsDown PROVE Causes
  BY <1>2 DEF ShutsDown
<1>3. ASSUME IsCleared PROVE Causes
  BY <1>3 DEF IsCleared
<1>4. ASSUME IsGone PROVE Causes
  BY <1>4 DEF IsGone
<1>5. ASSUME NEW c \in Clients, Creates(c) PROVE Causes
  BY <1>5 DEF Creates, Began, DiskAt
<1>6. ASSUME NEW c \in Clients, Continues(c) PROVE Causes
  BY <1>6 DEF Continues, Began
<1>7. ASSUME NEW c \in Clients, Observes(c) PROVE Causes
  BY <1>7 DEF Observes, Began
<1>8. ASSUME NEW c \in Clients, Goes(c) PROVE Causes
  <2>1. \A x \in Clients : turn'[x].cancel = turn[x].cancel /\ turn'[x].token = turn[x].token
    BY <1>8 DEF Goes, Parted, Joined
  <2> QED  BY <2>1
<1>9. ASSUME NEW c \in Clients, FailsSession(c) PROVE Causes
  BY <1>9 DEF FailsSession, Spoke, Ended
<1>10. ASSUME NEW c \in Clients, IsLost(c) PROVE Causes
  <2>1. \A x \in Clients : turn'[x].cancel = turn[x].cancel /\ turn'[x].token = turn[x].token
    BY <1>10 DEF IsLost, Parted, Joined
  <2> QED  BY <2>1
<1>11. ASSUME NEW c \in Clients, IsRefused(c) PROVE Causes
  BY <1>11 DEF IsRefused, Spoke, DiskAt, Serves
<1>12. ASSUME NEW c \in Clients, StartsNext(c) PROVE Causes
  BY <1>12 DEF StartsNext, Entered, Spoke, DiskAt, TableAt, Serves
<1>13. ASSUME NEW c \in Clients, StartsFirst(c) PROVE Causes
  BY <1>13 DEF StartsFirst, Entered, Spoke, TableAt, Serves
<1>14. ASSUME NEW c \in Clients, IsAccepted(c) PROVE Causes
  BY <1>14 DEF IsAccepted, Claiming, Reached, Claimed
<1>15. ASSUME NEW c \in Clients, StartIsUndone(c) PROVE Causes
  <2>1. \A x \in Clients :
        /\ turn'[x].cancel = turn[x].cancel
        /\ turn'[x].token = turn[x].token
    BY <1>15 DEF StartIsUndone, Left, Stopped, Closed, Finishes
  <2> QED  BY <2>1
<1>16. ASSUME NEW c \in Clients, Joins(c) PROVE Causes
  <2>1. \A x \in Clients : turn'[x].cancel = turn[x].cancel /\ turn'[x].token = turn[x].token
    BY <1>16 DEF Joins, Parted, Joined
  <2> QED  BY <2>1
<1>17. ASSUME NEW c \in Clients, FindsNothing(c) PROVE Causes
  BY <1>17 DEF FindsNothing, Spoke, Serves
<1>18. ASSUME NEW c \in Clients, CancelsTurn(c) PROVE Causes
  <2> DEFINE y == table[Session(c)]
  <2>1. y \in Clients /\ Session(y) = Session(c) /\ client[c].pinned # 0
    BY <1>18 DEF CancelsTurn, Entries, Members, Created
  <2>2. \A x \in Clients : turn'[x].token = turn[x].token
    BY <1>18, Cancellations DEF Reaches
  <2>3. client'[c].command = "cancel" /\ client'[c].pinned = client[c].pinned
    BY <1>18 DEF CancelsTurn, Spoke
  <2>4. \A x \in Clients : turn'[x].cancel = "canceled" =>
        \/ turn[x].cancel = "canceled"
        \/ x = y /\ ~OtherTurn(y, client[c].pinned) /\ turn'[x].asked = <<client[c].pinned, turn[x].token>>
    BY <1>18 DEF CancelsTurn, CanceledAs, CanceledFields
  <2> QED  BY <2>1, <2>2, <2>3, <2>4 DEF OtherTurn
<1>19. ASSUME NEW c \in Clients, CancelsAlone(c) PROVE Causes
  BY <1>19 DEF CancelsAlone, Spoke, Serves
<1>20. ASSUME NEW c \in Clients, Breaks(c) PROVE Causes
  <2> DEFINE y == table[Session(c)]
  <2>1. y # None => Session(y) = Session(c)
    BY <1>20 DEF Entries, Members
  <2>2. \A x \in Clients : turn'[x].token = turn[x].token
    BY <1>20, Cancellations DEF Reaches
  <2>3. client'[c].interrupted
    BY <1>20 DEF Breaks, Broke
  <2>4. \A x \in Clients : turn'[x].cancel = "canceled" =>
        turn[x].cancel = "canceled" \/ (x = y /\ y # None)
    BY <1>20 DEF Breaks, CanceledAs, CanceledFields
  <2> QED  BY <2>1, <2>2, <2>3, <2>4
<1>21. ASSUME NEW c \in Clients, BeginsToRestore(c) PROVE Causes
  BY <1>21 DEF BeginsToRestore, Staged
<1>22. ASSUME NEW c \in Clients, Enqueues(c) PROVE Causes
  BY <1>22 DEF Enqueues, Staged, Queued, EntersSlot
<1>23. ASSUME NEW c \in Clients, IsRestored(c) PROVE Causes
  BY <1>23 DEF IsRestored, Prepared, Queued, EntersSlot
<1>24. ASSUME NEW c \in Clients, IsNotRestored(c) PROVE Causes
  <2>1. \A x \in Clients :
        /\ turn'[x].cancel = turn[x].cancel
        /\ turn'[x].token = turn[x].token
    BY <1>24 DEF IsNotRestored, Left, Stopped, Closed, Finishes
  <2> QED  BY <2>1
<1>25. ASSUME NEW c \in Clients, IsNext(c) PROVE Causes
  BY <1>25 DEF IsNext, Staged
<1>26. ASSUME NEW c \in Clients, Drives(c) PROVE Causes
  BY <1>26 DEF Drives, Staged
<1>27. ASSUME NEW c \in Clients, RunIsOver(c) PROVE Causes
  <2>1. \A x \in Clients :
        /\ turn'[x].cancel = turn[x].cancel
        /\ turn'[x].token = turn[x].token
    BY <1>27 DEF RunIsOver, Left, Stopped, Closed, Finishes
  <2> QED  BY <2>1
<1>28. ASSUME NEW c \in Clients, StartIsCanceled(c) PROVE Causes
  <2>1. \A x \in Clients :
        /\ turn'[x].cancel = turn[x].cancel
        /\ turn'[x].token = turn[x].token
    BY <1>28 DEF StartIsCanceled, Left, Stopped, Closed, Finishes
  <2> QED  BY <2>1
<1>29. ASSUME NEW c \in Clients, Leaks(c) PROVE Causes
  BY <1>29 DEF Leaks, Stopped
<1>30. ASSUME NEW c \in Clients, PreparationIsCanceled(c) PROVE Causes
  <2>1. \A x \in Clients :
        /\ turn'[x].cancel = turn[x].cancel
        /\ turn'[x].token = turn[x].token
    BY <1>30 DEF PreparationIsCanceled, Left, Stopped, Closed, Finishes
  <2> QED  BY <2>1
<1>31. ASSUME NEW c \in Clients, PreparationIsKilled(c) PROVE Causes
  BY <1>31 DEF PreparationIsKilled, Stopped
<1>32. ASSUME NEW c \in Clients, IsStruck(c) PROVE Causes
  BY <1>32 DEF IsStruck, Struck
<1>33. ASSUME NEW c \in Clients, IsClosed(c) PROVE Causes
  <2>1. \A x \in Clients :
        /\ turn'[x].cancel = turn[x].cancel
        /\ turn'[x].token = turn[x].token
    BY <1>33 DEF IsClosed, Left, Stopped, Closed, Finishes
  <2> QED  BY <2>1
<1>34. ASSUME NEW c \in Clients, IsAbandoned(c) PROVE Causes
  BY <1>34 DEF IsAbandoned, Shot
<1> QED
  BY <1>1, <1>2, <1>3, <1>4, <1>5, <1>6, <1>7, <1>8, <1>9, <1>10, <1>11, <1>12, <1>13,
    <1>14, <1>15, <1>16, <1>17, <1>18, <1>19, <1>20, <1>21, <1>22, <1>23, <1>24,
    <1>25, <1>26, <1>27, <1>28, <1>29, <1>30, <1>31, <1>32, <1>33, <1>34 DEF Effect

\* And that goes on being so.
LEMMA ReasonsStep ==
  ASSUME Reasons, Causes, Recalls PROVE Reasons'
BY DEF Reasons, Causes, Recalls, Session

\* A step that leaves a session canceled has somebody who asked for it: the
\* finalizations name the turn they end, and the rest names a first turn.
LEMMA Explaining ==
  ASSUME Members, Backups, Numbered, Created, Dispatching, Fresh, Waiting, Listed,
         Entries, Claimed, Cancels, Reasons, Opening, OnDisk, Reported, Effect PROVE
         Explained
<1> USE DEF Explained, Members, Cancels
<1>1. ASSUME Quiet PROVE Explained
  BY <1>1 DEF Quiet
<1>2. ASSUME ShutsDown PROVE Explained
  BY <1>2 DEF ShutsDown
<1>3. ASSUME IsCleared PROVE Explained
  BY <1>3 DEF IsCleared
<1>4. ASSUME IsGone PROVE Explained
  BY <1>4 DEF IsGone
<1>5. ASSUME NEW c \in Clients, Creates(c) PROVE Explained
  BY <1>5 DEF Creates, Began, DiskAt
<1>6. ASSUME NEW c \in Clients, Continues(c) PROVE Explained
  BY <1>6 DEF Continues, Began
<1>7. ASSUME NEW c \in Clients, Observes(c) PROVE Explained
  BY <1>7 DEF Observes, Began
<1>8. ASSUME NEW c \in Clients, Goes(c) PROVE Explained
  BY <1>8 DEF Goes, Parted, Spoke
<1>9. ASSUME NEW c \in Clients, FailsSession(c) PROVE Explained
  <2>1. \A z \in Sessions : disk'[z].turns = disk[z].turns
        /\ (disk'[z].state = "canceled" => disk[z].state = "canceled")
    BY <1>9 DEF FailsSession, Ended
  <2> QED  BY <2>1
<1>10. ASSUME NEW c \in Clients, IsLost(c) PROVE Explained
  BY <1>10 DEF IsLost, Parted, Spoke, AfterOutcome
<1>11. ASSUME NEW c \in Clients, IsRefused(c) PROVE Explained
  BY <1>11 DEF IsRefused, Spoke, DiskAt, Serves
<1>12. ASSUME NEW c \in Clients, StartsNext(c) PROVE Explained
  BY <1>12 DEF StartsNext, Entered, Spoke, DiskAt, TableAt, Serves
<1>13. ASSUME NEW c \in Clients, StartsFirst(c) PROVE Explained
  BY <1>13 DEF StartsFirst, Entered, Spoke, TableAt, Serves
<1>14. ASSUME NEW c \in Clients, IsAccepted(c) PROVE Explained
  BY <1>14 DEF IsAccepted, Claiming, Reached
<1>15. ASSUME NEW c \in Clients, StartIsUndone(c) PROVE Explained
  <2>1. disk'[Session(c)].state = "canceled" /\ DiskAt(Session(c), RolledBack(c)) =>
        Asked(Session(c), disk'[Session(c)].turns)
    BY DEF DiskAt, RolledBack, Backups, Cancels, Members
  <2>2. DiskAt(Session(c), RolledBack(c)) \/ Ended(Session(c), "failed", 0)
    BY <1>15 DEF StartIsUndone
  <2>3. \A z \in Sessions : z # Session(c) => disk'[z].turns = disk[z].turns /\ disk'[z].state = disk[z].state
    BY <2>2 DEF DiskAt, Ended
  <2>4. Ended(Session(c), "failed", 0) => disk'[Session(c)].turns = disk[Session(c)].turns
        /\ (disk'[Session(c)].state = "canceled" => disk[Session(c)].state = "canceled")
    BY DEF Ended, Members
  <2> QED  BY <2>1, <2>2, <2>3, <2>4
<1>16. ASSUME NEW c \in Clients, Joins(c) PROVE Explained
  BY <1>16 DEF Joins, Joined, Spoke, Serves
<1>17. ASSUME NEW c \in Clients, FindsNothing(c) PROVE Explained
  BY <1>17 DEF FindsNothing, Spoke, Serves
<1>18. ASSUME NEW c \in Clients, CancelsTurn(c) PROVE Explained
  <2>1. /\ Reaches(table[Session(c)])
        /\ table[Session(c)] # None => turn[table[Session(c)]].stage \notin {"none", "refused"}
    BY <1>18, Cancellations
  <2> QED  BY <1>18, <2>1 DEF CancelsTurn, Reaches, Spoke
<1>19. ASSUME NEW c \in Clients, CancelsAlone(c) PROVE Explained
  <2>1. disk[Session(c)].state = "starting" => Asked(Session(c), disk[Session(c)].turns)
    BY <1>19 DEF CancelsAlone, Opening, Asked, Members
  <2>2. \A z \in Sessions : disk'[z].turns = disk[z].turns
        /\ (disk'[z].state = disk[z].state \/ (z = Session(c) /\ disk[z].state = "starting"))
    BY <1>19 DEF CancelsAlone
  <2> QED  BY <2>1, <2>2
<1>20. ASSUME NEW c \in Clients, Breaks(c) PROVE Explained
  <2>1. /\ Reaches(table[Session(c)])
        /\ table[Session(c)] # None => turn[table[Session(c)]].stage \notin {"none", "refused"}
    BY <1>20, Cancellations
  <2> QED  BY <1>20, <2>1 DEF Breaks, Reaches, Broke
<1>21. ASSUME NEW c \in Clients, BeginsToRestore(c) PROVE Explained
  BY <1>21 DEF BeginsToRestore, Staged
<1>22. ASSUME NEW c \in Clients, Enqueues(c) PROVE Explained
  BY <1>22 DEF Enqueues, Staged, Queued, EntersSlot
<1>23. ASSUME NEW c \in Clients, IsRestored(c) PROVE Explained
  BY <1>23 DEF IsRestored, Prepared, Queued, EntersSlot
<1>24. ASSUME NEW c \in Clients, IsNotRestored(c) PROVE Explained
  <2>1. disk'[Session(c)].state = "canceled" /\ DiskAt(Session(c), RolledBack(c)) =>
        Asked(Session(c), disk'[Session(c)].turns)
    BY DEF DiskAt, RolledBack, Backups, Cancels, Members
  <2>2. DiskAt(Session(c), RolledBack(c)) \/ Ended(Session(c), "failed", disk[Session(c)].turns)
    BY <1>24 DEF IsNotRestored
  <2>3. \A z \in Sessions : z # Session(c) => disk'[z].turns = disk[z].turns /\ disk'[z].state = disk[z].state
    BY <2>2 DEF DiskAt, Ended
  <2>4. Ended(Session(c), "failed", disk[Session(c)].turns) => disk'[Session(c)].turns = disk[Session(c)].turns
        /\ (disk'[Session(c)].state = "canceled" => disk[Session(c)].state = "canceled")
    BY DEF Ended, Members
  <2> QED  BY <2>1, <2>2, <2>3, <2>4
<1>25. ASSUME NEW c \in Clients, IsNext(c) PROVE Explained
  BY <1>25 DEF IsNext, Staged
<1>26. ASSUME NEW c \in Clients, Drives(c) PROVE Explained
  BY <1>26 DEF Drives, Staged
<1>27. ASSUME NEW c \in Clients, RunIsOver(c) PROVE Explained
  <2>1. PICK v \in {"succeeded", "failed"} :
            Ended(Session(c), IF turn[c].cancel = "none" THEN v ELSE turn[c].cancel, RequestToken(c))
    BY <1>27 DEF RunIsOver
  <2>2. turn[c].cancel = "canceled" =>
        \/ \A m : Asked(Session(c), m)
        \/ turn[c].token # 0 /\ Asked(Session(c), turn[c].token)
    BY DEF Reasons, Asked
  <2>3. turn[c].token # 0
    BY <1>27 DEF RunIsOver, Claimed
  <2>4. Deferred(c) \/ (turn[c].token = 1 /\ disk[Session(c)].turns = 1)
    BY <1>27 DEF RunIsOver, Dispatching, Dispatches, Deferred, OnDisk, Reported, First, Live, Claimed
  <2>5. \A z \in Sessions :
        /\ disk'[z].turns = disk[z].turns
        /\ disk'[z].state = "canceled" =>
                \/ disk[z].state = "canceled"
                \/ z = Session(c) /\ turn[c].cancel = "canceled" /\ RequestToken(c) \in {0, disk[z].turns}
    BY <2>1 DEF Ended
  <2>6. ASSUME NEW z \in Sessions, z = Session(c), turn[c].cancel = "canceled",
               RequestToken(c) \in {0, disk[z].turns}
        PROVE  Asked(z, disk[z].turns)
    <3>1. turn[c].token = disk[z].turns
      BY <2>3, <2>4, <2>6 DEF RequestToken
    <3> QED  BY <2>2, <2>6, <3>1
  <2>7. ASSUME NEW z \in Sessions, disk'[z].state = "canceled" PROVE Asked(z, disk'[z].turns)
    <3>1. Asked(z, disk[z].turns)
      BY <2>5, <2>6, <2>7 DEF Cancels
    <3>2. disk'[z].turns = disk[z].turns
      BY <2>5
    <3> QED  BY <3>1, <3>2
  <2> QED  BY <2>7 DEF Explained
<1>28. ASSUME NEW c \in Clients, StartIsCanceled(c) PROVE Explained
  <2>1. turn[c].cancel = "canceled" =>
        \/ \A m : Asked(Session(c), m)
        \/ turn[c].token # 0 /\ Asked(Session(c), turn[c].token)
    BY DEF Reasons, Asked
  <2>2. turn[c].token = 0 /\ turn[c].cancel = "canceled"
    BY <1>28 DEF StartIsCanceled, Claimed
  <2>3. \A z \in Sessions : disk'[z].turns = disk[z].turns
        /\ (z # Session(c) => disk'[z].state = disk[z].state)
    BY <1>28 DEF StartIsCanceled, Ended
  <2> QED  BY <2>1, <2>2, <2>3
<1>29. ASSUME NEW c \in Clients, Leaks(c) PROVE Explained
  BY <1>29 DEF Leaks, Stopped
<1>30. ASSUME NEW c \in Clients, PreparationIsCanceled(c) PROVE Explained
  <2>1. turn[c].cancel = "canceled" =>
        \/ \A m : Asked(Session(c), m)
        \/ turn[c].token # 0 /\ Asked(Session(c), turn[c].token)
    BY DEF Reasons, Asked
  <2>2. turn[c].token # 0 /\ turn[c].cancel = "canceled"
    BY <1>30 DEF PreparationIsCanceled, Claimed
  <2>3. \A z \in Sessions : disk'[z].turns = disk[z].turns
        /\ (disk'[z].state = disk[z].state \/ (z = Session(c) /\ turn[c].token = disk[z].turns))
    BY <1>30 DEF PreparationIsCanceled, Ended, Claimed
  <2> QED  BY <2>1, <2>2, <2>3
<1>31. ASSUME NEW c \in Clients, PreparationIsKilled(c) PROVE Explained
  BY <1>31 DEF PreparationIsKilled, Stopped
<1>32. ASSUME NEW c \in Clients, IsStruck(c) PROVE Explained
  BY <1>32 DEF IsStruck, Struck
<1>33. ASSUME NEW c \in Clients, IsClosed(c) PROVE Explained
  <2>1. \A z \in Sessions : disk'[z].turns = disk[z].turns
        /\ (disk'[z].state = "canceled" => disk[z].state = "canceled")
    BY <1>33 DEF IsClosed, Ended
  <2> QED  BY <2>1
<1>34. ASSUME NEW c \in Clients, IsAbandoned(c) PROVE Explained
  BY <1>34 DEF IsAbandoned, Shot
<1> QED
  BY <1>1, <1>2, <1>3, <1>4, <1>5, <1>6, <1>7, <1>8, <1>9, <1>10, <1>11, <1>12, <1>13,
    <1>14, <1>15, <1>16, <1>17, <1>18, <1>19, <1>20, <1>21, <1>22, <1>23, <1>24,
    <1>25, <1>26, <1>27, <1>28, <1>29, <1>30, <1>31, <1>32, <1>33, <1>34 DEF Effect

\* So every canceled session has.
LEMMA CancelsStep ==
  ASSUME Explained, Recalls, Numbered' PROVE Cancels'
<1>1. \A s, n : n # 0 /\ Asked(s, n) => Asked(s, n)'
  <2> SUFFICES ASSUME NEW s, NEW n, n # 0, Asked(s, n) PROVE Asked(s, n)'
    OBVIOUS
  <2> QED  BY DEF Recalls, Asked, Session
<1> QED  BY <1>1 DEF Explained, Cancels, Numbered, Asked

\* A waiter is told once, by the turn it joined.
LEMMA WaitingStep ==
  ASSUME Members, Backups, Numbered, Created, Dispatching, Fresh, Waiting, Listed,
         Entries, Effect PROVE Waiting'
<1> USE DEF Waiting, Session
<1>1. ASSUME Quiet PROVE Waiting'
  BY <1>1 DEF Quiet
<1>2. ASSUME ShutsDown PROVE Waiting'
  BY <1>2 DEF ShutsDown
<1>3. ASSUME IsCleared PROVE Waiting'
  BY <1>3 DEF IsCleared
<1>4. ASSUME IsGone PROVE Waiting'
  BY <1>4 DEF IsGone
<1>5. ASSUME NEW c \in Clients, Creates(c) PROVE Waiting'
  BY <1>5 DEF Creates, Began, DiskAt
<1>6. ASSUME NEW c \in Clients, Continues(c) PROVE Waiting'
  BY <1>6 DEF Continues, Began
<1>7. ASSUME NEW c \in Clients, Observes(c) PROVE Waiting'
  BY <1>7 DEF Observes, Began
<1>8. ASSUME NEW c \in Clients, Goes(c) PROVE Waiting'
  <2>1. \A x \in Clients : turn'[x].waiters = turn[x].waiters \ {c}
    BY <1>8 DEF Goes, Parted
  <2>2. \A w \in Clients : client'[w].session = client[w].session /\ (w # c => client'[w].pc = client[w].pc)
    BY <1>8 DEF Goes, Spoke
  <2> QED  BY <2>1, <2>2
<1>9. ASSUME NEW c \in Clients, FailsSession(c) PROVE Waiting'
  BY <1>9 DEF FailsSession, Spoke, Ended
<1>10. ASSUME NEW c \in Clients, IsLost(c) PROVE Waiting'
  <2>1. \A x \in Clients : turn'[x].waiters = turn[x].waiters \ {c}
    BY <1>10 DEF IsLost, Parted
  <2>2. \A w \in Clients : client'[w].session = client[w].session /\ (w # c => client'[w].pc = client[w].pc)
    BY <1>10 DEF IsLost, Spoke
  <2> QED  BY <2>1, <2>2
<1>11. ASSUME NEW c \in Clients, IsRefused(c) PROVE Waiting'
  BY <1>11 DEF IsRefused, Spoke, DiskAt, Serves
<1>12. ASSUME NEW c \in Clients, StartsNext(c) PROVE Waiting'
  BY <1>12 DEF StartsNext, Entered, Spoke, DiskAt, TableAt, Serves
<1>13. ASSUME NEW c \in Clients, StartsFirst(c) PROVE Waiting'
  BY <1>13 DEF StartsFirst, Entered, Spoke, TableAt, Serves
<1>14. ASSUME NEW c \in Clients, IsAccepted(c) PROVE Waiting'
  BY <1>14 DEF IsAccepted, Claiming, Reached
<1>15. ASSUME NEW c \in Clients, StartIsUndone(c) PROVE Waiting'
  <2>1. \A x \in Clients : turn'[x].waiters = turn[x].waiters
    BY <1>15 DEF StartIsUndone, Stopped
  <2>2. \A w \in Clients : client'[w].session = client[w].session
        /\ (client[w].pc = "waiting" => client'[w].pc = "waiting")
    BY <1>15 DEF StartIsUndone, Reached
  <2> QED  BY <2>1, <2>2
<1>16. ASSUME NEW c \in Clients, Joins(c) PROVE Waiting'
  <2>1. \A x \in Clients :
        /\ x # table[Session(c)] => turn'[x].waiters = turn[x].waiters
        /\ x = table[Session(c)] => turn'[x].waiters = turn[x].waiters \cup {c}
    BY <1>16 DEF Joins, Joined
  <2>2. table[Session(c)] \in Clients /\ Session(table[Session(c)]) = Session(c)
    BY <1>16 DEF Joins, Entries, Members
  <2>3. \A x, w \in Clients : w \in turn'[x].waiters <=>
        w \in turn[x].waiters \/ (x = table[Session(c)] /\ w = c)
    BY <2>1
  <2>4. \A x \in Clients : c \notin turn[x].waiters
    BY <1>16 DEF Joins, Waiting
  <2>5. \A w \in Clients : client'[w].session = client[w].session
        /\ client'[w].pc = IF w = c THEN "waiting" ELSE client[w].pc
    BY <1>16 DEF Joins, Spoke
  <2> QED  BY <2>2, <2>3, <2>4, <2>5
<1>17. ASSUME NEW c \in Clients, FindsNothing(c) PROVE Waiting'
  BY <1>17 DEF FindsNothing, Spoke, Serves
<1>18. ASSUME NEW c \in Clients, CancelsTurn(c) PROVE Waiting'
  <2>1. Reaches(table[Session(c)])
    BY <1>18, Cancellations
  <2>2. \A w \in Clients : client'[w].session = client[w].session
        /\ (client[w].pc = "waiting" => client'[w].pc = "waiting")
    BY <1>18 DEF CancelsTurn, Spoke, Broke
  <2> QED  BY <2>1, <2>2 DEF Reaches
<1>19. ASSUME NEW c \in Clients, CancelsAlone(c) PROVE Waiting'
  BY <1>19 DEF CancelsAlone, Spoke, Serves
<1>20. ASSUME NEW c \in Clients, Breaks(c) PROVE Waiting'
  <2>1. Reaches(table[Session(c)])
    BY <1>20, Cancellations
  <2>2. \A w \in Clients : client'[w].session = client[w].session
        /\ (client[w].pc = "waiting" => client'[w].pc = "waiting")
    BY <1>20 DEF Breaks, Spoke, Broke
  <2> QED  BY <2>1, <2>2 DEF Reaches
<1>21. ASSUME NEW c \in Clients, BeginsToRestore(c) PROVE Waiting'
  BY <1>21 DEF BeginsToRestore, Staged
<1>22. ASSUME NEW c \in Clients, Enqueues(c) PROVE Waiting'
  BY <1>22 DEF Enqueues, Staged, Queued, EntersSlot
<1>23. ASSUME NEW c \in Clients, IsRestored(c) PROVE Waiting'
  BY <1>23 DEF IsRestored, Prepared, Queued, EntersSlot
<1>24. ASSUME NEW c \in Clients, IsNotRestored(c) PROVE Waiting'
  <2>1. \A x \in Clients : turn'[x].waiters = IF x = table[Session(c)] THEN {} ELSE turn[x].waiters
    BY <1>24 DEF IsNotRestored, Left, Closed, Finishes
  <2>2. \A w \in Clients : client'[w].session = client[w].session
        /\ (client[w].pc = "waiting" /\ client'[w].pc # "waiting" => table[Session(c)] # None /\ w \in turn[table[Session(c)]].waiters)
    BY <1>24 DEF IsNotRestored, Heard, Learned, Finishes
  <2>3. Session(c) \in Sessions /\ table[Session(c)] \in Clients \cup {None}
    BY <1>24 DEF IsNotRestored, Members
  <2> QED  BY <2>1, <2>2, <2>3
<1>25. ASSUME NEW c \in Clients, IsNext(c) PROVE Waiting'
  BY <1>25 DEF IsNext, Staged
<1>26. ASSUME NEW c \in Clients, Drives(c) PROVE Waiting'
  BY <1>26 DEF Drives, Staged
<1>27. ASSUME NEW c \in Clients, RunIsOver(c) PROVE Waiting'
  <2>1. \A x \in Clients : turn'[x].waiters = IF x = table[Session(c)] THEN {} ELSE turn[x].waiters
    BY <1>27 DEF RunIsOver, Left, Closed, Finishes
  <2>2. \A w \in Clients : client'[w].session = client[w].session
        /\ (client[w].pc = "waiting" /\ client'[w].pc # "waiting" => table[Session(c)] # None /\ w \in turn[table[Session(c)]].waiters)
    BY <1>27 DEF RunIsOver, Heard, Learned, Finishes
  <2>3. Session(c) \in Sessions /\ table[Session(c)] \in Clients \cup {None}
    BY <1>27 DEF RunIsOver, Members
  <2> QED  BY <2>1, <2>2, <2>3
<1>28. ASSUME NEW c \in Clients, StartIsCanceled(c) PROVE Waiting'
  <2>1. \A x \in Clients : turn'[x].waiters = IF x = table[Session(c)] THEN {} ELSE turn[x].waiters
    BY <1>28 DEF StartIsCanceled, Left, Closed, Finishes
  <2>2. \A w \in Clients : client'[w].session = client[w].session
        /\ (client[w].pc = "waiting" /\ client'[w].pc # "waiting" => table[Session(c)] # None /\ w \in turn[table[Session(c)]].waiters)
    BY <1>28 DEF StartIsCanceled, Heard, Learned, Finishes
  <2>3. Session(c) \in Sessions /\ table[Session(c)] \in Clients \cup {None}
    BY <1>28 DEF StartIsCanceled, Members
  <2> QED  BY <2>1, <2>2, <2>3
<1>29. ASSUME NEW c \in Clients, Leaks(c) PROVE Waiting'
  BY <1>29 DEF Leaks, Stopped
<1>30. ASSUME NEW c \in Clients, PreparationIsCanceled(c) PROVE Waiting'
  <2>1. \A x \in Clients : turn'[x].waiters = IF x = table[Session(c)] THEN {} ELSE turn[x].waiters
    BY <1>30 DEF PreparationIsCanceled, Left, Closed, Finishes
  <2>2. \A w \in Clients : client'[w].session = client[w].session
        /\ (client[w].pc = "waiting" /\ client'[w].pc # "waiting" => table[Session(c)] # None /\ w \in turn[table[Session(c)]].waiters)
    BY <1>30 DEF PreparationIsCanceled, Heard, Learned, Finishes
  <2>3. Session(c) \in Sessions /\ table[Session(c)] \in Clients \cup {None}
    BY <1>30 DEF PreparationIsCanceled, Members
  <2> QED  BY <2>1, <2>2, <2>3
<1>31. ASSUME NEW c \in Clients, PreparationIsKilled(c) PROVE Waiting'
  BY <1>31 DEF PreparationIsKilled, Stopped
<1>32. ASSUME NEW c \in Clients, IsStruck(c) PROVE Waiting'
  BY <1>32 DEF IsStruck, Struck
<1>33. ASSUME NEW c \in Clients, IsClosed(c) PROVE Waiting'
  <2>1. \A x \in Clients : turn'[x].waiters = IF x = c THEN {} ELSE turn[x].waiters
    BY <1>33 DEF IsClosed, Left, Closed, Finishes
  <2>2. \A w \in Clients : client'[w].session = client[w].session
        /\ (client[w].pc = "waiting" /\ client'[w].pc # "waiting" => c # None /\ w \in turn[c].waiters)
    BY <1>33 DEF IsClosed, Heard, Learned, Finishes
  <2>3. Session(c) \in Sessions /\ c \in Clients \cup {None}
    BY <1>33 DEF IsClosed, Members
  <2> QED  BY <2>1, <2>2, <2>3
<1>34. ASSUME NEW c \in Clients, IsAbandoned(c) PROVE Waiting'
  BY <1>34 DEF IsAbandoned, Shot
<1> QED
  BY <1>1, <1>2, <1>3, <1>4, <1>5, <1>6, <1>7, <1>8, <1>9, <1>10, <1>11, <1>12, <1>13,
    <1>14, <1>15, <1>16, <1>17, <1>18, <1>19, <1>20, <1>21, <1>22, <1>23, <1>24,
    <1>25, <1>26, <1>27, <1>28, <1>29, <1>30, <1>31, <1>32, <1>33, <1>34 DEF Effect

\* The queue holds the queued turns, each once.
LEMMA QueueingStep ==
  ASSUME Members, Backups, Numbered, Created, Dispatching, Fresh, Waiting, Listed,
         Entries, Queueing, Placed, Effect PROVE Queueing'
<1>1. ASSUME Quiet PROVE Queueing'
  BY <1>1 DEF Quiet, Queueing
<1>2. ASSUME ShutsDown PROVE Queueing'
  BY <1>2 DEF ShutsDown, Queueing
<1>3. ASSUME IsCleared PROVE Queueing'
  BY <1>3 DEF IsCleared, Queueing
<1>4. ASSUME IsGone PROVE Queueing'
  BY <1>4 DEF IsGone, Queueing
<1>5. ASSUME NEW c \in Clients, Creates(c) PROVE Queueing'
  BY <1>5 DEF Creates, Began, DiskAt, Queueing
<1>6. ASSUME NEW c \in Clients, Continues(c) PROVE Queueing'
  BY <1>6 DEF Continues, Began, Queueing
<1>7. ASSUME NEW c \in Clients, Observes(c) PROVE Queueing'
  BY <1>7 DEF Observes, Began, Queueing
<1>8. ASSUME NEW c \in Clients, Goes(c) PROVE Queueing'
  <2>1. \A x \in Clients :
        /\ turn'[x].stage = turn[x].stage
    BY <1>8 DEF Goes, Parted, Spoke
  <2> QED  BY <1>8, <2>1 DEF Goes, Queueing
<1>9. ASSUME NEW c \in Clients, FailsSession(c) PROVE Queueing'
  BY <1>9 DEF FailsSession, Spoke, Ended, Queueing
<1>10. ASSUME NEW c \in Clients, IsLost(c) PROVE Queueing'
  <2>1. \A x \in Clients :
        /\ turn'[x].stage = turn[x].stage
    BY <1>10 DEF IsLost, Parted, Spoke, AfterOutcome
  <2> QED  BY <1>10, <2>1 DEF IsLost, Queueing
<1>11. ASSUME NEW c \in Clients, IsRefused(c) PROVE Queueing'
  BY <1>11 DEF IsRefused, Spoke, DiskAt, Serves, Queueing
<1>12. ASSUME NEW c \in Clients, StartsNext(c) PROVE Queueing'
  BY <1>12 DEF StartsNext, Entered, Spoke, DiskAt, TableAt, Serves, Queueing, Fresh,
    Untouched
<1>13. ASSUME NEW c \in Clients, StartsFirst(c) PROVE Queueing'
  BY <1>13 DEF StartsFirst, Entered, Spoke, TableAt, Serves, Queueing, Fresh,
    Untouched
<1>14. ASSUME NEW c \in Clients, IsAccepted(c) PROVE Queueing'
  BY <1>14 DEF IsAccepted, Claiming, Reached, Queueing
<1>15. ASSUME NEW c \in Clients, StartIsUndone(c) PROVE Queueing'
  <2>1. queue' = queue
    BY <1>15 DEF StartIsUndone
  <2>2. \A x \in Clients : turn'[x].stage = "queued" <=> turn[x].stage = "queued"
    BY <1>15 DEF StartIsUndone, Stopped, Left, Closed, Live
  <2> QED  BY <2>1, <2>2 DEF Queueing
<1>16. ASSUME NEW c \in Clients, Joins(c) PROVE Queueing'
  <2>1. \A x \in Clients :
        /\ turn'[x].stage = turn[x].stage
    BY <1>16 DEF Joins, Joined, Spoke, Serves
  <2> QED  BY <1>16, <2>1 DEF Joins, Serves, Queueing
<1>17. ASSUME NEW c \in Clients, FindsNothing(c) PROVE Queueing'
  BY <1>17 DEF FindsNothing, Spoke, Serves, Queueing
<1>18. ASSUME NEW c \in Clients, CancelsTurn(c) PROVE Queueing'
  <2>1. queue' = queue
    BY <1>18 DEF CancelsTurn
  <2>2. \A x \in Clients : turn'[x].stage = turn[x].stage
    BY <1>18, Cancellations DEF Reaches
  <2> QED  BY <2>1, <2>2 DEF Queueing
<1>19. ASSUME NEW c \in Clients, CancelsAlone(c) PROVE Queueing'
  BY <1>19 DEF CancelsAlone, Spoke, Serves, Queueing
<1>20. ASSUME NEW c \in Clients, Breaks(c) PROVE Queueing'
  <2>1. queue' = queue
    BY <1>20 DEF Breaks
  <2>2. \A x \in Clients : turn'[x].stage = turn[x].stage
    BY <1>20, Cancellations DEF Reaches
  <2> QED  BY <2>1, <2>2 DEF Queueing
<1>21. ASSUME NEW c \in Clients, BeginsToRestore(c) PROVE Queueing'
  BY <1>21 DEF BeginsToRestore, Staged, Queueing
<1>22. ASSUME NEW c \in Clients, Enqueues(c) PROVE Queueing'
  <2>1. queue' = queue \/ queue' = Append(queue, c)
    BY <1>22 DEF Enqueues, Queued
  <2>2. turn'[c].stage = EntersSlot(c) /\ turn[c].stage # "queued"
    BY <1>22 DEF Enqueues, Staged
  <2>3. \A x \in Clients : x # c => turn'[x].stage = turn[x].stage
    BY <1>22 DEF Enqueues, Staged
  <2>4. CASE EntersSlot(c) = "queued"
    <3>1. queue' = Append(queue, c)
      BY <1>22, <2>4 DEF Enqueues, Queued
    <3>2. /\ DOMAIN queue = 1..Len(queue) /\ DOMAIN queue' = 1..(Len(queue) + 1)
          /\ \A i \in DOMAIN queue : queue'[i] = queue[i]
          /\ queue'[Len(queue) + 1] = c /\ Len(queue) \in Nat
      BY <3>1 DEF Placed
    <3>3. \A i \in DOMAIN queue : queue[i] # c
      BY <2>2 DEF Queueing
    <3>4. \A i, j \in DOMAIN queue' : queue'[i] = queue'[j] => i = j
      BY <3>2, <3>3 DEF Queueing
    <3>5. \A e \in Clients : (\E i \in DOMAIN queue' : queue'[i] = e)
                <=> e = c \/ \E i \in DOMAIN queue : queue[i] = e
      BY <3>2
    <3> QED  BY <2>2, <2>3, <2>4, <3>4, <3>5 DEF Queueing
  <2>5. CASE EntersSlot(c) # "queued"
    <3>1. queue' = queue
      BY <1>22, <2>5 DEF Enqueues, Queued
    <3> QED  BY <2>2, <2>3, <2>5, <3>1 DEF Queueing
  <2> QED  BY <2>4, <2>5
<1>23. ASSUME NEW c \in Clients, IsRestored(c) PROVE Queueing'
  <2>1. queue' = queue \/ queue' = Append(queue, c)
    BY <1>23 DEF IsRestored, Queued
  <2>2. turn'[c].stage = EntersSlot(c) /\ turn[c].stage # "queued"
    BY <1>23 DEF IsRestored, Prepared
  <2>3. \A x \in Clients : x # c => turn'[x].stage = turn[x].stage
    BY <1>23 DEF IsRestored, Prepared
  <2>4. CASE EntersSlot(c) = "queued"
    <3>1. queue' = Append(queue, c)
      BY <1>23, <2>4 DEF IsRestored, Queued
    <3>2. /\ DOMAIN queue = 1..Len(queue) /\ DOMAIN queue' = 1..(Len(queue) + 1)
          /\ \A i \in DOMAIN queue : queue'[i] = queue[i]
          /\ queue'[Len(queue) + 1] = c /\ Len(queue) \in Nat
      BY <3>1 DEF Placed
    <3>3. \A i \in DOMAIN queue : queue[i] # c
      BY <2>2 DEF Queueing
    <3>4. \A i, j \in DOMAIN queue' : queue'[i] = queue'[j] => i = j
      BY <3>2, <3>3 DEF Queueing
    <3>5. \A e \in Clients : (\E i \in DOMAIN queue' : queue'[i] = e)
                <=> e = c \/ \E i \in DOMAIN queue : queue[i] = e
      BY <3>2
    <3> QED  BY <2>2, <2>3, <2>4, <3>4, <3>5 DEF Queueing
  <2>5. CASE EntersSlot(c) # "queued"
    <3>1. queue' = queue
      BY <1>23, <2>5 DEF IsRestored, Queued
    <3> QED  BY <2>2, <2>3, <2>5, <3>1 DEF Queueing
  <2> QED  BY <2>4, <2>5
<1>24. ASSUME NEW c \in Clients, IsNotRestored(c) PROVE Queueing'
  <2>1. queue' = LeavesQueue(c)
    BY <1>24 DEF IsNotRestored, Finishes
  <2>2. /\ \A e \in Clients : (\E i \in DOMAIN queue' : queue'[i] = e)
                <=> e # c /\ \E i \in DOMAIN queue : queue[i] = e
        /\ \A i, j \in DOMAIN queue' : queue'[i] = queue'[j] => i = j
    BY ZenonT(30), <2>1, QueueLeft DEF Placed
  <2>3. \A x \in Clients : turn'[x].stage = IF x = c THEN "ended" ELSE turn[x].stage
    BY <1>24 DEF IsNotRestored, Finishes, Left
  <2> QED  BY <2>2, <2>3 DEF Queueing
<1>25. ASSUME NEW c \in Clients, IsNext(c) PROVE Queueing'
  <2>1. queue # <<>> /\ Head(queue) = c /\ queue' = Tail(queue)
    BY <1>25 DEF IsNext
  <2>2. \A x \in Clients : turn'[x].stage = IF x = c THEN "opening" ELSE turn[x].stage
    BY <1>25 DEF IsNext, Staged
  <2>3. /\ DOMAIN queue = 1..Len(queue) /\ Len(queue) \in Nat \ {0}
        /\ DOMAIN queue' = 1..(Len(queue) - 1) /\ queue[1] = c
        /\ \A i \in DOMAIN queue' : queue'[i] = queue[i + 1]
    BY <2>1 DEF Placed
  <2>4. \A i, j \in DOMAIN queue' : queue'[i] = queue'[j] => i = j
    BY <2>3 DEF Queueing
  <2>5. \A i \in DOMAIN queue' : queue'[i] # c /\ i + 1 \in DOMAIN queue
    BY <2>3 DEF Queueing
  <2>6. \A i \in DOMAIN queue : i = 1 \/ (i - 1 \in DOMAIN queue' /\ queue'[i - 1] = queue[i])
    BY <2>3
  <2>7. \A e \in Clients : (\E i \in DOMAIN queue' : queue'[i] = e)
                <=> e # c /\ \E i \in DOMAIN queue : queue[i] = e
    BY <2>3, <2>5, <2>6
  <2> QED  BY <2>2, <2>4, <2>7 DEF Queueing
<1>26. ASSUME NEW c \in Clients, Drives(c) PROVE Queueing'
  BY <1>26 DEF Drives, Staged, Queueing
<1>27. ASSUME NEW c \in Clients, RunIsOver(c) PROVE Queueing'
  <2>1. queue' = LeavesQueue(c)
    BY <1>27 DEF RunIsOver, Finishes
  <2>2. /\ \A e \in Clients : (\E i \in DOMAIN queue' : queue'[i] = e)
                <=> e # c /\ \E i \in DOMAIN queue : queue[i] = e
        /\ \A i, j \in DOMAIN queue' : queue'[i] = queue'[j] => i = j
    BY ZenonT(30), <2>1, QueueLeft DEF Placed
  <2>3. \A x \in Clients : turn'[x].stage = IF x = c THEN "ended" ELSE turn[x].stage
    BY <1>27 DEF RunIsOver, Finishes, Left
  <2> QED  BY <2>2, <2>3 DEF Queueing
<1>28. ASSUME NEW c \in Clients, StartIsCanceled(c) PROVE Queueing'
  <2>1. queue' = queue
    BY <1>28 DEF StartIsCanceled
  <2>2. \A x \in Clients : turn'[x].stage = "queued" <=> turn[x].stage = "queued"
    BY <1>28 DEF StartIsCanceled, Stopped, Left, Closed, Live
  <2> QED  BY <2>1, <2>2 DEF Queueing
<1>29. ASSUME NEW c \in Clients, Leaks(c) PROVE Queueing'
  BY <1>29 DEF Leaks, Stopped, Queueing
<1>30. ASSUME NEW c \in Clients, PreparationIsCanceled(c) PROVE Queueing'
  <2>1. queue' = LeavesQueue(c)
    BY <1>30 DEF PreparationIsCanceled, Finishes
  <2>2. /\ \A e \in Clients : (\E i \in DOMAIN queue' : queue'[i] = e)
                <=> e # c /\ \E i \in DOMAIN queue : queue[i] = e
        /\ \A i, j \in DOMAIN queue' : queue'[i] = queue'[j] => i = j
    BY ZenonT(30), <2>1, QueueLeft DEF Placed
  <2>3. \A x \in Clients : turn'[x].stage = IF x = c THEN "ended" ELSE turn[x].stage
    BY <1>30 DEF PreparationIsCanceled, Finishes, Left
  <2> QED  BY <2>2, <2>3 DEF Queueing
<1>31. ASSUME NEW c \in Clients, PreparationIsKilled(c) PROVE Queueing'
  <2>1. queue' = LeavesQueue(c)
    BY <1>31 DEF PreparationIsKilled
  <2>2. /\ \A e \in Clients : (\E i \in DOMAIN queue' : queue'[i] = e)
                <=> e # c /\ \E i \in DOMAIN queue : queue[i] = e
        /\ \A i, j \in DOMAIN queue' : queue'[i] = queue'[j] => i = j
    BY ZenonT(30), <2>1, QueueLeft DEF Placed
  <2>3. \A x \in Clients : turn'[x].stage = IF x = c THEN "ended" ELSE turn[x].stage
    BY <1>31 DEF PreparationIsKilled, Stopped
  <2> QED  BY <2>2, <2>3 DEF Queueing
<1>32. ASSUME NEW c \in Clients, IsStruck(c) PROVE Queueing'
  BY <1>32 DEF IsStruck, Struck, Queueing
<1>33. ASSUME NEW c \in Clients, IsClosed(c) PROVE Queueing'
  <2>1. queue' = queue
    BY <1>33 DEF IsClosed
  <2>2. \A x \in Clients : turn'[x].stage = "queued" <=> turn[x].stage = "queued"
    BY <1>33 DEF IsClosed, Stopped, Left, Closed, Live
  <2> QED  BY <2>1, <2>2 DEF Queueing
<1>34. ASSUME NEW c \in Clients, IsAbandoned(c) PROVE Queueing'
  BY <1>34 DEF IsAbandoned, Shot, Queueing
<1> QED
  BY <1>1, <1>2, <1>3, <1>4, <1>5, <1>6, <1>7, <1>8, <1>9, <1>10, <1>11, <1>12, <1>13,
    <1>14, <1>15, <1>16, <1>17, <1>18, <1>19, <1>20, <1>21, <1>22, <1>23, <1>24,
    <1>25, <1>26, <1>27, <1>28, <1>29, <1>30, <1>31, <1>32, <1>33, <1>34 DEF Effect

\* A turn enters a slot only when one is free,
LEMMA Slotting ==
  ASSUME Members, Backups, Numbered, Created, Dispatching, Fresh, Waiting, Listed,
         Entries, Effect PROVE Slotted
<1>1. ASSUME Quiet PROVE Slotted
  BY <1>1 DEF Quiet, Prompting, Slotted
<1>2. ASSUME ShutsDown PROVE Slotted
  BY <1>2 DEF ShutsDown, Prompting, Slotted
<1>3. ASSUME IsCleared PROVE Slotted
  BY <1>3 DEF IsCleared, Prompting, Slotted
<1>4. ASSUME IsGone PROVE Slotted
  BY <1>4 DEF IsGone, Prompting, Slotted
<1>5. ASSUME NEW c \in Clients, Creates(c) PROVE Slotted
  BY <1>5 DEF Creates, Began, DiskAt, Prompting, Slotted
<1>6. ASSUME NEW c \in Clients, Continues(c) PROVE Slotted
  BY <1>6 DEF Continues, Began, Prompting, Slotted
<1>7. ASSUME NEW c \in Clients, Observes(c) PROVE Slotted
  BY <1>7 DEF Observes, Began, Prompting, Slotted
<1>8. ASSUME NEW c \in Clients, Goes(c) PROVE Slotted
  <2>1. \A x \in Clients :
        /\ turn'[x].stage = turn[x].stage
    BY <1>8 DEF Goes, Parted, Spoke
  <2> QED  BY <1>8, <2>1 DEF Goes, Prompting, Slotted
<1>9. ASSUME NEW c \in Clients, FailsSession(c) PROVE Slotted
  BY <1>9 DEF FailsSession, Spoke, Ended, Prompting, Slotted
<1>10. ASSUME NEW c \in Clients, IsLost(c) PROVE Slotted
  <2>1. \A x \in Clients :
        /\ turn'[x].stage = turn[x].stage
    BY <1>10 DEF IsLost, Parted, Spoke, AfterOutcome
  <2> QED  BY <1>10, <2>1 DEF IsLost, Prompting, Slotted
<1>11. ASSUME NEW c \in Clients, IsRefused(c) PROVE Slotted
  BY <1>11 DEF IsRefused, Spoke, DiskAt, Serves, Prompting, Slotted
<1>12. ASSUME NEW c \in Clients, StartsNext(c) PROVE Slotted
  BY <1>12 DEF StartsNext, Entered, Spoke, DiskAt, TableAt, Serves, Prompting, Slotted
<1>13. ASSUME NEW c \in Clients, StartsFirst(c) PROVE Slotted
  BY <1>13 DEF StartsFirst, Entered, Spoke, TableAt, Serves, Prompting, Slotted
<1>14. ASSUME NEW c \in Clients, IsAccepted(c) PROVE Slotted
  BY <1>14 DEF IsAccepted, Claiming, Reached, Prompting, Slotted
<1>15. ASSUME NEW c \in Clients, StartIsUndone(c) PROVE Slotted
  <2>1. \A x \in Clients : turn'[x].stage \in {turn[x].stage, "ended", "refused"}
    BY <1>15 DEF StartIsUndone, Left, Stopped, Closed, Finishes
  <2> QED  BY <2>1 DEF Prompting, Slotted
<1>16. ASSUME NEW c \in Clients, Joins(c) PROVE Slotted
  <2>1. \A x \in Clients :
        /\ turn'[x].stage = turn[x].stage
    BY <1>16 DEF Joins, Joined, Spoke, Serves
  <2> QED  BY <1>16, <2>1 DEF Joins, Serves, Prompting, Slotted
<1>17. ASSUME NEW c \in Clients, FindsNothing(c) PROVE Slotted
  BY <1>17 DEF FindsNothing, Spoke, Serves, Prompting, Slotted
<1>18. ASSUME NEW c \in Clients, CancelsTurn(c) PROVE Slotted
  <2>1. \A x \in Clients : turn'[x].stage = turn[x].stage
    BY <1>18, Cancellations DEF Reaches
  <2> QED  BY <2>1 DEF Prompting, Slotted
<1>19. ASSUME NEW c \in Clients, CancelsAlone(c) PROVE Slotted
  BY <1>19 DEF CancelsAlone, Spoke, Serves, Prompting, Slotted
<1>20. ASSUME NEW c \in Clients, Breaks(c) PROVE Slotted
  <2>1. \A x \in Clients : turn'[x].stage = turn[x].stage
    BY <1>20, Cancellations DEF Reaches
  <2> QED  BY <2>1 DEF Prompting, Slotted
<1>21. ASSUME NEW c \in Clients, BeginsToRestore(c) PROVE Slotted
  BY <1>21 DEF BeginsToRestore, Staged, Prompting, Slotted
<1>22. ASSUME NEW c \in Clients, Enqueues(c) PROVE Slotted
  <2>1. \A x \in Clients : x # c => turn'[x].stage = turn[x].stage
    BY <1>22 DEF Enqueues, Staged
  <2>2. turn'[c].stage = "queued" \/ (Free /\ turn'[c].stage = "opening")
    BY <1>22 DEF Enqueues, Staged, EntersSlot
  <2> QED  BY <2>1, <2>2 DEF Prompting, Slotted
<1>23. ASSUME NEW c \in Clients, IsRestored(c) PROVE Slotted
  <2>1. \A x \in Clients : x # c => turn'[x].stage = turn[x].stage
    BY <1>23 DEF IsRestored, Prepared
  <2>2. turn'[c].stage = "queued" \/ (Free /\ turn'[c].stage = "opening")
    BY <1>23 DEF IsRestored, Prepared, EntersSlot
  <2> QED  BY <2>1, <2>2 DEF Prompting, Slotted
<1>24. ASSUME NEW c \in Clients, IsNotRestored(c) PROVE Slotted
  <2>1. \A x \in Clients : turn'[x].stage \in {turn[x].stage, "ended", "refused"}
    BY <1>24 DEF IsNotRestored, Left, Stopped, Closed, Finishes
  <2> QED  BY <2>1 DEF Prompting, Slotted
<1>25. ASSUME NEW c \in Clients, IsNext(c) PROVE Slotted
  BY <1>25 DEF IsNext, Staged, Prompting, Slotted
<1>26. ASSUME NEW c \in Clients, Drives(c) PROVE Slotted
  BY <1>26 DEF Drives, Staged, Prompting, Slotted
<1>27. ASSUME NEW c \in Clients, RunIsOver(c) PROVE Slotted
  <2>1. \A x \in Clients : turn'[x].stage \in {turn[x].stage, "ended", "refused"}
    BY <1>27 DEF RunIsOver, Left, Stopped, Closed, Finishes
  <2> QED  BY <2>1 DEF Prompting, Slotted
<1>28. ASSUME NEW c \in Clients, StartIsCanceled(c) PROVE Slotted
  <2>1. \A x \in Clients : turn'[x].stage \in {turn[x].stage, "ended", "refused"}
    BY <1>28 DEF StartIsCanceled, Left, Stopped, Closed, Finishes
  <2> QED  BY <2>1 DEF Prompting, Slotted
<1>29. ASSUME NEW c \in Clients, Leaks(c) PROVE Slotted
  BY <1>29 DEF Leaks, Stopped, Prompting, Slotted
<1>30. ASSUME NEW c \in Clients, PreparationIsCanceled(c) PROVE Slotted
  <2>1. \A x \in Clients : turn'[x].stage \in {turn[x].stage, "ended", "refused"}
    BY <1>30 DEF PreparationIsCanceled, Left, Stopped, Closed, Finishes
  <2> QED  BY <2>1 DEF Prompting, Slotted
<1>31. ASSUME NEW c \in Clients, PreparationIsKilled(c) PROVE Slotted
  BY <1>31 DEF PreparationIsKilled, Stopped, Prompting, Slotted
<1>32. ASSUME NEW c \in Clients, IsStruck(c) PROVE Slotted
  BY <1>32 DEF IsStruck, Struck, Prompting, Slotted
<1>33. ASSUME NEW c \in Clients, IsClosed(c) PROVE Slotted
  <2>1. \A x \in Clients : turn'[x].stage \in {turn[x].stage, "ended", "refused"}
    BY <1>33 DEF IsClosed, Left, Stopped, Closed, Finishes
  <2> QED  BY <2>1 DEF Prompting, Slotted
<1>34. ASSUME NEW c \in Clients, IsAbandoned(c) PROVE Slotted
  BY <1>34 DEF IsAbandoned, Shot, Prompting, Slotted
<1> QED
  BY <1>1, <1>2, <1>3, <1>4, <1>5, <1>6, <1>7, <1>8, <1>9, <1>10, <1>11, <1>12, <1>13,
    <1>14, <1>15, <1>16, <1>17, <1>18, <1>19, <1>20, <1>21, <1>22, <1>23, <1>24,
    <1>25, <1>26, <1>27, <1>28, <1>29, <1>30, <1>31, <1>32, <1>33, <1>34 DEF Effect

\* so there are never more than there are slots.
LEMMA SlotsStep ==
  ASSUME SlotsKept, Slotted
  PROVE  SlotsKept'
<1>1. IsFiniteSet(Prompting) /\ Cardinality(Prompting) \in Nat /\ Prompting \subseteq Clients
  BY DaemonAssumption, FS_Subset, FS_CardinalityType DEF Prompting
<1>2. CASE Prompting' \subseteq Prompting
  <2>1. Cardinality(Prompting') <= Cardinality(Prompting) /\ Cardinality(Prompting') \in Nat
    BY <1>1, <1>2, FS_Subset, FS_CardinalityType
  <2> QED  BY <1>1, <2>1, DaemonAssumption DEF SlotsKept
<1>3. ASSUME Free, NEW c \in Clients, Prompting' \subseteq Prompting \cup {c} PROVE SlotsKept'
  <2> DEFINE more == Prompting \cup {c}
  <2>1. IsFiniteSet(more) /\ Cardinality(more) <= Cardinality(Prompting) + 1 /\ Cardinality(more) \in Nat
    BY <1>1, FS_AddElement, FS_CardinalityType
  <2> HIDE DEF more
  <2>2. Prompting' \subseteq more
    BY <1>3 DEF more
  <2>3. Cardinality(Prompting') <= Cardinality(more) /\ Cardinality(Prompting') \in Nat
    BY <2>1, <2>2, FS_Subset, FS_CardinalityType
  <2> QED  BY <1>1, <1>3, <2>1, <2>3, DaemonAssumption DEF Free, SlotsKept
<1> QED  BY <1>2, <1>3 DEF Slotted

\* Whoever waits is not lost from sight: the entry of its turn goes only with the
\* answer, or with a start that failed.
LEMMA Holding ==
  ASSUME Members, Backups, Numbered, Created, Dispatching, Fresh, Waiting, Listed,
         Entries, Effect PROVE Held
<1>1. ASSUME Quiet PROVE Held
  BY <1>1 DEF Quiet, Held, Answerable, Session
<1>2. ASSUME ShutsDown PROVE Held
  BY <1>2 DEF ShutsDown, Held, Answerable, Session
<1>3. ASSUME IsCleared PROVE Held
  BY <1>3 DEF IsCleared, Held, Answerable, Session
<1>4. ASSUME IsGone PROVE Held
  BY <1>4 DEF IsGone, Held, Answerable, Session
<1>5. ASSUME NEW c \in Clients, Creates(c) PROVE Held
  BY <1>5 DEF Creates, Began, DiskAt, Held, Answerable, Session
<1>6. ASSUME NEW c \in Clients, Continues(c) PROVE Held
  BY <1>6 DEF Continues, Began, Held, Answerable, Session
<1>7. ASSUME NEW c \in Clients, Observes(c) PROVE Held
  BY <1>7 DEF Observes, Began, Held, Answerable, Session
<1>8. ASSUME NEW c \in Clients, Goes(c) PROVE Held
  <2>1. \A x \in Clients : turn'[x].waiters = turn[x].waiters \ {c} /\ turn'[x].stage = turn[x].stage
    BY <1>8 DEF Goes, Parted
  <2>2. \A w \in Clients : client'[w].session = client[w].session /\ (w # c => client'[w].pc = client[w].pc)
        /\ client'[c].pc # "waiting"
    BY <1>8 DEF Goes, Spoke, AfterOutcome
  <2>3. table' = table /\ daemon' = daemon
    BY <1>8 DEF Goes
  <2> QED  BY <2>1, <2>2, <2>3, DaemonAssumption DEF Held, Answerable, Session
<1>9. ASSUME NEW c \in Clients, FailsSession(c) PROVE Held
  BY <1>9 DEF FailsSession, Spoke, Ended, Held, Answerable, Session
<1>10. ASSUME NEW c \in Clients, IsLost(c) PROVE Held
  <2>1. \A x \in Clients : turn'[x].waiters = turn[x].waiters \ {c} /\ turn'[x].stage = turn[x].stage
    BY <1>10 DEF IsLost, Parted
  <2>2. \A w \in Clients : client'[w].session = client[w].session /\ (w # c => client'[w].pc = client[w].pc)
        /\ client'[c].pc # "waiting"
    BY <1>10 DEF IsLost, Spoke, AfterOutcome
  <2>3. table' = table /\ daemon' = daemon
    BY <1>10 DEF IsLost
  <2> QED  BY <2>1, <2>2, <2>3, DaemonAssumption DEF Held, Answerable, Session
<1>11. ASSUME NEW c \in Clients, IsRefused(c) PROVE Held
  BY <1>11 DEF IsRefused, Spoke, DiskAt, Serves, Held, Answerable, Session
<1>12. ASSUME NEW c \in Clients, StartsNext(c) PROVE Held
  <2>1. \A x \in Clients : turn'[x].waiters = turn[x].waiters /\ (x # c => turn'[x].stage = turn[x].stage)
    BY <1>12 DEF StartsNext, Entered
  <2>2. turn[c].stage = "none"
    BY <1>12 DEF StartsNext, Fresh, Untouched
  <2>3. \A w \in Clients : client'[w].session = client[w].session
        /\ (client'[w].pc = "waiting" => client[w].pc = "waiting")
    BY <1>12 DEF StartsNext, Spoke
  <2>4. daemon' = daemon
    BY <1>12 DEF StartsNext
  <2>5. table[Session(c)] = None
    BY <1>12 DEF StartsNext
  <2>6. \A z \in Sessions : table'[z] = IF z = Session(c) THEN c ELSE table[z]
    BY <1>12 DEF StartsNext, TableAt
  <2>7. \A x \in Clients : Session(x) \in Sessions
    BY DEF Members
  <2> QED  BY <2>1, <2>2, <2>3, <2>4, <2>5, <2>6, <2>7, DaemonAssumption DEF Held,
      Answerable, Session
<1>13. ASSUME NEW c \in Clients, StartsFirst(c) PROVE Held
  <2>1. \A x \in Clients : turn'[x].waiters = turn[x].waiters /\ (x # c => turn'[x].stage = turn[x].stage)
    BY <1>13 DEF StartsFirst, Entered
  <2>2. turn[c].stage = "none"
    BY <1>13 DEF StartsFirst, Fresh, Untouched
  <2>3. \A w \in Clients : client'[w].session = client[w].session
        /\ (client'[w].pc = "waiting" => client[w].pc = "waiting")
    BY <1>13 DEF StartsFirst, Spoke
  <2>4. daemon' = daemon
    BY <1>13 DEF StartsFirst
  <2>5. table[Session(c)] = None
    BY <1>13 DEF StartsFirst
  <2>6. \A z \in Sessions : table'[z] = IF z = Session(c) THEN c ELSE table[z]
    BY <1>13 DEF StartsFirst, TableAt
  <2>7. \A x \in Clients : Session(x) \in Sessions
    BY DEF Members
  <2> QED  BY <2>1, <2>2, <2>3, <2>4, <2>5, <2>6, <2>7, DaemonAssumption DEF Held,
      Answerable, Session
<1>14. ASSUME NEW c \in Clients, IsAccepted(c) PROVE Held
  BY <1>14 DEF IsAccepted, Claiming, Reached, Held, Answerable, Session
<1>15. ASSUME NEW c \in Clients, StartIsUndone(c) PROVE Held
  <2>1. \A x \in Clients : turn'[x].stage = IF x = c THEN "refused" ELSE turn[x].stage
    BY <1>15 DEF StartIsUndone, Stopped
  <2>2. \A x \in Clients : turn'[x].waiters = turn[x].waiters
    BY <1>15 DEF StartIsUndone, Stopped
  <2>3. \A w \in Clients : client'[w].session = client[w].session
        /\ (client'[w].pc = "waiting" => client[w].pc = "waiting")
    BY <1>15 DEF StartIsUndone, Reached
  <2>4. daemon \in {"serving", "ending"} => table[Session(c)] = c
    BY <1>15 DEF StartIsUndone, Entries, InFlight, Live
  <2>5. \A z \in Sessions : table'[z] = IF z = Session(c) THEN None ELSE table[z]
    BY <1>15 DEF StartIsUndone, TableAt, Finishes
  <2>6. daemon' = daemon
    BY <1>15 DEF StartIsUndone
  <2>7. daemon \notin {"exiting", "down"} => daemon \in {"serving", "ending"}
    BY DEF Members
  <2>8. \A x \in Clients : Session(x) \in Sessions
    BY DEF Members
  <2> QED  BY <2>1, <2>2, <2>3, <2>4, <2>5, <2>6, <2>7, <2>8, DaemonAssumption DEF
      Held, Answerable, Session
<1>16. ASSUME NEW c \in Clients, Joins(c) PROVE Held
  <2>1. \A x \in Clients : turn'[x].stage = turn[x].stage
    BY <1>16 DEF Joins, Joined
  <2>2. table[Session(c)] \in Clients /\ Session(table[Session(c)]) = Session(c)
    BY <1>16 DEF Joins, Entries, Members
  <2>3. \A x \in Clients :
        /\ x # table[Session(c)] => turn'[x].waiters = turn[x].waiters
        /\ x = table[Session(c)] => turn'[x].waiters = turn[x].waiters \cup {c}
    BY <1>16 DEF Joins, Joined
  <2>4. \A x, w \in Clients : w \in turn[x].waiters => w \in turn'[x].waiters
    BY <2>3
  <2>5. c \in turn'[table[Session(c)]].waiters
    BY <2>2, <2>3
  <2>6. \A w \in Clients : client'[w].session = client[w].session
        /\ (w # c => client'[w].pc = client[w].pc)
    BY <1>16 DEF Joins, Spoke
  <2>7. table' = table /\ daemon' = daemon
    BY <1>16 DEF Joins
  <2> QED  BY <2>1, <2>2, <2>4, <2>5, <2>6, <2>7, DaemonAssumption DEF Held,
      Answerable, Session
<1>17. ASSUME NEW c \in Clients, FindsNothing(c) PROVE Held
  BY <1>17 DEF FindsNothing, Spoke, Serves, Held, Answerable, Session
<1>18. ASSUME NEW c \in Clients, CancelsTurn(c) PROVE Held
  <2>1. \A x \in Clients : turn'[x].stage = turn[x].stage /\ turn'[x].waiters = turn[x].waiters
    BY <1>18, Cancellations DEF Reaches
  <2>2. \A w \in Clients : client'[w].session = client[w].session
        /\ (client'[w].pc = "waiting" => client[w].pc = "waiting")
    BY <1>18 DEF CancelsTurn, Spoke, Broke
  <2>3. table' = table /\ daemon' = daemon
    BY <1>18 DEF CancelsTurn
  <2> QED  BY <2>1, <2>2, <2>3, DaemonAssumption DEF Held, Answerable, Session
<1>19. ASSUME NEW c \in Clients, CancelsAlone(c) PROVE Held
  BY <1>19 DEF CancelsAlone, Spoke, Serves, Held, Answerable, Session
<1>20. ASSUME NEW c \in Clients, Breaks(c) PROVE Held
  <2>1. \A x \in Clients : turn'[x].stage = turn[x].stage /\ turn'[x].waiters = turn[x].waiters
    BY <1>20, Cancellations DEF Reaches
  <2>2. \A w \in Clients : client'[w].session = client[w].session
        /\ (client'[w].pc = "waiting" => client[w].pc = "waiting")
    BY <1>20 DEF Breaks, Spoke, Broke
  <2>3. table' = table /\ daemon' = daemon
    BY <1>20 DEF Breaks
  <2> QED  BY <2>1, <2>2, <2>3, DaemonAssumption DEF Held, Answerable, Session
<1>21. ASSUME NEW c \in Clients, BeginsToRestore(c) PROVE Held
  BY <1>21 DEF BeginsToRestore, Staged, Held, Answerable, Session
<1>22. ASSUME NEW c \in Clients, Enqueues(c) PROVE Held
  BY <1>22 DEF Enqueues, Staged, Queued, EntersSlot, Held, Answerable, Session
<1>23. ASSUME NEW c \in Clients, IsRestored(c) PROVE Held
  BY <1>23 DEF IsRestored, Prepared, Queued, EntersSlot, Held, Answerable, Session
<1>24. ASSUME NEW c \in Clients, IsNotRestored(c) PROVE Held
  <2>1. \A x \in Clients : turn'[x].stage = IF x = c THEN "ended" ELSE turn[x].stage
    BY <1>24 DEF IsNotRestored, Left, Finishes
  <2>2. \A x \in Clients : turn'[x].waiters = IF x = table[Session(c)] THEN {} ELSE turn[x].waiters
    BY <1>24 DEF IsNotRestored, Left, Finishes
  <2>3. \A w \in Clients : client'[w].session = client[w].session
        /\ (client'[w].pc = "waiting" => client[w].pc = "waiting")
        /\ (client'[w].pc = "waiting" /\ table[Session(c)] # None => w \notin turn[table[Session(c)]].waiters)
    BY <1>24, DaemonAssumption DEF IsNotRestored, Heard, Learned, AfterOutcome, Finishes
  <2>4. daemon \in {"serving", "ending"} => table[Session(c)] = c
    BY <1>24 DEF IsNotRestored, Entries, InFlight, Live
  <2>5. \A z \in Sessions : table'[z] = IF z = Session(c) THEN None ELSE table[z]
    BY <1>24 DEF IsNotRestored, TableAt, Finishes
  <2>6. daemon' = daemon
    BY <1>24 DEF IsNotRestored
  <2>7. daemon \notin {"exiting", "down"} => daemon \in {"serving", "ending"}
    BY DEF Members
  <2>8. \A x \in Clients : Session(x) \in Sessions
    BY DEF Members
  <2> QED  BY <2>1, <2>2, <2>3, <2>4, <2>5, <2>6, <2>7, <2>8, DaemonAssumption DEF
      Held, Answerable, Session
<1>25. ASSUME NEW c \in Clients, IsNext(c) PROVE Held
  BY <1>25 DEF IsNext, Staged, Held, Answerable, Session
<1>26. ASSUME NEW c \in Clients, Drives(c) PROVE Held
  BY <1>26 DEF Drives, Staged, Held, Answerable, Session
<1>27. ASSUME NEW c \in Clients, RunIsOver(c) PROVE Held
  <2>1. \A x \in Clients : turn'[x].stage = IF x = c THEN "ended" ELSE turn[x].stage
    BY <1>27 DEF RunIsOver, Left, Finishes
  <2>2. \A x \in Clients : turn'[x].waiters = IF x = table[Session(c)] THEN {} ELSE turn[x].waiters
    BY <1>27 DEF RunIsOver, Left, Finishes
  <2>3. \A w \in Clients : client'[w].session = client[w].session
        /\ (client'[w].pc = "waiting" => client[w].pc = "waiting")
        /\ (client'[w].pc = "waiting" /\ table[Session(c)] # None => w \notin turn[table[Session(c)]].waiters)
    BY <1>27, DaemonAssumption DEF RunIsOver, Heard, Learned, AfterOutcome, Finishes
  <2>4. daemon \in {"serving", "ending"} => table[Session(c)] = c
    BY <1>27 DEF RunIsOver, Entries, InFlight, Live
  <2>5. \A z \in Sessions : table'[z] = IF z = Session(c) THEN None ELSE table[z]
    BY <1>27 DEF RunIsOver, TableAt, Finishes
  <2>6. daemon' = daemon
    BY <1>27 DEF RunIsOver
  <2>7. daemon \notin {"exiting", "down"} => daemon \in {"serving", "ending"}
    BY DEF Members
  <2>8. \A x \in Clients : Session(x) \in Sessions
    BY DEF Members
  <2> QED  BY <2>1, <2>2, <2>3, <2>4, <2>5, <2>6, <2>7, <2>8, DaemonAssumption DEF
      Held, Answerable, Session
<1>28. ASSUME NEW c \in Clients, StartIsCanceled(c) PROVE Held
  <2>1. \A x \in Clients : turn'[x].stage = IF x = c THEN "ended" ELSE turn[x].stage
    BY <1>28 DEF StartIsCanceled, Left
  <2>2. \A x \in Clients : turn'[x].waiters = IF x = table[Session(c)] THEN {} ELSE turn[x].waiters
    BY <1>28 DEF StartIsCanceled, Left
  <2>3. \A w \in Clients : client'[w].session = client[w].session
        /\ (client'[w].pc = "waiting" => client[w].pc = "waiting")
        /\ (client'[w].pc = "waiting" /\ table[Session(c)] # None => w \notin turn[table[Session(c)]].waiters)
    BY <1>28, DaemonAssumption DEF StartIsCanceled, Heard, Learned, AfterOutcome, Finishes
  <2>4. daemon \in {"serving", "ending"} => table[Session(c)] = c
    BY <1>28 DEF StartIsCanceled, Entries, InFlight, Live
  <2>5. \A z \in Sessions : table'[z] = IF z = Session(c) THEN None ELSE table[z]
    BY <1>28 DEF StartIsCanceled, TableAt, Finishes
  <2>6. daemon' = daemon
    BY <1>28 DEF StartIsCanceled
  <2>7. daemon \notin {"exiting", "down"} => daemon \in {"serving", "ending"}
    BY DEF Members
  <2>8. \A x \in Clients : Session(x) \in Sessions
    BY DEF Members
  <2> QED  BY <2>1, <2>2, <2>3, <2>4, <2>5, <2>6, <2>7, <2>8, DaemonAssumption DEF
      Held, Answerable, Session
<1>29. ASSUME NEW c \in Clients, Leaks(c) PROVE Held
  BY <1>29 DEF Leaks, Stopped, Held, Answerable, Session
<1>30. ASSUME NEW c \in Clients, PreparationIsCanceled(c) PROVE Held
  <2>1. \A x \in Clients : turn'[x].stage = IF x = c THEN "ended" ELSE turn[x].stage
    BY <1>30 DEF PreparationIsCanceled, Left, Finishes
  <2>2. \A x \in Clients : turn'[x].waiters = IF x = table[Session(c)] THEN {} ELSE turn[x].waiters
    BY <1>30 DEF PreparationIsCanceled, Left, Finishes
  <2>3. \A w \in Clients : client'[w].session = client[w].session
        /\ (client'[w].pc = "waiting" => client[w].pc = "waiting")
        /\ (client'[w].pc = "waiting" /\ table[Session(c)] # None => w \notin turn[table[Session(c)]].waiters)
    BY <1>30, DaemonAssumption DEF PreparationIsCanceled, Heard, Learned, AfterOutcome, Finishes
  <2>4. daemon \in {"serving", "ending"} => table[Session(c)] = c
    BY <1>30 DEF PreparationIsCanceled, Entries, InFlight, Live
  <2>5. \A z \in Sessions : table'[z] = IF z = Session(c) THEN None ELSE table[z]
    BY <1>30 DEF PreparationIsCanceled, TableAt, Finishes
  <2>6. daemon' = daemon
    BY <1>30 DEF PreparationIsCanceled
  <2>7. daemon \notin {"exiting", "down"} => daemon \in {"serving", "ending"}
    BY DEF Members
  <2>8. \A x \in Clients : Session(x) \in Sessions
    BY DEF Members
  <2> QED  BY <2>1, <2>2, <2>3, <2>4, <2>5, <2>6, <2>7, <2>8, DaemonAssumption DEF
      Held, Answerable, Session
<1>31. ASSUME NEW c \in Clients, PreparationIsKilled(c) PROVE Held
  BY <1>31 DEF PreparationIsKilled, Stopped, Held, Answerable, Session
<1>32. ASSUME NEW c \in Clients, IsStruck(c) PROVE Held
  BY <1>32 DEF IsStruck, Struck, Held, Answerable, Session
<1>33. ASSUME NEW c \in Clients, IsClosed(c) PROVE Held
  <2>1. \A x \in Clients : turn'[x].stage = IF x = c THEN "ended" ELSE turn[x].stage
    BY <1>33 DEF IsClosed, Closed
  <2>2. \A x \in Clients : turn'[x].waiters = IF x = c THEN {} ELSE turn[x].waiters
    BY <1>33 DEF IsClosed, Closed
  <2>3. \A w \in Clients : client'[w].session = client[w].session
        /\ (client'[w].pc = "waiting" => client[w].pc = "waiting")
        /\ (client'[w].pc = "waiting" /\ c # None => w \notin turn[c].waiters)
    BY <1>33, DaemonAssumption DEF IsClosed, Heard, Learned, AfterOutcome, Finishes
  <2>4. table' = table
    BY <1>33 DEF IsClosed
  <2>5. ToEnd(c)
    BY <1>33, Endless
  <2>6. daemon' = daemon
    BY <1>33 DEF IsClosed
  <2>7. daemon \notin {"exiting", "down"} => daemon \in {"serving", "ending"}
    BY DEF Members
  <2>8. \A x \in Clients : Session(x) \in Sessions
    BY DEF Members
  <2> QED  BY <2>1, <2>2, <2>3, <2>4, <2>5, <2>6, <2>7, <2>8, DaemonAssumption DEF
      Held, Answerable, Session
<1>34. ASSUME NEW c \in Clients, IsAbandoned(c) PROVE Held
  BY <1>34 DEF IsAbandoned, Shot, Held, Answerable, Session
<1> QED
  BY <1>1, <1>2, <1>3, <1>4, <1>5, <1>6, <1>7, <1>8, <1>9, <1>10, <1>11, <1>12, <1>13,
    <1>14, <1>15, <1>16, <1>17, <1>18, <1>19, <1>20, <1>21, <1>22, <1>23, <1>24,
    <1>25, <1>26, <1>27, <1>28, <1>29, <1>30, <1>31, <1>32, <1>33, <1>34 DEF Effect

\* So WaitersHaveTurn is kept.
LEMMA WaitersStep ==
  ASSUME WaitersHaveTurn, Held PROVE WaitersHaveTurn'
<1> SUFFICES ASSUME NEW w \in Clients, client'[w].pc = "waiting",
                    daemon' \notin {"exiting", "down"}
             PROVE  \E y \in Clients : w \in turn'[y].waiters /\ Answerable(y)'
  BY DEF WaitersHaveTurn, Stranded, Answerable
<1>1. CASE client[w].pc = "waiting"
  <2>1. PICK y \in Clients : w \in turn[y].waiters /\ Answerable(y)
    BY <1>1 DEF WaitersHaveTurn, Stranded, Answerable, Held
  <2> QED  BY <2>1 DEF Held
<1>2. CASE client[w].pc # "waiting"
  BY <1>2 DEF Held
<1> QED  BY <1>1, <1>2

\* ActiveHasOwner is kept: a turn that ends leaves its session finished or
\* undone, whatever ends it.
LEMMA OwnerStep ==
  ASSUME Members, Backups, Numbered, Created, Dispatching, Fresh, Waiting, Listed,
         Entries, Snapshots, Claimed, OnDisk, Reported, OneRun, Opening,
         ActiveHasOwner, Effect PROVE ActiveHasOwner'
<1>1. ASSUME Quiet PROVE ActiveHasOwner'
  BY <1>1 DEF Quiet, ActiveHasOwner, Active, Leaked, Unlisted, Live, Session, ToEnd
<1>2. ASSUME ShutsDown PROVE ActiveHasOwner'
  BY <1>2 DEF ShutsDown, ActiveHasOwner, Active, Leaked, Unlisted, Live, Session,
    ToEnd, Listed, Phases
<1>3. ASSUME IsCleared PROVE ActiveHasOwner'
  BY <1>3 DEF IsCleared, ActiveHasOwner, Active, Leaked, Unlisted, Live, Session,
    ToEnd
<1>4. ASSUME IsGone PROVE ActiveHasOwner'
  BY <1>4 DEF IsGone, ActiveHasOwner, Active, Leaked, Unlisted, Live, Session, ToEnd
<1>5. ASSUME NEW c \in Clients, Creates(c) PROVE ActiveHasOwner'
  BY <1>5 DEF Creates, Began, DiskAt, ActiveHasOwner, Active, Leaked, Unlisted, Live,
    Session, ToEnd
<1>6. ASSUME NEW c \in Clients, Continues(c) PROVE ActiveHasOwner'
  BY <1>6 DEF Continues, Began, ActiveHasOwner, Active, Leaked, Unlisted, Live,
    Session, ToEnd
<1>7. ASSUME NEW c \in Clients, Observes(c) PROVE ActiveHasOwner'
  BY <1>7 DEF Observes, Began, ActiveHasOwner, Active, Leaked, Unlisted, Live,
    Session, ToEnd
<1>8. ASSUME NEW c \in Clients, Goes(c) PROVE ActiveHasOwner'
  <2>1. \A w \in Clients :
        /\ client'[w].command = client[w].command
        /\ client'[w].session = client[w].session
        /\ client'[w].pc = IF w = c THEN "left" ELSE client[w].pc
    BY <1>8 DEF Goes, Parted, Spoke
  <2>2. \A x \in Clients :
        /\ turn'[x].stage = turn[x].stage
    BY <1>8 DEF Goes, Parted, Spoke
  <2> QED  BY <1>8, <2>1, <2>2 DEF Goes, ActiveHasOwner, Active, Leaked, Unlisted,
      Live, Session, ToEnd
<1>9. ASSUME NEW c \in Clients, FailsSession(c) PROVE ActiveHasOwner'
  BY <1>9 DEF FailsSession, Spoke, Ended, ActiveHasOwner, Active, Leaked, Unlisted,
    Live, Session, ToEnd
<1>10. ASSUME NEW c \in Clients, IsLost(c) PROVE ActiveHasOwner'
  <2>1. \A x \in Clients : turn'[x].stage = turn[x].stage
    BY <1>10 DEF IsLost, Parted
  <2>2. \A x \in Clients :
        /\ client'[x].session = client[x].session /\ client'[x].command = client[x].command
        /\ client[x].command = "run" /\ client[x].pc \in {"sending", "failing"} => client'[x].pc \in {"sending", "failing"}
    BY <1>10 DEF IsLost, Spoke, AfterOutcome
  <2>3. UNCHANGED <<disk, daemon, ending, known>>
    BY <1>10 DEF IsLost
  <2> QED  BY <2>1, <2>2, <2>3 DEF ActiveHasOwner, Active, Leaked, Unlisted, Live, Session, ToEnd
<1>11. ASSUME NEW c \in Clients, IsRefused(c) PROVE ActiveHasOwner'
  <2>1. UNCHANGED <<turn, daemon, ending, known>>
    BY <1>11 DEF IsRefused
  <2>2. \A x \in Clients :
        /\ client'[x].session = client[x].session /\ client'[x].command = client[x].command
    BY <1>11 DEF IsRefused, Spoke
  <2>3. \A x \in Clients :
        client[x].command = "run" /\ client[x].pc \in {"sending", "failing"} => client'[x].pc \in {"sending", "failing"}
    BY <1>11 DEF IsRefused, Spoke, Deferred
  <2>4. \A z \in Sessions : disk'[z].state \in {"starting", "running"} => disk'[z].state = disk[z].state
    BY <1>11 DEF IsRefused, DiskAt
  <2> QED  BY <2>1, <2>2, <2>3, <2>4 DEF ActiveHasOwner, Active, Leaked, Unlisted, Live, Session, ToEnd
<1>12. ASSUME NEW c \in Clients, StartsNext(c) PROVE ActiveHasOwner'
  BY <1>12 DEF StartsNext, Entered, Spoke, DiskAt, TableAt, Serves, ActiveHasOwner,
    Active, Leaked, Unlisted, Live, Session, ToEnd
<1>13. ASSUME NEW c \in Clients, StartsFirst(c) PROVE ActiveHasOwner'
  BY <1>13 DEF StartsFirst, Entered, Spoke, TableAt, Serves, ActiveHasOwner, Active,
    Leaked, Unlisted, Live, Session, ToEnd
<1>14. ASSUME NEW c \in Clients, IsAccepted(c) PROVE ActiveHasOwner'
  BY <1>14 DEF IsAccepted, Claiming, Reached, ActiveHasOwner, Active, Leaked,
    Unlisted, Live, Session, ToEnd
<1>15. ASSUME NEW c \in Clients, StartIsUndone(c) PROVE ActiveHasOwner'
  <2>1. Advanced(c) /\ Settled(c) /\ turn[c].stage # "none"
    BY <1>15, Endings
  <2>2. \A x \in Clients : turn'[x].stage = IF x = c THEN "refused" ELSE turn[x].stage
    BY <1>15 DEF StartIsUndone, Stopped
  <2>3. \A x \in Clients :
        /\ client'[x].session = client[x].session /\ client'[x].command = client[x].command
        /\ client[x].pc \in {"sending", "failing"} => client'[x].pc = client[x].pc
    BY <2>1 DEF Advanced
  <2>4. \A z \in Sessions : disk'[z].state \in {"starting", "running"} => disk'[z].state = disk[z].state
    BY <2>1 DEF Settled
  <2>5. \/ disk'[Session(c)].state \notin {"starting", "running"}
        \/ daemon \in {"exiting", "down"} /\ c \notin known /\ turn'[c].stage = "ended"
    BY <1>15, Ceases
  <2>6. daemon' = daemon /\ known' = known
    BY <1>15 DEF StartIsUndone
  <2>7. \A x \in Clients : ToEnd(x) => ToEnd(x)'
    BY <1>15 DEF StartIsUndone, ToEnd
  <2> QED  BY <2>2, <2>3, <2>4, <2>5, <2>6, <2>7 DEF ActiveHasOwner, Active, Leaked, Unlisted, Live, Session, ToEnd
<1>16. ASSUME NEW c \in Clients, Joins(c) PROVE ActiveHasOwner'
  <2>1. \A x \in Clients :
        /\ turn'[x].stage = turn[x].stage
    BY <1>16 DEF Joins, Joined, Spoke, Serves
  <2>2. \A w \in Clients :
        /\ client'[w].command = client[w].command
        /\ client'[w].session = client[w].session
        /\ client'[w].pc = IF w = c THEN "waiting" ELSE client[w].pc
    BY <1>16 DEF Joins, Joined, Spoke, Serves
  <2> QED  BY <1>16, <2>1, <2>2 DEF Joins, Serves, ActiveHasOwner, Active, Leaked,
      Unlisted, Live, Session, ToEnd
<1>17. ASSUME NEW c \in Clients, FindsNothing(c) PROVE ActiveHasOwner'
  BY <1>17 DEF FindsNothing, Spoke, Serves, ActiveHasOwner, Active, Leaked, Unlisted,
    Live, Session, ToEnd
<1>18. ASSUME NEW c \in Clients, CancelsTurn(c) PROVE ActiveHasOwner'
  <2>1. \A x \in Clients : turn'[x].stage = turn[x].stage
    BY <1>18, Cancellations DEF Reaches
  <2>2. \A x \in Clients :
        /\ client'[x].session = client[x].session /\ client'[x].command = client[x].command
        /\ client[x].pc \in {"sending", "failing"} => client'[x].pc = client[x].pc
    BY <1>18 DEF CancelsTurn, Spoke, Broke
  <2>3. UNCHANGED <<disk, daemon, ending, known>>
    BY <1>18 DEF CancelsTurn
  <2> QED  BY <2>1, <2>2, <2>3 DEF ActiveHasOwner, Active, Leaked, Unlisted, Live, Session, ToEnd
<1>19. ASSUME NEW c \in Clients, CancelsAlone(c) PROVE ActiveHasOwner'
  BY <1>19 DEF CancelsAlone, Spoke, Serves, ActiveHasOwner, Active, Leaked, Unlisted,
    Live, Session, ToEnd
<1>20. ASSUME NEW c \in Clients, Breaks(c) PROVE ActiveHasOwner'
  <2>1. \A x \in Clients : turn'[x].stage = turn[x].stage
    BY <1>20, Cancellations DEF Reaches
  <2>2. \A x \in Clients :
        /\ client'[x].session = client[x].session /\ client'[x].command = client[x].command
        /\ client[x].pc \in {"sending", "failing"} => client'[x].pc = client[x].pc
    BY <1>20 DEF Breaks, Spoke, Broke
  <2>3. UNCHANGED <<disk, daemon, ending, known>>
    BY <1>20 DEF Breaks
  <2> QED  BY <2>1, <2>2, <2>3 DEF ActiveHasOwner, Active, Leaked, Unlisted, Live, Session, ToEnd
<1>21. ASSUME NEW c \in Clients, BeginsToRestore(c) PROVE ActiveHasOwner'
  BY <1>21 DEF BeginsToRestore, Staged, ActiveHasOwner, Active, Leaked, Unlisted,
    Live, Session, ToEnd
<1>22. ASSUME NEW c \in Clients, Enqueues(c) PROVE ActiveHasOwner'
  BY <1>22 DEF Enqueues, Staged, Queued, EntersSlot, ActiveHasOwner, Active, Leaked,
    Unlisted, Live, Session, ToEnd
<1>23. ASSUME NEW c \in Clients, IsRestored(c) PROVE ActiveHasOwner'
  BY <1>23 DEF IsRestored, Prepared, Queued, EntersSlot, ActiveHasOwner, Active,
    Leaked, Unlisted, Live, Session, ToEnd
<1>24. ASSUME NEW c \in Clients, IsNotRestored(c) PROVE ActiveHasOwner'
  <2>1. Advanced(c) /\ Settled(c) /\ turn[c].stage # "none"
    BY <1>24, Endings
  <2>2. \A x \in Clients : turn'[x].stage = IF x = c THEN "ended" ELSE turn[x].stage
    BY <1>24 DEF IsNotRestored, Left, Finishes
  <2>3. \A x \in Clients :
        /\ client'[x].session = client[x].session /\ client'[x].command = client[x].command
        /\ client[x].pc \in {"sending", "failing"} => client'[x].pc = client[x].pc
    BY <2>1 DEF Advanced
  <2>4. \A z \in Sessions : disk'[z].state \in {"starting", "running"} => disk'[z].state = disk[z].state
    BY <2>1 DEF Settled
  <2>5. \/ disk'[Session(c)].state \notin {"starting", "running"}
        \/ daemon \in {"exiting", "down"} /\ c \notin known /\ turn'[c].stage = "ended"
    BY <1>24, Ceases
  <2>6. daemon' = daemon /\ known' = known
    BY <1>24 DEF IsNotRestored
  <2>7. \A x \in Clients : ToEnd(x) => ToEnd(x)'
    BY <1>24 DEF IsNotRestored, ToEnd
  <2> QED  BY <2>2, <2>3, <2>4, <2>5, <2>6, <2>7 DEF ActiveHasOwner, Active, Leaked, Unlisted, Live, Session, ToEnd
<1>25. ASSUME NEW c \in Clients, IsNext(c) PROVE ActiveHasOwner'
  BY <1>25 DEF IsNext, Staged, ActiveHasOwner, Active, Leaked, Unlisted, Live,
    Session, ToEnd
<1>26. ASSUME NEW c \in Clients, Drives(c) PROVE ActiveHasOwner'
  BY <1>26 DEF Drives, Staged, ActiveHasOwner, Active, Leaked, Unlisted, Live,
    Session, ToEnd
<1>27. ASSUME NEW c \in Clients, RunIsOver(c) PROVE ActiveHasOwner'
  <2>1. Advanced(c) /\ Settled(c) /\ turn[c].stage # "none"
    BY <1>27, Endings
  <2>2. \A x \in Clients : turn'[x].stage = IF x = c THEN "ended" ELSE turn[x].stage
    BY <1>27 DEF RunIsOver, Left, Finishes
  <2>3. \A x \in Clients :
        /\ client'[x].session = client[x].session /\ client'[x].command = client[x].command
        /\ client[x].pc \in {"sending", "failing"} => client'[x].pc = client[x].pc
    BY <2>1 DEF Advanced
  <2>4. \A z \in Sessions : disk'[z].state \in {"starting", "running"} => disk'[z].state = disk[z].state
    BY <2>1 DEF Settled
  <2>5. \/ disk'[Session(c)].state \notin {"starting", "running"}
        \/ daemon \in {"exiting", "down"} /\ c \notin known /\ turn'[c].stage = "ended"
    BY <1>27, Ceases
  <2>6. daemon' = daemon /\ known' = known
    BY <1>27 DEF RunIsOver
  <2>7. \A x \in Clients : ToEnd(x) => ToEnd(x)'
    BY <1>27 DEF RunIsOver, ToEnd
  <2> QED  BY <2>2, <2>3, <2>4, <2>5, <2>6, <2>7 DEF ActiveHasOwner, Active, Leaked, Unlisted, Live, Session, ToEnd
<1>28. ASSUME NEW c \in Clients, StartIsCanceled(c) PROVE ActiveHasOwner'
  <2>1. Advanced(c) /\ Settled(c) /\ turn[c].stage # "none"
    BY <1>28, Endings
  <2>2. \A x \in Clients : turn'[x].stage = IF x = c THEN "ended" ELSE turn[x].stage
    BY <1>28 DEF StartIsCanceled, Left
  <2>3. \A x \in Clients :
        /\ client'[x].session = client[x].session /\ client'[x].command = client[x].command
        /\ client[x].pc \in {"sending", "failing"} => client'[x].pc = client[x].pc
    BY <2>1 DEF Advanced
  <2>4. \A z \in Sessions : disk'[z].state \in {"starting", "running"} => disk'[z].state = disk[z].state
    BY <2>1 DEF Settled
  <2>5. \/ disk'[Session(c)].state \notin {"starting", "running"}
        \/ daemon \in {"exiting", "down"} /\ c \notin known /\ turn'[c].stage = "ended"
    BY <1>28, Ceases
  <2>6. daemon' = daemon /\ known' = known
    BY <1>28 DEF StartIsCanceled
  <2>7. \A x \in Clients : ToEnd(x) => ToEnd(x)'
    BY <1>28 DEF StartIsCanceled, ToEnd
  <2> QED  BY <2>2, <2>3, <2>4, <2>5, <2>6, <2>7 DEF ActiveHasOwner, Active, Leaked, Unlisted, Live, Session, ToEnd
<1>29. ASSUME NEW c \in Clients, Leaks(c) PROVE ActiveHasOwner'
  BY <1>29 DEF Leaks, Stopped, ActiveHasOwner, Active, Leaked, Unlisted, Live,
    Session, ToEnd
<1>30. ASSUME NEW c \in Clients, PreparationIsCanceled(c) PROVE ActiveHasOwner'
  <2>1. Advanced(c) /\ Settled(c) /\ turn[c].stage # "none"
    BY <1>30, Endings
  <2>2. \A x \in Clients : turn'[x].stage = IF x = c THEN "ended" ELSE turn[x].stage
    BY <1>30 DEF PreparationIsCanceled, Left, Finishes
  <2>3. \A x \in Clients :
        /\ client'[x].session = client[x].session /\ client'[x].command = client[x].command
        /\ client[x].pc \in {"sending", "failing"} => client'[x].pc = client[x].pc
    BY <2>1 DEF Advanced
  <2>4. \A z \in Sessions : disk'[z].state \in {"starting", "running"} => disk'[z].state = disk[z].state
    BY <2>1 DEF Settled
  <2>5. \/ disk'[Session(c)].state \notin {"starting", "running"}
        \/ daemon \in {"exiting", "down"} /\ c \notin known /\ turn'[c].stage = "ended"
    BY <1>30, Ceases
  <2>6. daemon' = daemon /\ known' = known
    BY <1>30 DEF PreparationIsCanceled
  <2>7. \A x \in Clients : ToEnd(x) => ToEnd(x)'
    BY <1>30 DEF PreparationIsCanceled, ToEnd
  <2> QED  BY <2>2, <2>3, <2>4, <2>5, <2>6, <2>7 DEF ActiveHasOwner, Active, Leaked, Unlisted, Live, Session, ToEnd
<1>31. ASSUME NEW c \in Clients, PreparationIsKilled(c) PROVE ActiveHasOwner'
  <2>1. ToEnd(c) \/ (daemon = "exiting" /\ c \notin known)
    BY <1>31 DEF PreparationIsKilled, Listed, Excused
  <2>2. \A x \in Clients : turn'[x].stage = IF x = c THEN "ended" ELSE turn[x].stage
    BY <1>31 DEF PreparationIsKilled, Stopped
  <2>3. UNCHANGED <<disk, client, daemon, ending, known>>
    BY <1>31 DEF PreparationIsKilled
  <2> QED  BY <2>1, <2>2, <2>3 DEF ActiveHasOwner, Active, Leaked, Unlisted, Live, Session, ToEnd
<1>32. ASSUME NEW c \in Clients, IsStruck(c) PROVE ActiveHasOwner'
  BY <1>32 DEF IsStruck, Struck, ActiveHasOwner, Active, Leaked, Unlisted, Live,
    Session, ToEnd
<1>33. ASSUME NEW c \in Clients, IsClosed(c) PROVE ActiveHasOwner'
  <2>1. Advanced(c) /\ Settled(c) /\ turn[c].stage # "none"
    BY <1>33, Endings
  <2>2. \A x \in Clients : turn'[x].stage = IF x = c THEN "ended" ELSE turn[x].stage
    BY <1>33 DEF IsClosed, Closed
  <2>3. \A x \in Clients :
        /\ client'[x].session = client[x].session /\ client'[x].command = client[x].command
        /\ client[x].pc \in {"sending", "failing"} => client'[x].pc = client[x].pc
    BY <2>1 DEF Advanced
  <2>4. \A z \in Sessions : disk'[z].state \in {"starting", "running"} => disk'[z].state = disk[z].state
    BY <2>1 DEF Settled
  <2>5. \/ disk'[Session(c)].state \notin {"starting", "running"}
        \/ daemon \in {"exiting", "down"} /\ c \notin known /\ turn'[c].stage = "ended"
    BY <1>33, Ceases
  <2>6. daemon' = daemon /\ known' = known
    BY <1>33 DEF IsClosed
  <2>7. \A x \in Clients : ToEnd(x) => x = c \/ ToEnd(x)'
    BY <1>33, Endless
  <2>8. disk'[Session(c)].state \notin {"starting", "running"}
    BY <2>5, <1>33 DEF IsClosed
  <2> QED  BY <2>2, <2>3, <2>4, <2>5, <2>6, <2>7, <2>8 DEF ActiveHasOwner, Active, Leaked, Unlisted, Live, Session, ToEnd
<1>34. ASSUME NEW c \in Clients, IsAbandoned(c) PROVE ActiveHasOwner'
  BY <1>34 DEF IsAbandoned, Shot, ActiveHasOwner, Active, Leaked, Unlisted, Live,
    Session, ToEnd
<1> QED
  BY <1>1, <1>2, <1>3, <1>4, <1>5, <1>6, <1>7, <1>8, <1>9, <1>10, <1>11, <1>12, <1>13,
    <1>14, <1>15, <1>16, <1>17, <1>18, <1>19, <1>20, <1>21, <1>22, <1>23, <1>24,
    <1>25, <1>26, <1>27, <1>28, <1>29, <1>30, <1>31, <1>32, <1>33, <1>34 DEF Effect

\* The shutdown goes through its phases.
LEMMA PhasesStep ==
  ASSUME Members, Backups, Numbered, Created, Dispatching, Fresh, Waiting, Listed,
         Entries, Phases, Effect PROVE Phases'
<1> USE DEF Phases, Live
<1>1. ASSUME Quiet PROVE Phases'
  BY <1>1 DEF Quiet
<1>2. ASSUME ShutsDown PROVE Phases'
  BY <1>2 DEF ShutsDown
<1>3. ASSUME IsCleared PROVE Phases'
  BY <1>3 DEF IsCleared
<1>4. ASSUME IsGone PROVE Phases'
  BY <1>4 DEF IsGone
<1>5. ASSUME NEW c \in Clients, Creates(c) PROVE Phases'
  BY <1>5 DEF Creates, Began, DiskAt
<1>6. ASSUME NEW c \in Clients, Continues(c) PROVE Phases'
  BY <1>6 DEF Continues, Began
<1>7. ASSUME NEW c \in Clients, Observes(c) PROVE Phases'
  BY <1>7 DEF Observes, Began
<1>8. ASSUME NEW c \in Clients, Goes(c) PROVE Phases'
  <2>1. \A x \in Clients :
        /\ turn'[x].stage = turn[x].stage
    BY <1>8 DEF Goes, Parted, Spoke
  <2> QED  BY <1>8, <2>1 DEF Goes
<1>9. ASSUME NEW c \in Clients, FailsSession(c) PROVE Phases'
  BY <1>9 DEF FailsSession, Spoke, Ended
<1>10. ASSUME NEW c \in Clients, IsLost(c) PROVE Phases'
  <2>1. \A x \in Clients :
        /\ turn'[x].stage = turn[x].stage
    BY <1>10 DEF IsLost, Parted, Spoke, AfterOutcome
  <2> QED  BY <1>10, <2>1 DEF IsLost
<1>11. ASSUME NEW c \in Clients, IsRefused(c) PROVE Phases'
  BY <1>11 DEF IsRefused, Spoke, DiskAt, Serves
<1>12. ASSUME NEW c \in Clients, StartsNext(c) PROVE Phases'
  BY <1>12 DEF StartsNext, Entered, Spoke, DiskAt, TableAt, Serves
<1>13. ASSUME NEW c \in Clients, StartsFirst(c) PROVE Phases'
  BY <1>13 DEF StartsFirst, Entered, Spoke, TableAt, Serves
<1>14. ASSUME NEW c \in Clients, IsAccepted(c) PROVE Phases'
  BY <1>14 DEF IsAccepted, Claiming, Reached
<1>15. ASSUME NEW c \in Clients, StartIsUndone(c) PROVE Phases'
  <2>1. \A x \in Clients : turn'[x].stage = IF x = c THEN "refused" ELSE turn[x].stage
    BY <1>15 DEF StartIsUndone, Stopped
  <2>2. UNCHANGED <<daemon, ending, known>>
    BY <1>15 DEF StartIsUndone
  <2> QED  BY <2>1, <2>2
<1>16. ASSUME NEW c \in Clients, Joins(c) PROVE Phases'
  <2>1. \A x \in Clients :
        /\ turn'[x].stage = turn[x].stage
    BY <1>16 DEF Joins, Joined, Spoke, Serves
  <2> QED  BY <1>16, <2>1 DEF Joins, Serves
<1>17. ASSUME NEW c \in Clients, FindsNothing(c) PROVE Phases'
  BY <1>17 DEF FindsNothing, Spoke, Serves
<1>18. ASSUME NEW c \in Clients, CancelsTurn(c) PROVE Phases'
  <2>1. \A x \in Clients : turn'[x].stage = turn[x].stage
    BY <1>18, Cancellations DEF Reaches
  <2>2. UNCHANGED <<daemon, ending, known>>
    BY <1>18 DEF CancelsTurn
  <2> QED  BY <2>1, <2>2
<1>19. ASSUME NEW c \in Clients, CancelsAlone(c) PROVE Phases'
  BY <1>19 DEF CancelsAlone, Spoke, Serves
<1>20. ASSUME NEW c \in Clients, Breaks(c) PROVE Phases'
  <2>1. \A x \in Clients : turn'[x].stage = turn[x].stage
    BY <1>20, Cancellations DEF Reaches
  <2>2. UNCHANGED <<daemon, ending, known>>
    BY <1>20 DEF Breaks
  <2> QED  BY <2>1, <2>2
<1>21. ASSUME NEW c \in Clients, BeginsToRestore(c) PROVE Phases'
  BY <1>21 DEF BeginsToRestore, Staged
<1>22. ASSUME NEW c \in Clients, Enqueues(c) PROVE Phases'
  BY <1>22 DEF Enqueues, Staged, Queued, EntersSlot
<1>23. ASSUME NEW c \in Clients, IsRestored(c) PROVE Phases'
  BY <1>23 DEF IsRestored, Prepared, Queued, EntersSlot
<1>24. ASSUME NEW c \in Clients, IsNotRestored(c) PROVE Phases'
  <2>1. \A x \in Clients : turn'[x].stage = IF x = c THEN "ended" ELSE turn[x].stage
    BY <1>24 DEF IsNotRestored, Left, Finishes
  <2>2. UNCHANGED <<daemon, ending, known>>
    BY <1>24 DEF IsNotRestored
  <2> QED  BY <2>1, <2>2
<1>25. ASSUME NEW c \in Clients, IsNext(c) PROVE Phases'
  BY <1>25 DEF IsNext, Staged
<1>26. ASSUME NEW c \in Clients, Drives(c) PROVE Phases'
  BY <1>26 DEF Drives, Staged
<1>27. ASSUME NEW c \in Clients, RunIsOver(c) PROVE Phases'
  <2>1. \A x \in Clients : turn'[x].stage = IF x = c THEN "ended" ELSE turn[x].stage
    BY <1>27 DEF RunIsOver, Left, Finishes
  <2>2. UNCHANGED <<daemon, ending, known>>
    BY <1>27 DEF RunIsOver
  <2> QED  BY <2>1, <2>2
<1>28. ASSUME NEW c \in Clients, StartIsCanceled(c) PROVE Phases'
  <2>1. \A x \in Clients : turn'[x].stage = IF x = c THEN "ended" ELSE turn[x].stage
    BY <1>28 DEF StartIsCanceled, Left
  <2>2. UNCHANGED <<daemon, ending, known>>
    BY <1>28 DEF StartIsCanceled
  <2> QED  BY <2>1, <2>2
<1>29. ASSUME NEW c \in Clients, Leaks(c) PROVE Phases'
  BY <1>29 DEF Leaks, Stopped
<1>30. ASSUME NEW c \in Clients, PreparationIsCanceled(c) PROVE Phases'
  <2>1. \A x \in Clients : turn'[x].stage = IF x = c THEN "ended" ELSE turn[x].stage
    BY <1>30 DEF PreparationIsCanceled, Left, Finishes
  <2>2. UNCHANGED <<daemon, ending, known>>
    BY <1>30 DEF PreparationIsCanceled
  <2> QED  BY <2>1, <2>2
<1>31. ASSUME NEW c \in Clients, PreparationIsKilled(c) PROVE Phases'
  BY <1>31 DEF PreparationIsKilled, Stopped
<1>32. ASSUME NEW c \in Clients, IsStruck(c) PROVE Phases'
  BY <1>32 DEF IsStruck, Struck
<1>33. ASSUME NEW c \in Clients, IsClosed(c) PROVE Phases'
  <2>1. \A x \in Clients : turn'[x].stage = IF x = c THEN "ended" ELSE turn[x].stage
    BY <1>33 DEF IsClosed, Closed
  <2>2. daemon = "ending" /\ UNCHANGED <<daemon, known>>
    BY <1>33 DEF IsClosed
  <2> QED  BY <2>1, <2>2
<1>34. ASSUME NEW c \in Clients, IsAbandoned(c) PROVE Phases'
  BY <1>34 DEF IsAbandoned, Shot
<1> QED
  BY <1>1, <1>2, <1>3, <1>4, <1>5, <1>6, <1>7, <1>8, <1>9, <1>10, <1>11, <1>12, <1>13,
    <1>14, <1>15, <1>16, <1>17, <1>18, <1>19, <1>20, <1>21, <1>22, <1>23, <1>24,
    <1>25, <1>26, <1>27, <1>28, <1>29, <1>30, <1>31, <1>32, <1>33, <1>34 DEF Effect

\* It lists turns that have begun.
LEMMA NotedStep ==
  ASSUME Members, Backups, Numbered, Created, Dispatching, Fresh, Waiting, Listed,
         Entries, Noted, Effect PROVE Noted'
<1>1. ASSUME Quiet PROVE Noted'
  BY <1>1 DEF Quiet, Noted, ToEnd
<1>2. ASSUME ShutsDown PROVE Noted'
  <2>1. turn' = turn /\ known' = InTable
    BY <1>2 DEF ShutsDown
  <2>2. \A x \in InTable : turn[x].stage # "none" /\ x \in Clients
    BY DaemonAssumption DEF InTable, Entries, Members
  <2>3. \A x \in Clients : ToEnd(x)' => x \in InTable
    BY <1>2 DEF ShutsDown, ToEnd
  <2> QED  BY <2>1, <2>2, <2>3 DEF Noted
<1>3. ASSUME IsCleared PROVE Noted'
  BY <1>3 DEF IsCleared, Noted, ToEnd
<1>4. ASSUME IsGone PROVE Noted'
  BY <1>4 DEF IsGone, Noted, ToEnd
<1>5. ASSUME NEW c \in Clients, Creates(c) PROVE Noted'
  BY <1>5 DEF Creates, Began, DiskAt, Noted, ToEnd
<1>6. ASSUME NEW c \in Clients, Continues(c) PROVE Noted'
  BY <1>6 DEF Continues, Began, Noted, ToEnd
<1>7. ASSUME NEW c \in Clients, Observes(c) PROVE Noted'
  BY <1>7 DEF Observes, Began, Noted, ToEnd
<1>8. ASSUME NEW c \in Clients, Goes(c) PROVE Noted'
  <2>1. \A x \in Clients :
        /\ turn'[x].stage = turn[x].stage
    BY <1>8 DEF Goes, Parted, Spoke
  <2> QED  BY <1>8, <2>1 DEF Goes, Noted, ToEnd
<1>9. ASSUME NEW c \in Clients, FailsSession(c) PROVE Noted'
  BY <1>9 DEF FailsSession, Spoke, Ended, Noted, ToEnd
<1>10. ASSUME NEW c \in Clients, IsLost(c) PROVE Noted'
  <2>1. \A x \in Clients :
        /\ turn'[x].stage = turn[x].stage
    BY <1>10 DEF IsLost, Parted, Spoke, AfterOutcome
  <2> QED  BY <1>10, <2>1 DEF IsLost, Noted, ToEnd
<1>11. ASSUME NEW c \in Clients, IsRefused(c) PROVE Noted'
  BY <1>11 DEF IsRefused, Spoke, DiskAt, Serves, Noted, ToEnd
<1>12. ASSUME NEW c \in Clients, StartsNext(c) PROVE Noted'
  BY <1>12 DEF StartsNext, Entered, Spoke, DiskAt, TableAt, Serves, Noted, ToEnd
<1>13. ASSUME NEW c \in Clients, StartsFirst(c) PROVE Noted'
  BY <1>13 DEF StartsFirst, Entered, Spoke, TableAt, Serves, Noted, ToEnd
<1>14. ASSUME NEW c \in Clients, IsAccepted(c) PROVE Noted'
  BY <1>14 DEF IsAccepted, Claiming, Reached, Noted, ToEnd
<1>15. ASSUME NEW c \in Clients, StartIsUndone(c) PROVE Noted'
  <2>1. \A x \in Clients : turn'[x].stage = IF x = c THEN "refused" ELSE turn[x].stage
    BY <1>15 DEF StartIsUndone, Stopped
  <2>2. UNCHANGED <<daemon, ending, known>>
    BY <1>15 DEF StartIsUndone
  <2> QED  BY <2>1, <2>2 DEF Noted, ToEnd
<1>16. ASSUME NEW c \in Clients, Joins(c) PROVE Noted'
  <2>1. \A x \in Clients :
        /\ turn'[x].stage = turn[x].stage
    BY <1>16 DEF Joins, Joined, Spoke, Serves
  <2> QED  BY <1>16, <2>1 DEF Joins, Serves, Noted, ToEnd
<1>17. ASSUME NEW c \in Clients, FindsNothing(c) PROVE Noted'
  BY <1>17 DEF FindsNothing, Spoke, Serves, Noted, ToEnd
<1>18. ASSUME NEW c \in Clients, CancelsTurn(c) PROVE Noted'
  <2>1. \A x \in Clients : turn'[x].stage = turn[x].stage
    BY <1>18, Cancellations DEF Reaches
  <2>2. UNCHANGED <<daemon, ending, known>>
    BY <1>18 DEF CancelsTurn
  <2> QED  BY <2>1, <2>2 DEF Noted, ToEnd
<1>19. ASSUME NEW c \in Clients, CancelsAlone(c) PROVE Noted'
  BY <1>19 DEF CancelsAlone, Spoke, Serves, Noted, ToEnd
<1>20. ASSUME NEW c \in Clients, Breaks(c) PROVE Noted'
  <2>1. \A x \in Clients : turn'[x].stage = turn[x].stage
    BY <1>20, Cancellations DEF Reaches
  <2>2. UNCHANGED <<daemon, ending, known>>
    BY <1>20 DEF Breaks
  <2> QED  BY <2>1, <2>2 DEF Noted, ToEnd
<1>21. ASSUME NEW c \in Clients, BeginsToRestore(c) PROVE Noted'
  BY <1>21 DEF BeginsToRestore, Staged, Noted, ToEnd
<1>22. ASSUME NEW c \in Clients, Enqueues(c) PROVE Noted'
  BY <1>22 DEF Enqueues, Staged, Queued, EntersSlot, Noted, ToEnd
<1>23. ASSUME NEW c \in Clients, IsRestored(c) PROVE Noted'
  BY <1>23 DEF IsRestored, Prepared, Queued, EntersSlot, Noted, ToEnd
<1>24. ASSUME NEW c \in Clients, IsNotRestored(c) PROVE Noted'
  <2>1. \A x \in Clients : turn'[x].stage = IF x = c THEN "ended" ELSE turn[x].stage
    BY <1>24 DEF IsNotRestored, Left, Finishes
  <2>2. UNCHANGED <<daemon, ending, known>>
    BY <1>24 DEF IsNotRestored
  <2> QED  BY <2>1, <2>2 DEF Noted, ToEnd
<1>25. ASSUME NEW c \in Clients, IsNext(c) PROVE Noted'
  BY <1>25 DEF IsNext, Staged, Noted, ToEnd
<1>26. ASSUME NEW c \in Clients, Drives(c) PROVE Noted'
  BY <1>26 DEF Drives, Staged, Noted, ToEnd
<1>27. ASSUME NEW c \in Clients, RunIsOver(c) PROVE Noted'
  <2>1. \A x \in Clients : turn'[x].stage = IF x = c THEN "ended" ELSE turn[x].stage
    BY <1>27 DEF RunIsOver, Left, Finishes
  <2>2. UNCHANGED <<daemon, ending, known>>
    BY <1>27 DEF RunIsOver
  <2> QED  BY <2>1, <2>2 DEF Noted, ToEnd
<1>28. ASSUME NEW c \in Clients, StartIsCanceled(c) PROVE Noted'
  <2>1. \A x \in Clients : turn'[x].stage = IF x = c THEN "ended" ELSE turn[x].stage
    BY <1>28 DEF StartIsCanceled, Left
  <2>2. UNCHANGED <<daemon, ending, known>>
    BY <1>28 DEF StartIsCanceled
  <2> QED  BY <2>1, <2>2 DEF Noted, ToEnd
<1>29. ASSUME NEW c \in Clients, Leaks(c) PROVE Noted'
  BY <1>29 DEF Leaks, Stopped, Noted, ToEnd
<1>30. ASSUME NEW c \in Clients, PreparationIsCanceled(c) PROVE Noted'
  <2>1. \A x \in Clients : turn'[x].stage = IF x = c THEN "ended" ELSE turn[x].stage
    BY <1>30 DEF PreparationIsCanceled, Left, Finishes
  <2>2. UNCHANGED <<daemon, ending, known>>
    BY <1>30 DEF PreparationIsCanceled
  <2> QED  BY <2>1, <2>2 DEF Noted, ToEnd
<1>31. ASSUME NEW c \in Clients, PreparationIsKilled(c) PROVE Noted'
  BY <1>31 DEF PreparationIsKilled, Stopped, Noted, ToEnd
<1>32. ASSUME NEW c \in Clients, IsStruck(c) PROVE Noted'
  BY <1>32 DEF IsStruck, Struck, Noted, ToEnd
<1>33. ASSUME NEW c \in Clients, IsClosed(c) PROVE Noted'
  <2>1. \A x \in Clients : turn'[x].stage = IF x = c THEN "ended" ELSE turn[x].stage
    BY <1>33 DEF IsClosed, Closed
  <2>2. UNCHANGED known
    BY <1>33 DEF IsClosed
  <2>3. \A x \in Clients : ToEnd(x)' => ToEnd(x)
    BY <1>33, Endless
  <2> QED  BY <2>1, <2>2, <2>3 DEF Noted
<1>34. ASSUME NEW c \in Clients, IsAbandoned(c) PROVE Noted'
  BY <1>34 DEF IsAbandoned, Shot, Noted, ToEnd
<1> QED
  BY <1>1, <1>2, <1>3, <1>4, <1>5, <1>6, <1>7, <1>8, <1>9, <1>10, <1>11, <1>12, <1>13,
    <1>14, <1>15, <1>16, <1>17, <1>18, <1>19, <1>20, <1>21, <1>22, <1>23, <1>24,
    <1>25, <1>26, <1>27, <1>28, <1>29, <1>30, <1>31, <1>32, <1>33, <1>34 DEF Effect

\* A listed turn is ended, and its session with it.
LEMMA AccountedStep ==
  ASSUME Members, Backups, Numbered, Created, Dispatching, Fresh, Waiting, Listed,
         Entries, Snapshots, Claimed, OnDisk, Reported, OneRun, Opening, Noted,
         Accounted, Effect PROVE Accounted'
<1>1. ASSUME Quiet PROVE Accounted'
  BY <1>1 DEF Quiet, Accounted, Active, Unlisted, Live, Session, ToEnd
<1>2. ASSUME ShutsDown PROVE Accounted'
  <2>1. known' = InTable
    BY <1>2 DEF ShutsDown
  <2>2. \A x \in InTable : ToEnd(x)'
    BY <1>2 DEF ShutsDown, ToEnd
  <2> QED  BY <2>1, <2>2 DEF Accounted
<1>3. ASSUME IsCleared PROVE Accounted'
  BY <1>3 DEF IsCleared, Accounted, Active, Unlisted, Live, Session, ToEnd
<1>4. ASSUME IsGone PROVE Accounted'
  BY <1>4 DEF IsGone, Accounted, Active, Unlisted, Live, Session, ToEnd
<1>5. ASSUME NEW c \in Clients, Creates(c) PROVE Accounted'
  <2>1. turn' = turn /\ UNCHANGED <<daemon, ending, known>>
    BY <1>5 DEF Creates
  <2>2. \A x \in Clients : client'[x].session = client[x].session
    BY <1>5 DEF Creates, Began
  <2>3. \A x \in Clients : x \in known => Session(x) # Session(c)
    BY <1>5 DEF Creates, Noted, Fresh, Untouched, Created
  <2>4. \A z \in Sessions : z # Session(c) => disk'[z] = disk[z]
    BY <1>5 DEF Creates, DiskAt
  <2>5. \A x \in Clients : Session(x) \in Sessions
    BY DEF Members
  <2> QED  BY <2>1, <2>2, <2>3, <2>4, <2>5 DEF Accounted, Active, Unlisted, Live, Session, ToEnd
<1>6. ASSUME NEW c \in Clients, Continues(c) PROVE Accounted'
  BY <1>6 DEF Continues, Began, Accounted, Active, Unlisted, Live, Session, ToEnd
<1>7. ASSUME NEW c \in Clients, Observes(c) PROVE Accounted'
  BY <1>7 DEF Observes, Began, Accounted, Active, Unlisted, Live, Session, ToEnd
<1>8. ASSUME NEW c \in Clients, Goes(c) PROVE Accounted'
  <2>1. \A w \in Clients :
        /\ client'[w].session = client[w].session
    BY <1>8 DEF Goes, Parted, Spoke
  <2>2. \A x \in Clients :
        /\ turn'[x].stage = turn[x].stage
    BY <1>8 DEF Goes, Parted, Spoke
  <2> QED  BY <1>8, <2>1, <2>2 DEF Goes, Accounted, Active, Unlisted, Live, Session,
      ToEnd
<1>9. ASSUME NEW c \in Clients, FailsSession(c) PROVE Accounted'
  <2>1. \A x \in Clients : turn'[x].stage = turn[x].stage
    BY <1>9 DEF FailsSession
  <2>2. \A x \in Clients : client'[x].session = client[x].session
    BY <1>9 DEF FailsSession, Spoke
  <2>3. \A z \in Sessions : disk'[z].state \in {"starting", "running"} => disk[z].state \in {"starting", "running"}
    BY <1>9 DEF FailsSession, Ended
  <2>4. \A x \in Clients : Session(x) \in Sessions
    BY DEF Members
  <2>5. UNCHANGED <<daemon, ending, known>>
    BY <1>9 DEF FailsSession
  <2> QED  BY <2>1, <2>2, <2>3, <2>4, <2>5 DEF Accounted, Active, Unlisted, Live, Session, ToEnd
<1>10. ASSUME NEW c \in Clients, IsLost(c) PROVE Accounted'
  <2>1. \A x \in Clients : turn'[x].stage = turn[x].stage
    BY <1>10 DEF IsLost, Parted
  <2>2. \A x \in Clients : client'[x].session = client[x].session
    BY <1>10 DEF IsLost, Spoke
  <2>3. UNCHANGED <<disk, daemon, ending, known>>
    BY <1>10 DEF IsLost
  <2> QED  BY <2>1, <2>2, <2>3 DEF Accounted, Active, Unlisted, Live, Session, ToEnd
<1>11. ASSUME NEW c \in Clients, IsRefused(c) PROVE Accounted'
  <2>1. UNCHANGED <<turn, daemon, ending, known>>
    BY <1>11 DEF IsRefused
  <2>2. \A x \in Clients : client'[x].session = client[x].session
    BY <1>11 DEF IsRefused, Spoke
  <2>3. \A z \in Sessions : disk'[z].state \in {"starting", "running"} => disk'[z].state = disk[z].state
    BY <1>11 DEF IsRefused, DiskAt
  <2>4. \A x \in Clients : Session(x) \in Sessions
    BY DEF Members
  <2> QED  BY <2>1, <2>2, <2>3, <2>4 DEF Accounted, Active, Unlisted, Live, Session, ToEnd
<1>12. ASSUME NEW c \in Clients, StartsNext(c) PROVE Accounted'
  <2>1. \A x \in Clients : turn'[x].stage = IF x = c THEN "ensuring" ELSE turn[x].stage
    BY <1>12 DEF StartsNext, Entered
  <2>2. turn[c].stage = "none" /\ c \notin known
    BY <1>12 DEF StartsNext, Fresh, Untouched, Noted
  <2>3. \A x \in Clients : client'[x].session = client[x].session
    BY <1>12 DEF StartsNext, Spoke
  <2>4. \A z \in Sessions : z # Session(c) => disk'[z] = disk[z]
    BY <1>12 DEF StartsNext, DiskAt
  <2>5. \A x \in Clients : Session(x) \in Sessions
    BY DEF Members
  <2>6. UNCHANGED <<daemon, ending, known>>
    BY <1>12 DEF StartsNext
  <2> QED  BY <2>1, <2>2, <2>3, <2>4, <2>5, <2>6 DEF Accounted, Active, Unlisted, Live, Session, ToEnd
<1>13. ASSUME NEW c \in Clients, StartsFirst(c) PROVE Accounted'
  <2>1. \A x \in Clients : turn'[x].stage = IF x = c THEN "ensuring" ELSE turn[x].stage
    BY <1>13 DEF StartsFirst, Entered
  <2>2. turn[c].stage = "none" /\ c \notin known
    BY <1>13 DEF StartsFirst, Fresh, Untouched, Noted
  <2>3. \A x \in Clients : client'[x].session = client[x].session
    BY <1>13 DEF StartsFirst, Spoke
  <2>4. disk' = disk
    BY <1>13 DEF StartsFirst, DiskAt
  <2>5. \A x \in Clients : Session(x) \in Sessions
    BY DEF Members
  <2>6. UNCHANGED <<daemon, ending, known>>
    BY <1>13 DEF StartsFirst
  <2> QED  BY <2>1, <2>2, <2>3, <2>4, <2>5, <2>6 DEF Accounted, Active, Unlisted, Live, Session, ToEnd
<1>14. ASSUME NEW c \in Clients, IsAccepted(c) PROVE Accounted'
  <2>1. \A x \in Clients : turn'[x].stage = IF x = c THEN "accepted" ELSE turn[x].stage
    BY <1>14 DEF IsAccepted, Claiming
  <2>2. \A x \in Clients : client'[x].session = client[x].session
    BY <1>14 DEF IsAccepted, Reached
  <2>3. \A z \in Sessions : disk'[z].state \in {"starting", "running"} => disk[z].state \in {"starting", "running"}
    BY <1>14 DEF IsAccepted, Ended
  <2>4. \A x \in Clients : Session(x) \in Sessions
    BY DEF Members
  <2>5. UNCHANGED <<daemon, ending, known>>
    BY <1>14 DEF IsAccepted
  <2>6. turn[c].stage = "ensuring"
    BY <1>14 DEF IsAccepted
  <2> QED  BY <2>1, <2>2, <2>3, <2>4, <2>5, <2>6 DEF Accounted, Active, Unlisted, Live, Session, ToEnd
<1>15. ASSUME NEW c \in Clients, StartIsUndone(c) PROVE Accounted'
  <2>1. Advanced(c) /\ Settled(c) /\ turn[c].stage # "none"
    BY <1>15, Endings
  <2>2. \A x \in Clients : turn'[x].stage = IF x = c THEN "refused" ELSE turn[x].stage
    BY <1>15 DEF StartIsUndone, Stopped
  <2>3. \A x \in Clients : client'[x].session = client[x].session
    BY <2>1 DEF Advanced
  <2>4. \A z \in Sessions : disk'[z].state \in {"starting", "running"} => disk'[z].state = disk[z].state
    BY <2>1 DEF Settled
  <2>5. \/ disk'[Session(c)].state \notin {"starting", "running"}
        \/ daemon \in {"exiting", "down"} /\ c \notin known /\ turn'[c].stage = "ended"
    BY <1>15, Ceases
  <2>6. UNCHANGED known
    BY <1>15 DEF StartIsUndone
  <2>7. \A x \in Clients : ToEnd(x) => ToEnd(x)'
    BY <1>15 DEF StartIsUndone, ToEnd
  <2>8. \A x \in Clients : Session(x) \in Sessions
    BY DEF Members
  <2> QED  BY <2>2, <2>3, <2>4, <2>5, <2>6, <2>7, <2>8 DEF Accounted, Active, Unlisted, Live, Session, ToEnd
<1>16. ASSUME NEW c \in Clients, Joins(c) PROVE Accounted'
  <2>1. \A x \in Clients :
        /\ turn'[x].stage = turn[x].stage
    BY <1>16 DEF Joins, Joined, Spoke, Serves
  <2>2. \A w \in Clients :
        /\ client'[w].session = client[w].session
    BY <1>16 DEF Joins, Joined, Spoke, Serves
  <2> QED  BY <1>16, <2>1, <2>2 DEF Joins, Serves, Accounted, Active, Unlisted, Live,
      Session, ToEnd
<1>17. ASSUME NEW c \in Clients, FindsNothing(c) PROVE Accounted'
  BY <1>17 DEF FindsNothing, Spoke, Serves, Accounted, Active, Unlisted, Live,
    Session, ToEnd
<1>18. ASSUME NEW c \in Clients, CancelsTurn(c) PROVE Accounted'
  <2>1. \A x \in Clients : turn'[x].stage = turn[x].stage
    BY <1>18, Cancellations DEF Reaches
  <2>2. \A x \in Clients : client'[x].session = client[x].session
    BY <1>18 DEF CancelsTurn, Spoke, Broke
  <2>3. UNCHANGED <<disk, daemon, ending, known>>
    BY <1>18 DEF CancelsTurn
  <2> QED  BY <2>1, <2>2, <2>3 DEF Accounted, Active, Unlisted, Live, Session, ToEnd
<1>19. ASSUME NEW c \in Clients, CancelsAlone(c) PROVE Accounted'
  <2>1. \A x \in Clients : turn'[x].stage = turn[x].stage
    BY <1>19 DEF CancelsAlone
  <2>2. \A x \in Clients : client'[x].session = client[x].session
    BY <1>19 DEF CancelsAlone, Spoke
  <2>3. \A z \in Sessions : disk'[z].state \in {"starting", "running"} => disk[z].state \in {"starting", "running"}
    BY <1>19 DEF CancelsAlone, Ended
  <2>4. \A x \in Clients : Session(x) \in Sessions
    BY DEF Members
  <2>5. UNCHANGED <<daemon, ending, known>>
    BY <1>19 DEF CancelsAlone
  <2> QED  BY <2>1, <2>2, <2>3, <2>4, <2>5 DEF Accounted, Active, Unlisted, Live, Session, ToEnd
<1>20. ASSUME NEW c \in Clients, Breaks(c) PROVE Accounted'
  <2>1. \A x \in Clients : turn'[x].stage = turn[x].stage
    BY <1>20, Cancellations DEF Reaches
  <2>2. \A x \in Clients : client'[x].session = client[x].session
    BY <1>20 DEF Breaks, Spoke, Broke
  <2>3. UNCHANGED <<disk, daemon, ending, known>>
    BY <1>20 DEF Breaks
  <2> QED  BY <2>1, <2>2, <2>3 DEF Accounted, Active, Unlisted, Live, Session, ToEnd
<1>21. ASSUME NEW c \in Clients, BeginsToRestore(c) PROVE Accounted'
  BY <1>21 DEF BeginsToRestore, Staged, Accounted, Active, Unlisted, Live, Session,
    ToEnd
<1>22. ASSUME NEW c \in Clients, Enqueues(c) PROVE Accounted'
  BY <1>22 DEF Enqueues, Staged, Queued, EntersSlot, Accounted, Active, Unlisted,
    Live, Session, ToEnd
<1>23. ASSUME NEW c \in Clients, IsRestored(c) PROVE Accounted'
  BY <1>23 DEF IsRestored, Prepared, Queued, EntersSlot, Accounted, Active, Unlisted,
    Live, Session, ToEnd
<1>24. ASSUME NEW c \in Clients, IsNotRestored(c) PROVE Accounted'
  <2>1. Advanced(c) /\ Settled(c) /\ turn[c].stage # "none"
    BY <1>24, Endings
  <2>2. \A x \in Clients : turn'[x].stage = IF x = c THEN "ended" ELSE turn[x].stage
    BY <1>24 DEF IsNotRestored, Left, Finishes
  <2>3. \A x \in Clients : client'[x].session = client[x].session
    BY <2>1 DEF Advanced
  <2>4. \A z \in Sessions : disk'[z].state \in {"starting", "running"} => disk'[z].state = disk[z].state
    BY <2>1 DEF Settled
  <2>5. \/ disk'[Session(c)].state \notin {"starting", "running"}
        \/ daemon \in {"exiting", "down"} /\ c \notin known /\ turn'[c].stage = "ended"
    BY <1>24, Ceases
  <2>6. UNCHANGED known
    BY <1>24 DEF IsNotRestored
  <2>7. \A x \in Clients : ToEnd(x) => ToEnd(x)'
    BY <1>24 DEF IsNotRestored, ToEnd
  <2>8. \A x \in Clients : Session(x) \in Sessions
    BY DEF Members
  <2> QED  BY <2>2, <2>3, <2>4, <2>5, <2>6, <2>7, <2>8 DEF Accounted, Active, Unlisted, Live, Session, ToEnd
<1>25. ASSUME NEW c \in Clients, IsNext(c) PROVE Accounted'
  BY <1>25 DEF IsNext, Staged, Accounted, Active, Unlisted, Live, Session, ToEnd
<1>26. ASSUME NEW c \in Clients, Drives(c) PROVE Accounted'
  BY <1>26 DEF Drives, Staged, Accounted, Active, Unlisted, Live, Session, ToEnd
<1>27. ASSUME NEW c \in Clients, RunIsOver(c) PROVE Accounted'
  <2>1. Advanced(c) /\ Settled(c) /\ turn[c].stage # "none"
    BY <1>27, Endings
  <2>2. \A x \in Clients : turn'[x].stage = IF x = c THEN "ended" ELSE turn[x].stage
    BY <1>27 DEF RunIsOver, Left, Finishes
  <2>3. \A x \in Clients : client'[x].session = client[x].session
    BY <2>1 DEF Advanced
  <2>4. \A z \in Sessions : disk'[z].state \in {"starting", "running"} => disk'[z].state = disk[z].state
    BY <2>1 DEF Settled
  <2>5. \/ disk'[Session(c)].state \notin {"starting", "running"}
        \/ daemon \in {"exiting", "down"} /\ c \notin known /\ turn'[c].stage = "ended"
    BY <1>27, Ceases
  <2>6. UNCHANGED known
    BY <1>27 DEF RunIsOver
  <2>7. \A x \in Clients : ToEnd(x) => ToEnd(x)'
    BY <1>27 DEF RunIsOver, ToEnd
  <2>8. \A x \in Clients : Session(x) \in Sessions
    BY DEF Members
  <2> QED  BY <2>2, <2>3, <2>4, <2>5, <2>6, <2>7, <2>8 DEF Accounted, Active, Unlisted, Live, Session, ToEnd
<1>28. ASSUME NEW c \in Clients, StartIsCanceled(c) PROVE Accounted'
  <2>1. Advanced(c) /\ Settled(c) /\ turn[c].stage # "none"
    BY <1>28, Endings
  <2>2. \A x \in Clients : turn'[x].stage = IF x = c THEN "ended" ELSE turn[x].stage
    BY <1>28 DEF StartIsCanceled, Left
  <2>3. \A x \in Clients : client'[x].session = client[x].session
    BY <2>1 DEF Advanced
  <2>4. \A z \in Sessions : disk'[z].state \in {"starting", "running"} => disk'[z].state = disk[z].state
    BY <2>1 DEF Settled
  <2>5. \/ disk'[Session(c)].state \notin {"starting", "running"}
        \/ daemon \in {"exiting", "down"} /\ c \notin known /\ turn'[c].stage = "ended"
    BY <1>28, Ceases
  <2>6. UNCHANGED known
    BY <1>28 DEF StartIsCanceled
  <2>7. \A x \in Clients : ToEnd(x) => ToEnd(x)'
    BY <1>28 DEF StartIsCanceled, ToEnd
  <2>8. \A x \in Clients : Session(x) \in Sessions
    BY DEF Members
  <2> QED  BY <2>2, <2>3, <2>4, <2>5, <2>6, <2>7, <2>8 DEF Accounted, Active, Unlisted, Live, Session, ToEnd
<1>29. ASSUME NEW c \in Clients, Leaks(c) PROVE Accounted'
  BY <1>29 DEF Leaks, Stopped, Accounted, Active, Unlisted, Live, Session, ToEnd
<1>30. ASSUME NEW c \in Clients, PreparationIsCanceled(c) PROVE Accounted'
  <2>1. Advanced(c) /\ Settled(c) /\ turn[c].stage # "none"
    BY <1>30, Endings
  <2>2. \A x \in Clients : turn'[x].stage = IF x = c THEN "ended" ELSE turn[x].stage
    BY <1>30 DEF PreparationIsCanceled, Left, Finishes
  <2>3. \A x \in Clients : client'[x].session = client[x].session
    BY <2>1 DEF Advanced
  <2>4. \A z \in Sessions : disk'[z].state \in {"starting", "running"} => disk'[z].state = disk[z].state
    BY <2>1 DEF Settled
  <2>5. \/ disk'[Session(c)].state \notin {"starting", "running"}
        \/ daemon \in {"exiting", "down"} /\ c \notin known /\ turn'[c].stage = "ended"
    BY <1>30, Ceases
  <2>6. UNCHANGED known
    BY <1>30 DEF PreparationIsCanceled
  <2>7. \A x \in Clients : ToEnd(x) => ToEnd(x)'
    BY <1>30 DEF PreparationIsCanceled, ToEnd
  <2>8. \A x \in Clients : Session(x) \in Sessions
    BY DEF Members
  <2> QED  BY <2>2, <2>3, <2>4, <2>5, <2>6, <2>7, <2>8 DEF Accounted, Active, Unlisted, Live, Session, ToEnd
<1>31. ASSUME NEW c \in Clients, PreparationIsKilled(c) PROVE Accounted'
  BY <1>31 DEF PreparationIsKilled, Stopped, Accounted, Active, Unlisted, Live,
    Session, ToEnd
<1>32. ASSUME NEW c \in Clients, IsStruck(c) PROVE Accounted'
  BY <1>32 DEF IsStruck, Struck, Accounted, Active, Unlisted, Live, Session, ToEnd
<1>33. ASSUME NEW c \in Clients, IsClosed(c) PROVE Accounted'
  <2>1. Advanced(c) /\ Settled(c) /\ turn[c].stage # "none"
    BY <1>33, Endings
  <2>2. \A x \in Clients : turn'[x].stage = IF x = c THEN "ended" ELSE turn[x].stage
    BY <1>33 DEF IsClosed, Closed
  <2>3. \A x \in Clients : client'[x].session = client[x].session
    BY <2>1 DEF Advanced
  <2>4. \A z \in Sessions : disk'[z].state \in {"starting", "running"} => disk'[z].state = disk[z].state
    BY <2>1 DEF Settled
  <2>5. \/ disk'[Session(c)].state \notin {"starting", "running"}
        \/ daemon \in {"exiting", "down"} /\ c \notin known /\ turn'[c].stage = "ended"
    BY <1>33, Ceases
  <2>6. UNCHANGED known
    BY <1>33 DEF IsClosed
  <2>7. \A x \in Clients : ToEnd(x) => x = c \/ ToEnd(x)'
    BY <1>33, Endless
  <2>8. \A x \in Clients : Session(x) \in Sessions
    BY DEF Members
  <2>9. c \in known /\ disk'[Session(c)].state \notin {"starting", "running"}
    BY <2>5, <1>33, Heads DEF IsClosed
  <2> QED  BY <2>2, <2>3, <2>4, <2>5, <2>6, <2>7, <2>8, <2>9 DEF Accounted, Active, Unlisted, Live, Session, ToEnd
<1>34. ASSUME NEW c \in Clients, IsAbandoned(c) PROVE Accounted'
  BY <1>34 DEF IsAbandoned, Shot, Accounted, Active, Unlisted, Live, Session, ToEnd
<1> QED
  BY <1>1, <1>2, <1>3, <1>4, <1>5, <1>6, <1>7, <1>8, <1>9, <1>10, <1>11, <1>12, <1>13,
    <1>14, <1>15, <1>16, <1>17, <1>18, <1>19, <1>20, <1>21, <1>22, <1>23, <1>24,
    <1>25, <1>26, <1>27, <1>28, <1>29, <1>30, <1>31, <1>32, <1>33, <1>34 DEF Effect

\* Whom the shutdown has failed it still has on its list.
LEMMA DoomedStep ==
  ASSUME Members, Backups, Numbered, Created, Dispatching, Fresh, Waiting, Listed,
         Entries, Phases, Doomed, Effect PROVE Doomed'
<1>1. ASSUME Quiet PROVE Doomed'
  BY <1>1 DEF Quiet, Doomed, Live, ToEnd
<1>2. ASSUME ShutsDown PROVE Doomed'
  <2>1. turn' = turn /\ ending = <<>>
    BY <1>2 DEF ShutsDown, Phases
  <2>2. \A x \in Clients : ~ToEnd(x)
    BY <2>1 DEF ToEnd
  <2> QED  BY <2>1, <2>2 DEF Doomed, Live
<1>3. ASSUME IsCleared PROVE Doomed'
  BY <1>3 DEF IsCleared, Doomed, Live, ToEnd
<1>4. ASSUME IsGone PROVE Doomed'
  BY <1>4 DEF IsGone, Doomed, Live, ToEnd
<1>5. ASSUME NEW c \in Clients, Creates(c) PROVE Doomed'
  BY <1>5 DEF Creates, Began, DiskAt, Doomed, Live, ToEnd
<1>6. ASSUME NEW c \in Clients, Continues(c) PROVE Doomed'
  BY <1>6 DEF Continues, Began, Doomed, Live, ToEnd
<1>7. ASSUME NEW c \in Clients, Observes(c) PROVE Doomed'
  BY <1>7 DEF Observes, Began, Doomed, Live, ToEnd
<1>8. ASSUME NEW c \in Clients, Goes(c) PROVE Doomed'
  <2>1. \A x \in Clients :
        /\ turn'[x].stage = turn[x].stage
        /\ turn'[x].cancel = turn[x].cancel
    BY <1>8 DEF Goes, Parted, Spoke
  <2> QED  BY <1>8, <2>1 DEF Goes, Doomed, Live, ToEnd
<1>9. ASSUME NEW c \in Clients, FailsSession(c) PROVE Doomed'
  BY <1>9 DEF FailsSession, Spoke, Ended, Doomed, Live, ToEnd
<1>10. ASSUME NEW c \in Clients, IsLost(c) PROVE Doomed'
  <2>1. \A x \in Clients :
        /\ turn'[x].stage = turn[x].stage
        /\ turn'[x].cancel = turn[x].cancel
    BY <1>10 DEF IsLost, Parted, Spoke, AfterOutcome
  <2> QED  BY <1>10, <2>1 DEF IsLost, Doomed, Live, ToEnd
<1>11. ASSUME NEW c \in Clients, IsRefused(c) PROVE Doomed'
  BY <1>11 DEF IsRefused, Spoke, DiskAt, Serves, Doomed, Live, ToEnd
<1>12. ASSUME NEW c \in Clients, StartsNext(c) PROVE Doomed'
  <2>1. \A x \in Clients : (x # c => turn'[x].stage = turn[x].stage) /\ turn'[x].cancel = turn[x].cancel
    BY <1>12 DEF StartsNext, Entered
  <2>2. turn[c].cancel = "none"
    BY <1>12 DEF StartsNext, Fresh, Untouched
  <2>3. UNCHANGED <<daemon, ending, known>>
    BY <1>12 DEF StartsNext
  <2> QED  BY <2>1, <2>2, <2>3 DEF Doomed, Live, ToEnd
<1>13. ASSUME NEW c \in Clients, StartsFirst(c) PROVE Doomed'
  <2>1. \A x \in Clients : (x # c => turn'[x].stage = turn[x].stage) /\ turn'[x].cancel = turn[x].cancel
    BY <1>13 DEF StartsFirst, Entered
  <2>2. turn[c].cancel = "none"
    BY <1>13 DEF StartsFirst, Fresh, Untouched
  <2>3. UNCHANGED <<daemon, ending, known>>
    BY <1>13 DEF StartsFirst
  <2> QED  BY <2>1, <2>2, <2>3 DEF Doomed, Live, ToEnd
<1>14. ASSUME NEW c \in Clients, IsAccepted(c) PROVE Doomed'
  BY <1>14 DEF IsAccepted, Claiming, Reached, Doomed, Live, ToEnd
<1>15. ASSUME NEW c \in Clients, StartIsUndone(c) PROVE Doomed'
  <2>1. \A x \in Clients : turn'[x].stage = IF x = c THEN "refused" ELSE turn[x].stage
    BY <1>15 DEF StartIsUndone, Stopped
  <2>2. \A x \in Clients : turn'[x].cancel = turn[x].cancel
    BY <1>15 DEF StartIsUndone, Left, Stopped, Closed, Finishes
  <2>3. \A x \in Clients : ToEnd(x) => ToEnd(x)'
    BY <1>15 DEF StartIsUndone, ToEnd
  <2> QED  BY <2>1, <2>2, <2>3 DEF Doomed, Live
<1>16. ASSUME NEW c \in Clients, Joins(c) PROVE Doomed'
  <2>1. \A x \in Clients :
        /\ turn'[x].stage = turn[x].stage
        /\ turn'[x].cancel = turn[x].cancel
    BY <1>16 DEF Joins, Joined, Spoke, Serves
  <2> QED  BY <1>16, <2>1 DEF Joins, Serves, Doomed, Live, ToEnd
<1>17. ASSUME NEW c \in Clients, FindsNothing(c) PROVE Doomed'
  BY <1>17 DEF FindsNothing, Spoke, Serves, Doomed, Live, ToEnd
<1>18. ASSUME NEW c \in Clients, CancelsTurn(c) PROVE Doomed'
  <2>1. \A x \in Clients : turn'[x].stage = turn[x].stage
    BY <1>18, Cancellations DEF Reaches
  <2>2. UNCHANGED <<daemon, ending, known>>
    BY <1>18 DEF CancelsTurn
  <2>3. \A x \in Clients : turn'[x].cancel = "failed" => turn[x].cancel = "failed"
    BY <1>18 DEF CancelsTurn, CanceledAs, CanceledFields
  <2> QED  BY <2>1, <2>2, <2>3 DEF Doomed, Live, ToEnd
<1>19. ASSUME NEW c \in Clients, CancelsAlone(c) PROVE Doomed'
  BY <1>19 DEF CancelsAlone, Spoke, Serves, Doomed, Live, ToEnd
<1>20. ASSUME NEW c \in Clients, Breaks(c) PROVE Doomed'
  <2>1. \A x \in Clients : turn'[x].stage = turn[x].stage
    BY <1>20, Cancellations DEF Reaches
  <2>2. UNCHANGED <<daemon, ending, known>>
    BY <1>20 DEF Breaks
  <2>3. \A x \in Clients : turn'[x].cancel = "failed" => turn[x].cancel = "failed"
    BY <1>20 DEF Breaks, CanceledAs, CanceledFields
  <2> QED  BY <2>1, <2>2, <2>3 DEF Doomed, Live, ToEnd
<1>21. ASSUME NEW c \in Clients, BeginsToRestore(c) PROVE Doomed'
  BY <1>21 DEF BeginsToRestore, Staged, Doomed, Live, ToEnd
<1>22. ASSUME NEW c \in Clients, Enqueues(c) PROVE Doomed'
  BY <1>22 DEF Enqueues, Staged, Queued, EntersSlot, Doomed, Live, ToEnd
<1>23. ASSUME NEW c \in Clients, IsRestored(c) PROVE Doomed'
  BY <1>23 DEF IsRestored, Prepared, Queued, EntersSlot, Doomed, Live, ToEnd
<1>24. ASSUME NEW c \in Clients, IsNotRestored(c) PROVE Doomed'
  <2>1. \A x \in Clients : turn'[x].stage = IF x = c THEN "ended" ELSE turn[x].stage
    BY <1>24 DEF IsNotRestored, Left, Finishes
  <2>2. \A x \in Clients : turn'[x].cancel = turn[x].cancel
    BY <1>24 DEF IsNotRestored, Left, Stopped, Closed, Finishes
  <2>3. \A x \in Clients : ToEnd(x) => ToEnd(x)'
    BY <1>24 DEF IsNotRestored, ToEnd
  <2> QED  BY <2>1, <2>2, <2>3 DEF Doomed, Live
<1>25. ASSUME NEW c \in Clients, IsNext(c) PROVE Doomed'
  BY <1>25 DEF IsNext, Staged, Doomed, Live, ToEnd
<1>26. ASSUME NEW c \in Clients, Drives(c) PROVE Doomed'
  BY <1>26 DEF Drives, Staged, Doomed, Live, ToEnd
<1>27. ASSUME NEW c \in Clients, RunIsOver(c) PROVE Doomed'
  <2>1. \A x \in Clients : turn'[x].stage = IF x = c THEN "ended" ELSE turn[x].stage
    BY <1>27 DEF RunIsOver, Left, Finishes
  <2>2. \A x \in Clients : turn'[x].cancel = turn[x].cancel
    BY <1>27 DEF RunIsOver, Left, Stopped, Closed, Finishes
  <2>3. \A x \in Clients : ToEnd(x) => ToEnd(x)'
    BY <1>27 DEF RunIsOver, ToEnd
  <2> QED  BY <2>1, <2>2, <2>3 DEF Doomed, Live
<1>28. ASSUME NEW c \in Clients, StartIsCanceled(c) PROVE Doomed'
  <2>1. \A x \in Clients : turn'[x].stage = IF x = c THEN "ended" ELSE turn[x].stage
    BY <1>28 DEF StartIsCanceled, Left
  <2>2. \A x \in Clients : turn'[x].cancel = turn[x].cancel
    BY <1>28 DEF StartIsCanceled, Left, Stopped, Closed, Finishes
  <2>3. \A x \in Clients : ToEnd(x) => ToEnd(x)'
    BY <1>28 DEF StartIsCanceled, ToEnd
  <2> QED  BY <2>1, <2>2, <2>3 DEF Doomed, Live
<1>29. ASSUME NEW c \in Clients, Leaks(c) PROVE Doomed'
  BY <1>29 DEF Leaks, Stopped, Doomed, Live, ToEnd
<1>30. ASSUME NEW c \in Clients, PreparationIsCanceled(c) PROVE Doomed'
  <2>1. \A x \in Clients : turn'[x].stage = IF x = c THEN "ended" ELSE turn[x].stage
    BY <1>30 DEF PreparationIsCanceled, Left, Finishes
  <2>2. \A x \in Clients : turn'[x].cancel = turn[x].cancel
    BY <1>30 DEF PreparationIsCanceled, Left, Stopped, Closed, Finishes
  <2>3. \A x \in Clients : ToEnd(x) => ToEnd(x)'
    BY <1>30 DEF PreparationIsCanceled, ToEnd
  <2> QED  BY <2>1, <2>2, <2>3 DEF Doomed, Live
<1>31. ASSUME NEW c \in Clients, PreparationIsKilled(c) PROVE Doomed'
  BY <1>31 DEF PreparationIsKilled, Stopped, Doomed, Live, ToEnd
<1>32. ASSUME NEW c \in Clients, IsStruck(c) PROVE Doomed'
  <2>1. \A x \in Clients : turn'[x].stage = turn[x].stage /\ (x # c => turn'[x].cancel = turn[x].cancel)
    BY <1>32 DEF IsStruck, Struck
  <2>2. UNCHANGED <<daemon, ending, known>>
    BY <1>32 DEF IsStruck
  <2>3. ToEnd(c)
    BY <1>32, Tops DEF IsStruck
  <2> QED  BY <2>1, <2>2, <2>3 DEF Doomed, Live, ToEnd
<1>33. ASSUME NEW c \in Clients, IsClosed(c) PROVE Doomed'
  <2>1. \A x \in Clients : turn'[x].stage = IF x = c THEN "ended" ELSE turn[x].stage
    BY <1>33 DEF IsClosed, Closed
  <2>2. \A x \in Clients : turn'[x].cancel = turn[x].cancel
    BY <1>33 DEF IsClosed, Left, Stopped, Closed, Finishes
  <2>3. \A x \in Clients : ToEnd(x) => x = c \/ ToEnd(x)'
    BY <1>33, Endless
  <2> QED  BY <2>1, <2>2, <2>3 DEF Doomed, Live
<1>34. ASSUME NEW c \in Clients, IsAbandoned(c) PROVE Doomed'
  BY <1>34 DEF IsAbandoned, Shot, Doomed, Live, ToEnd
<1> QED
  BY <1>1, <1>2, <1>3, <1>4, <1>5, <1>6, <1>7, <1>8, <1>9, <1>10, <1>11, <1>12, <1>13,
    <1>14, <1>15, <1>16, <1>17, <1>18, <1>19, <1>20, <1>21, <1>22, <1>23, <1>24,
    <1>25, <1>26, <1>27, <1>28, <1>29, <1>30, <1>31, <1>32, <1>33, <1>34 DEF Effect

\* Whoever is killed in its preparation is canceled, or the shutdown ends it.
LEMMA ExcusedStep ==
  ASSUME Members, Backups, Numbered, Created, Dispatching, Fresh, Waiting, Listed,
         Entries, Claimed, Phases, Accounted, Doomed, Excused, Effect PROVE Excused'
<1>1. ASSUME Quiet PROVE Excused'
  BY <1>1 DEF Quiet, Excused, Deferred, ToEnd
<1>2. ASSUME ShutsDown PROVE Excused'
  <2>1. turn' = turn /\ client' = client /\ ending = <<>> /\ daemon = "serving"
    BY <1>2 DEF ShutsDown, Phases
  <2>2. \A x \in Clients : ~ToEnd(x)
    BY <2>1 DEF ToEnd
  <2> QED  BY <2>1, <2>2 DEF Excused, Deferred
<1>3. ASSUME IsCleared PROVE Excused'
  BY <1>3 DEF IsCleared, Excused, Deferred, ToEnd
<1>4. ASSUME IsGone PROVE Excused'
  BY <1>4 DEF IsGone, Excused, Deferred, ToEnd, Live
<1>5. ASSUME NEW c \in Clients, Creates(c) PROVE Excused'
  BY <1>5 DEF Creates, Began, DiskAt, Excused, Deferred, ToEnd
<1>6. ASSUME NEW c \in Clients, Continues(c) PROVE Excused'
  BY <1>6 DEF Continues, Began, Excused, Deferred, ToEnd
<1>7. ASSUME NEW c \in Clients, Observes(c) PROVE Excused'
  BY <1>7 DEF Observes, Began, Excused, Deferred, ToEnd
<1>8. ASSUME NEW c \in Clients, Goes(c) PROVE Excused'
  <2>1. \A w \in Clients :
        /\ client'[w].command = client[w].command
    BY <1>8 DEF Goes, Parted, Spoke
  <2>2. \A x \in Clients :
        /\ turn'[x].stage = turn[x].stage
        /\ turn'[x].cancel = turn[x].cancel
        /\ turn'[x].kill = turn[x].kill
    BY <1>8 DEF Goes, Parted, Spoke
  <2> QED  BY <1>8, <2>1, <2>2 DEF Goes, Excused, Deferred, ToEnd
<1>9. ASSUME NEW c \in Clients, FailsSession(c) PROVE Excused'
  BY <1>9 DEF FailsSession, Spoke, Ended, Excused, Deferred, ToEnd
<1>10. ASSUME NEW c \in Clients, IsLost(c) PROVE Excused'
  <2>1. \A w \in Clients :
        /\ client'[w].command = client[w].command
    BY <1>10 DEF IsLost, Parted, Spoke, AfterOutcome
  <2>2. \A x \in Clients :
        /\ turn'[x].stage = turn[x].stage
        /\ turn'[x].cancel = turn[x].cancel
        /\ turn'[x].kill = turn[x].kill
    BY <1>10 DEF IsLost, Parted, Spoke, AfterOutcome
  <2> QED  BY <1>10, <2>1, <2>2 DEF IsLost, Excused, Deferred, ToEnd
<1>11. ASSUME NEW c \in Clients, IsRefused(c) PROVE Excused'
  BY <1>11 DEF IsRefused, Spoke, DiskAt, Serves, Excused, Deferred, ToEnd
<1>12. ASSUME NEW c \in Clients, StartsNext(c) PROVE Excused'
  BY <1>12 DEF StartsNext, Entered, Spoke, DiskAt, TableAt, Serves, Excused, Deferred,
    ToEnd, Fresh, Untouched
<1>13. ASSUME NEW c \in Clients, StartsFirst(c) PROVE Excused'
  BY <1>13 DEF StartsFirst, Entered, Spoke, TableAt, Serves, Excused, Deferred, ToEnd,
    Fresh, Untouched
<1>14. ASSUME NEW c \in Clients, IsAccepted(c) PROVE Excused'
  BY <1>14 DEF IsAccepted, Claiming, Reached, Excused, Deferred, ToEnd
<1>15. ASSUME NEW c \in Clients, StartIsUndone(c) PROVE Excused'
  <2>1. \A x \in Clients : turn'[x].stage = IF x = c THEN "refused" ELSE turn[x].stage
    BY <1>15 DEF StartIsUndone, Stopped
  <2>2. \A x \in Clients :
        turn'[x].cancel = turn[x].cancel /\ (x # c => (turn'[x].kill <=> turn[x].kill))
    BY <1>15 DEF StartIsUndone, Stopped
  <2>3. \A x \in Clients : Deferred(x)' <=> Deferred(x)
    BY <1>15, Endings DEF Advanced, Deferred
  <2>4. UNCHANGED <<daemon, known>>
    BY <1>15 DEF StartIsUndone
  <2>5. \A x \in Clients : ToEnd(x) => ToEnd(x)'
    BY <1>15 DEF StartIsUndone, ToEnd
  <2> QED  BY <2>1, <2>2, <2>3, <2>4, <2>5 DEF Excused
<1>16. ASSUME NEW c \in Clients, Joins(c) PROVE Excused'
  <2>1. \A x \in Clients :
        /\ turn'[x].stage = turn[x].stage
        /\ turn'[x].cancel = turn[x].cancel
        /\ turn'[x].kill = turn[x].kill
    BY <1>16 DEF Joins, Joined, Spoke, Serves
  <2>2. \A w \in Clients :
        /\ client'[w].command = client[w].command
    BY <1>16 DEF Joins, Joined, Spoke, Serves
  <2> QED  BY <1>16, <2>1, <2>2 DEF Joins, Serves, Excused, Deferred, ToEnd
<1>17. ASSUME NEW c \in Clients, FindsNothing(c) PROVE Excused'
  BY <1>17 DEF FindsNothing, Spoke, Serves, Excused, Deferred, ToEnd
<1>18. ASSUME NEW c \in Clients, CancelsTurn(c) PROVE Excused'
  <2>1. \A x \in Clients : turn'[x].stage = turn[x].stage
    BY <1>18, Cancellations DEF Reaches
  <2>2. UNCHANGED <<daemon, ending, known>>
    BY <1>18 DEF CancelsTurn
  <2>3. \A x \in Clients : Deferred(x)' <=> Deferred(x)
    BY <1>18 DEF CancelsTurn, Spoke, Broke, Deferred
  <2>4. \A x \in Clients : turn[x].cancel = "canceled" => turn'[x].cancel = "canceled"
    BY <1>18 DEF CancelsTurn, CanceledAs, CanceledFields
  <2>5. \A x \in Clients : (turn'[x].kill <=> turn[x].kill) \/
        (turn'[x].cancel = (IF turn[x].cancel = "none" THEN "canceled" ELSE turn[x].cancel) /\ (~turn[x].claimed \/ Deferred(x)))
    BY <1>18 DEF CancelsTurn, CanceledAs, CanceledFields
  <2>6. \A x \in Clients : turn[x].stage \in {"restoring", "queued"} /\ turn[x].cancel = "failed" => ToEnd(x)
    BY DEF Doomed, Live
  <2>7. \A x \in Clients : turn[x].stage \in {"restoring", "queued"} => turn[x].claimed
    BY DEF Claimed
  <2>8. \A x \in Clients : turn[x].cancel \in {"none", "canceled", "failed"}
    BY DEF Members
  <2>9. \A x \in Clients : ToEnd(x) => ToEnd(x)'
    BY <1>18 DEF CancelsTurn, ToEnd
  <2> QED  BY <2>1, <2>2, <2>3, <2>4, <2>5, <2>6, <2>7, <2>8, <2>9 DEF Excused
<1>19. ASSUME NEW c \in Clients, CancelsAlone(c) PROVE Excused'
  BY <1>19 DEF CancelsAlone, Spoke, Serves, Excused, Deferred, ToEnd
<1>20. ASSUME NEW c \in Clients, Breaks(c) PROVE Excused'
  <2>1. \A x \in Clients : turn'[x].stage = turn[x].stage
    BY <1>20, Cancellations DEF Reaches
  <2>2. UNCHANGED <<daemon, ending, known>>
    BY <1>20 DEF Breaks
  <2>3. \A x \in Clients : Deferred(x)' <=> Deferred(x)
    BY <1>20 DEF Breaks, Spoke, Broke, Deferred
  <2>4. \A x \in Clients : turn[x].cancel = "canceled" => turn'[x].cancel = "canceled"
    BY <1>20 DEF Breaks, CanceledAs, CanceledFields
  <2>5. \A x \in Clients : (turn'[x].kill <=> turn[x].kill) \/
        (turn'[x].cancel = (IF turn[x].cancel = "none" THEN "canceled" ELSE turn[x].cancel) /\ (~turn[x].claimed \/ Deferred(x)))
    BY <1>20 DEF Breaks, CanceledAs, CanceledFields
  <2>6. \A x \in Clients : turn[x].stage \in {"restoring", "queued"} /\ turn[x].cancel = "failed" => ToEnd(x)
    BY DEF Doomed, Live
  <2>7. \A x \in Clients : turn[x].stage \in {"restoring", "queued"} => turn[x].claimed
    BY DEF Claimed
  <2>8. \A x \in Clients : turn[x].cancel \in {"none", "canceled", "failed"}
    BY DEF Members
  <2>9. \A x \in Clients : ToEnd(x) => ToEnd(x)'
    BY <1>20 DEF Breaks, ToEnd
  <2> QED  BY <2>1, <2>2, <2>3, <2>4, <2>5, <2>6, <2>7, <2>8, <2>9 DEF Excused
<1>21. ASSUME NEW c \in Clients, BeginsToRestore(c) PROVE Excused'
  BY <1>21 DEF BeginsToRestore, Staged, Excused, Deferred, ToEnd
<1>22. ASSUME NEW c \in Clients, Enqueues(c) PROVE Excused'
  BY <1>22 DEF Enqueues, Staged, Queued, EntersSlot, Excused, Deferred, ToEnd
<1>23. ASSUME NEW c \in Clients, IsRestored(c) PROVE Excused'
  BY <1>23 DEF IsRestored, Prepared, Queued, EntersSlot, Excused, Deferred, ToEnd
<1>24. ASSUME NEW c \in Clients, IsNotRestored(c) PROVE Excused'
  <2>1. \A x \in Clients : turn'[x].stage = IF x = c THEN "ended" ELSE turn[x].stage
    BY <1>24 DEF IsNotRestored, Left, Finishes
  <2>2. \A x \in Clients :
        turn'[x].cancel = turn[x].cancel /\ (x # c => (turn'[x].kill <=> turn[x].kill))
    BY <1>24 DEF IsNotRestored, Left, Finishes
  <2>3. \A x \in Clients : Deferred(x)' <=> Deferred(x)
    BY <1>24, Endings DEF Advanced, Deferred
  <2>4. UNCHANGED <<daemon, known>>
    BY <1>24 DEF IsNotRestored
  <2>5. \A x \in Clients : ToEnd(x) => ToEnd(x)'
    BY <1>24 DEF IsNotRestored, ToEnd
  <2> QED  BY <2>1, <2>2, <2>3, <2>4, <2>5 DEF Excused
<1>25. ASSUME NEW c \in Clients, IsNext(c) PROVE Excused'
  BY <1>25 DEF IsNext, Staged, Excused, Deferred, ToEnd
<1>26. ASSUME NEW c \in Clients, Drives(c) PROVE Excused'
  BY <1>26 DEF Drives, Staged, Excused, Deferred, ToEnd
<1>27. ASSUME NEW c \in Clients, RunIsOver(c) PROVE Excused'
  <2>1. \A x \in Clients : turn'[x].stage = IF x = c THEN "ended" ELSE turn[x].stage
    BY <1>27 DEF RunIsOver, Left, Finishes
  <2>2. \A x \in Clients :
        turn'[x].cancel = turn[x].cancel /\ (x # c => (turn'[x].kill <=> turn[x].kill))
    BY <1>27 DEF RunIsOver, Left, Finishes
  <2>3. \A x \in Clients : Deferred(x)' <=> Deferred(x)
    BY <1>27, Endings DEF Advanced, Deferred
  <2>4. UNCHANGED <<daemon, known>>
    BY <1>27 DEF RunIsOver
  <2>5. \A x \in Clients : ToEnd(x) => ToEnd(x)'
    BY <1>27 DEF RunIsOver, ToEnd
  <2> QED  BY <2>1, <2>2, <2>3, <2>4, <2>5 DEF Excused
<1>28. ASSUME NEW c \in Clients, StartIsCanceled(c) PROVE Excused'
  <2>1. \A x \in Clients : turn'[x].stage = IF x = c THEN "ended" ELSE turn[x].stage
    BY <1>28 DEF StartIsCanceled, Left
  <2>2. \A x \in Clients :
        turn'[x].cancel = turn[x].cancel /\ (x # c => (turn'[x].kill <=> turn[x].kill))
    BY <1>28 DEF StartIsCanceled, Left
  <2>3. \A x \in Clients : Deferred(x)' <=> Deferred(x)
    BY <1>28, Endings DEF Advanced, Deferred
  <2>4. UNCHANGED <<daemon, known>>
    BY <1>28 DEF StartIsCanceled
  <2>5. \A x \in Clients : ToEnd(x) => ToEnd(x)'
    BY <1>28 DEF StartIsCanceled, ToEnd
  <2> QED  BY <2>1, <2>2, <2>3, <2>4, <2>5 DEF Excused
<1>29. ASSUME NEW c \in Clients, Leaks(c) PROVE Excused'
  BY <1>29 DEF Leaks, Stopped, Excused, Deferred, ToEnd
<1>30. ASSUME NEW c \in Clients, PreparationIsCanceled(c) PROVE Excused'
  <2>1. \A x \in Clients : turn'[x].stage = IF x = c THEN "ended" ELSE turn[x].stage
    BY <1>30 DEF PreparationIsCanceled, Left, Finishes
  <2>2. \A x \in Clients :
        turn'[x].cancel = turn[x].cancel /\ (x # c => (turn'[x].kill <=> turn[x].kill))
    BY <1>30 DEF PreparationIsCanceled, Left, Finishes
  <2>3. \A x \in Clients : Deferred(x)' <=> Deferred(x)
    BY <1>30, Endings DEF Advanced, Deferred
  <2>4. UNCHANGED <<daemon, known>>
    BY <1>30 DEF PreparationIsCanceled
  <2>5. \A x \in Clients : ToEnd(x) => ToEnd(x)'
    BY <1>30 DEF PreparationIsCanceled, ToEnd
  <2> QED  BY <2>1, <2>2, <2>3, <2>4, <2>5 DEF Excused
<1>31. ASSUME NEW c \in Clients, PreparationIsKilled(c) PROVE Excused'
  BY <1>31 DEF PreparationIsKilled, Stopped, Excused, Deferred, ToEnd
<1>32. ASSUME NEW c \in Clients, IsStruck(c) PROVE Excused'
  <2>1. \A x \in Clients : turn'[x].stage = turn[x].stage /\ (x # c => turn'[x].cancel = turn[x].cancel /\ (turn'[x].kill <=> turn[x].kill))
    BY <1>32 DEF IsStruck, Struck
  <2>2. UNCHANGED <<daemon, ending, known>>
    BY <1>32 DEF IsStruck
  <2>3. client' = client
    BY <1>32 DEF IsStruck
  <2>4. ToEnd(c)
    BY <1>32, Tops DEF IsStruck
  <2> QED  BY <2>1, <2>2, <2>3, <2>4 DEF Excused, ToEnd, Deferred
<1>33. ASSUME NEW c \in Clients, IsClosed(c) PROVE Excused'
  <2>1. \A x \in Clients : turn'[x].stage = IF x = c THEN "ended" ELSE turn[x].stage
    BY <1>33 DEF IsClosed, Closed
  <2>2. \A x \in Clients :
        turn'[x].cancel = turn[x].cancel /\ (x # c => (turn'[x].kill <=> turn[x].kill))
    BY <1>33 DEF IsClosed, Closed
  <2>3. \A x \in Clients : Deferred(x)' <=> Deferred(x)
    BY <1>33, Endings DEF Advanced, Deferred
  <2>4. UNCHANGED <<daemon, known>>
    BY <1>33 DEF IsClosed
  <2>5. \A x \in Clients : ToEnd(x) => x = c \/ ToEnd(x)'
    BY <1>33, Endless
  <2> QED  BY <2>1, <2>2, <2>3, <2>4, <2>5 DEF Excused
<1>34. ASSUME NEW c \in Clients, IsAbandoned(c) PROVE Excused'
  <2>1. \A x \in Clients : turn'[x].stage = turn[x].stage /\ turn'[x].cancel = turn[x].cancel /\ (x # c => (turn'[x].kill <=> turn[x].kill))
    BY <1>34 DEF IsAbandoned, Shot
  <2>2. UNCHANGED <<daemon, ending, known>>
    BY <1>34 DEF IsAbandoned
  <2>3. client' = client
    BY <1>34 DEF IsAbandoned
  <2>4. daemon = "exiting" /\ c \notin known
    BY <1>34 DEF IsAbandoned, Phases, Accounted, ToEnd
  <2> QED  BY <2>1, <2>2, <2>3, <2>4 DEF Excused, ToEnd, Deferred
<1> QED
  BY <1>1, <1>2, <1>3, <1>4, <1>5, <1>6, <1>7, <1>8, <1>9, <1>10, <1>11, <1>12, <1>13,
    <1>14, <1>15, <1>16, <1>17, <1>18, <1>19, <1>20, <1>21, <1>22, <1>23, <1>24,
    <1>25, <1>26, <1>27, <1>28, <1>29, <1>30, <1>31, <1>32, <1>33, <1>34 DEF Effect

\* Until the table is cleared, an outcome reaches a waiter only with the end on disk.
LEMMA ToldStep ==
  ASSUME Members, Backups, Numbered, Created, Dispatching, Fresh, Waiting, Listed,
         Entries, Snapshots, Claimed, OnDisk, Reported, Effect PROVE Announced
<1> USE DEF Announced
<1>1. ASSUME Quiet PROVE Announced
  BY <1>1 DEF Quiet
<1>2. ASSUME ShutsDown PROVE Announced
  BY <1>2 DEF ShutsDown
<1>3. ASSUME IsCleared PROVE Announced
  BY <1>3 DEF IsCleared
<1>4. ASSUME IsGone PROVE Announced
  BY <1>4 DEF IsGone
<1>5. ASSUME NEW c \in Clients, Creates(c) PROVE Announced
  BY <1>5 DEF Creates, Began, DiskAt
<1>6. ASSUME NEW c \in Clients, Continues(c) PROVE Announced
  BY <1>6 DEF Continues, Began
<1>7. ASSUME NEW c \in Clients, Observes(c) PROVE Announced
  BY <1>7 DEF Observes, Began
<1>8. ASSUME NEW c \in Clients, Goes(c) PROVE Announced
  <2>1. \A w \in Clients :
        /\ client'[w].pc = IF w = c THEN "left" ELSE client[w].pc
    BY <1>8 DEF Goes, Parted, Spoke
  <2> QED  BY <1>8, <2>1 DEF Goes
<1>9. ASSUME NEW c \in Clients, FailsSession(c) PROVE Announced
  BY <1>9 DEF FailsSession, Spoke, Ended
<1>10. ASSUME NEW c \in Clients, IsLost(c) PROVE Announced
  <2>1. \A w \in Clients :
        /\ client'[w].pc = IF w = c THEN AfterOutcome(c, TRUE) ELSE client[w].pc
    BY <1>10 DEF IsLost, Parted, Spoke, AfterOutcome
  <2> QED  BY <1>10, <2>1 DEF IsLost, AfterOutcome
<1>11. ASSUME NEW c \in Clients, IsRefused(c) PROVE Announced
  BY <1>11 DEF IsRefused, Spoke, DiskAt, Serves
<1>12. ASSUME NEW c \in Clients, StartsNext(c) PROVE Announced
  BY <1>12 DEF StartsNext, Entered, Spoke, DiskAt, TableAt, Serves
<1>13. ASSUME NEW c \in Clients, StartsFirst(c) PROVE Announced
  BY <1>13 DEF StartsFirst, Entered, Spoke, TableAt, Serves
<1>14. ASSUME NEW c \in Clients, IsAccepted(c) PROVE Announced
  BY <1>14 DEF IsAccepted, Claiming, Reached
<1>15. ASSUME NEW c \in Clients, StartIsUndone(c) PROVE Announced
  <2>1. Advanced(c)
    BY <1>15, Endings
  <2>2. \A w \in Clients : client[w].pc = "waiting" /\ client'[w].pc \in {"done", "failing"} => Session(w) = Session(c)
    BY <2>1 DEF Advanced
  <2>3. \/ disk'[Session(c)].state \notin {"starting", "running"}
        \/ daemon \in {"exiting", "down"}
    BY <1>15, Ceases
  <2> QED  BY <2>1, <2>2, <2>3 DEF Announced
<1>16. ASSUME NEW c \in Clients, Joins(c) PROVE Announced
  <2>1. \A w \in Clients :
        /\ client'[w].pc = IF w = c THEN "waiting" ELSE client[w].pc
    BY <1>16 DEF Joins, Joined, Spoke, Serves
  <2> QED  BY <1>16, <2>1 DEF Joins, Serves
<1>17. ASSUME NEW c \in Clients, FindsNothing(c) PROVE Announced
  BY <1>17 DEF FindsNothing, Spoke, Serves
<1>18. ASSUME NEW c \in Clients, CancelsTurn(c) PROVE Announced
  <2>1. \A w \in Clients : client[w].pc = "waiting" => client'[w].pc = "waiting"
    BY <1>18 DEF CancelsTurn, Spoke, Broke
  <2> QED  BY <2>1 DEF Announced
<1>19. ASSUME NEW c \in Clients, CancelsAlone(c) PROVE Announced
  BY <1>19 DEF CancelsAlone, Spoke, Serves
<1>20. ASSUME NEW c \in Clients, Breaks(c) PROVE Announced
  <2>1. \A w \in Clients : client[w].pc = "waiting" => client'[w].pc = "waiting"
    BY <1>20 DEF Breaks, Spoke, Broke
  <2> QED  BY <2>1 DEF Announced
<1>21. ASSUME NEW c \in Clients, BeginsToRestore(c) PROVE Announced
  BY <1>21 DEF BeginsToRestore, Staged
<1>22. ASSUME NEW c \in Clients, Enqueues(c) PROVE Announced
  BY <1>22 DEF Enqueues, Staged, Queued, EntersSlot
<1>23. ASSUME NEW c \in Clients, IsRestored(c) PROVE Announced
  BY <1>23 DEF IsRestored, Prepared, Queued, EntersSlot
<1>24. ASSUME NEW c \in Clients, IsNotRestored(c) PROVE Announced
  <2>1. Advanced(c)
    BY <1>24, Endings
  <2>2. \A w \in Clients : client[w].pc = "waiting" /\ client'[w].pc \in {"done", "failing"} => Session(w) = Session(c)
    BY <2>1 DEF Advanced
  <2>3. \/ disk'[Session(c)].state \notin {"starting", "running"}
        \/ daemon \in {"exiting", "down"}
    BY <1>24, Ceases
  <2> QED  BY <2>1, <2>2, <2>3 DEF Announced
<1>25. ASSUME NEW c \in Clients, IsNext(c) PROVE Announced
  BY <1>25 DEF IsNext, Staged
<1>26. ASSUME NEW c \in Clients, Drives(c) PROVE Announced
  BY <1>26 DEF Drives, Staged
<1>27. ASSUME NEW c \in Clients, RunIsOver(c) PROVE Announced
  <2>1. Advanced(c)
    BY <1>27, Endings
  <2>2. \A w \in Clients : client[w].pc = "waiting" /\ client'[w].pc \in {"done", "failing"} => Session(w) = Session(c)
    BY <2>1 DEF Advanced
  <2>3. \/ disk'[Session(c)].state \notin {"starting", "running"}
        \/ daemon \in {"exiting", "down"}
    BY <1>27, Ceases
  <2> QED  BY <2>1, <2>2, <2>3 DEF Announced
<1>28. ASSUME NEW c \in Clients, StartIsCanceled(c) PROVE Announced
  <2>1. Advanced(c)
    BY <1>28, Endings
  <2>2. \A w \in Clients : client[w].pc = "waiting" /\ client'[w].pc \in {"done", "failing"} => Session(w) = Session(c)
    BY <2>1 DEF Advanced
  <2>3. \/ disk'[Session(c)].state \notin {"starting", "running"}
        \/ daemon \in {"exiting", "down"}
    BY <1>28, Ceases
  <2> QED  BY <2>1, <2>2, <2>3 DEF Announced
<1>29. ASSUME NEW c \in Clients, Leaks(c) PROVE Announced
  BY <1>29 DEF Leaks, Stopped
<1>30. ASSUME NEW c \in Clients, PreparationIsCanceled(c) PROVE Announced
  <2>1. Advanced(c)
    BY <1>30, Endings
  <2>2. \A w \in Clients : client[w].pc = "waiting" /\ client'[w].pc \in {"done", "failing"} => Session(w) = Session(c)
    BY <2>1 DEF Advanced
  <2>3. \/ disk'[Session(c)].state \notin {"starting", "running"}
        \/ daemon \in {"exiting", "down"}
    BY <1>30, Ceases
  <2> QED  BY <2>1, <2>2, <2>3 DEF Announced
<1>31. ASSUME NEW c \in Clients, PreparationIsKilled(c) PROVE Announced
  BY <1>31 DEF PreparationIsKilled, Stopped
<1>32. ASSUME NEW c \in Clients, IsStruck(c) PROVE Announced
  BY <1>32 DEF IsStruck, Struck
<1>33. ASSUME NEW c \in Clients, IsClosed(c) PROVE Announced
  <2>1. Advanced(c)
    BY <1>33, Endings
  <2>2. \A w \in Clients : client[w].pc = "waiting" /\ client'[w].pc \in {"done", "failing"} => Session(w) = Session(c)
    BY <2>1 DEF Advanced
  <2>3. \/ disk'[Session(c)].state \notin {"starting", "running"}
        \/ daemon \in {"exiting", "down"}
    BY <1>33, Ceases
  <2> QED  BY <2>1, <2>2, <2>3 DEF Announced
<1>34. ASSUME NEW c \in Clients, IsAbandoned(c) PROVE Announced
  BY <1>34 DEF IsAbandoned, Shot
<1> QED
  BY <1>1, <1>2, <1>3, <1>4, <1>5, <1>6, <1>7, <1>8, <1>9, <1>10, <1>11, <1>12, <1>13,
    <1>14, <1>15, <1>16, <1>17, <1>18, <1>19, <1>20, <1>21, <1>22, <1>23, <1>24,
    <1>25, <1>26, <1>27, <1>28, <1>29, <1>30, <1>31, <1>32, <1>33, <1>34 DEF Effect

\* The invariant is inductive.
LEMMA InvariantStep ==
  ASSUME DaemonInv, DaemonNext PROVE DaemonInv'
<1>1. /\ Types /\ Entries /\ Queueing /\ SlotsKept /\ Fresh /\ Dispatching /\ Created /\ Numbered
      /\ Opening /\ OneRun /\ Claimed /\ OnDisk /\ Reported /\ NoneFollows /\ Snapshots /\ Backups
      /\ Cancels /\ Reasons /\ Waiting /\ Listed /\ ActiveHasOwner /\ WaitersHaveTurn
  BY DEF DaemonInv, RunsAlone
<1>2. Phases /\ Noted /\ Accounted /\ Doomed /\ Excused
  BY <1>1 DEF Listed
<1>3. Effect /\ Types'
  BY <1>1, Effects, TypesStep DEF Effective
<1>4. Members /\ Placed /\ Tabled
  BY <1>1, Membership DEF Types, Placed, Members, Tabled
<1>5. Recalls /\ Backs /\ Causes /\ Held
  BY <1>1, <1>2, <1>3, <1>4, Recalling, Backing, Causing, Holding
<1>6. Explained
  BY <1>1, <1>2, <1>3, <1>4, Explaining
<1>7. Entries' /\ Fresh' /\ Dispatching' /\ Created' /\ Numbered' /\ Opening' /\ OneRun'
  BY <1>1, <1>2, <1>3, <1>4, EntriesStep, FreshStep, DispatchingStep, CreatedStep,
    NumberedStep, OpeningStep, OneRunStep
<1>8. Claimed' /\ OnDisk' /\ Reported' /\ NoneFollows' /\ Snapshots' /\ Waiting'
  BY <1>1, <1>2, <1>3, <1>4, ClaimedStep, OnDiskStep, ReportedStep, NoneFollowsStep,
    SnapshotsStep, WaitingStep
<1>9. Backups' /\ Reasons' /\ WaitersHaveTurn'
  BY <1>1, <1>2, <1>3, <1>4, <1>5, BackupsStep, ReasonsStep, WaitersStep
<1>10. Cancels'
  BY <1>1, <1>2, <1>3, <1>4, <1>5, <1>6, <1>7, CancelsStep
<1>11. Queueing' /\ SlotsKept'
  BY <1>1, <1>2, <1>3, <1>4, QueueingStep, Slotting, SlotsStep
<1>12. ActiveHasOwner'
  BY <1>1, <1>2, <1>3, <1>4, OwnerStep
<1>13. Phases' /\ Noted' /\ Accounted' /\ Doomed' /\ Excused'
  BY <1>1, <1>2, <1>3, <1>4, PhasesStep, NotedStep, AccountedStep, DoomedStep,
    ExcusedStep
<1> QED
  BY <1>3, <1>7, <1>8, <1>9, <1>10, <1>11, <1>12, <1>13 DEF DaemonInv, RunsAlone, Listed

\* It holds when the daemon starts, whatever the clients are to run.
LEMMA Beginning == DaemonInit => DaemonInv
<1> SUFFICES ASSUME DaemonInit PROVE DaemonInv
  OBVIOUS
<1>1. PICK plan \in Plans :
        /\ client = [c \in Clients |-> [command |-> plan[c][1], session |-> plan[c][2],
                                        pc |-> "idle", pinned |-> 0, interrupted |-> FALSE]]
        /\ disk = [s \in Sessions |->
                    IF \E c \in Clients : plan[c] = <<"run", s>>
                    THEN [turns |-> 0, state |-> "none"]
                    ELSE [turns |-> 1, state |-> "succeeded"]]
  BY DEF DaemonInit
<1>2. \A c \in Clients : /\ plan[c][1] \in {"run", "continue", "wait", "cancel"}
                          /\ plan[c][2] \in Sessions
  BY DaemonAssumption
<1>3. /\ table = [s \in Sessions |-> None] /\ turn = [c \in Clients |-> NoTurn]
      /\ adapter = "none" /\ starting = None /\ queue = <<>>
      /\ daemon = "serving" /\ ending = <<>> /\ known = {}
  BY DEF DaemonInit
<1>4. client \in [Clients -> Commands]
  BY <1>1, <1>2 DEF Commands, Pcs
<1>5. disk \in [Sessions -> Disks]
  BY <1>1 DEF Disks, States
<1>6. NoTurn \in Turns
  BY DEF NoTurn, Turns, Stages
<1>7. Types
  BY <1>3, <1>4, <1>5, <1>6 DEF Types
<1>8. \A c \in Clients :
        /\ client[c].pc = "idle" /\ client[c].pinned = 0 /\ ~client[c].interrupted
        /\ Session(c) \in Sessions
  BY <1>1, <1>2 DEF Session
<1>9. \A c \in Clients :
        /\ turn[c].stage = "none" /\ ~turn[c].claimed /\ turn[c].token = 0
        /\ turn[c].cancel = "none" /\ ~turn[c].kill /\ turn[c].backup = <<>>
        /\ turn[c].waiters = {}
  BY <1>3 DEF NoTurn
<1>10. \A s \in Sessions :
        /\ table[s] = None /\ disk[s].turns \in Nat
        /\ \/ disk[s].state = "none"
           \/ disk[s].state = "succeeded" /\ disk[s].turns # 0
  BY <1>1, <1>3
<1>11. Entries /\ Fresh /\ Dispatching /\ Created /\ Numbered /\ Opening /\ OneRun
  BY <1>8, <1>9, <1>10
     DEF Entries, InFlight, Live, Fresh, Untouched, Dispatching, Created, Numbered, Opening, OneRun
<1>12. Claimed /\ RunsAlone
  BY <1>8, <1>9 DEF Claimed, RunsAlone, OnDisk, Reported, NoneFollows, First, Live
<1>13. Snapshots /\ Backups /\ Cancels /\ Reasons /\ Waiting
  BY <1>9, <1>10 DEF Snapshots, Backups, Cancels, Reasons, Waiting
<1>14. Listed
  BY <1>3, <1>9 DEF Listed, Phases, Noted, Accounted, Doomed, Excused, Live, ToEnd
<1>15. ActiveHasOwner /\ WaitersHaveTurn
  BY <1>8, <1>10 DEF ActiveHasOwner, Active, WaitersHaveTurn
<1>16. Queueing
  BY <1>3, <1>9 DEF Queueing
<1>17. Prompting = {}
  BY <1>9 DEF Prompting
<1>18. SlotsKept
  BY <1>17, FS_EmptySet, DaemonAssumption DEF SlotsKept
<1> QED  BY <1>7, <1>11, <1>12, <1>13, <1>14, <1>15, <1>16, <1>18 DEF DaemonInv

----------------------------------------------------------------------------
(* Theorems.                                                               *)

\* The inductive invariant of the daemon and its clients holds in every state,
\* for any number of clients, sessions and slots, and whatever the clients run.
THEOREM DaemonInvariant == DaemonSpec => []DaemonInv
<1>1. DaemonInit => DaemonInv
  BY Beginning
<1>2. DaemonInv /\ [DaemonNext]_dvars => DaemonInv'
  <2> SUFFICES ASSUME DaemonInv, [DaemonNext]_dvars PROVE DaemonInv'
    OBVIOUS
  <2>1. CASE DaemonNext
    BY <2>1, InvariantStep
  <2>2. CASE UNCHANGED dvars
    <3>1. Types'
      BY <2>2 DEF dvars, DaemonInv, Listed, Types
    <3>2. Entries'
      BY <2>2 DEF dvars, DaemonInv, Listed, Entries, InFlight, Live, Session
    <3>3. Queueing'
      BY <2>2 DEF dvars, DaemonInv, Listed, Queueing
    <3>4. SlotsKept'
      BY <2>2 DEF dvars, DaemonInv, Listed, SlotsKept, Prompting, Live
    <3>5. Fresh'
      BY <2>2 DEF dvars, DaemonInv, Listed, Fresh, Untouched
    <3>6. Dispatching'
      BY <2>2 DEF dvars, DaemonInv, Listed, Dispatching, Dispatches
    <3>7. Created'
      BY <2>2 DEF dvars, DaemonInv, Listed, Created, Session
    <3>8. Numbered'
      BY <2>2 DEF dvars, DaemonInv, Listed, Numbered
    <3>9. Opening'
      BY <2>2 DEF dvars, DaemonInv, Listed, Opening, Session
    <3>10. OneRun'
      BY <2>2 DEF dvars, DaemonInv, Listed, OneRun, Session
    <3>11. Claimed'
      BY <2>2 DEF dvars, DaemonInv, Listed, Claimed, Live, Deferred, Session
    <3>12. RunsAlone'
      BY <2>2 DEF dvars, DaemonInv, Listed, RunsAlone, OnDisk, Reported, NoneFollows, First, Live, Session
    <3>13. Snapshots' /\ Backups'
      BY <2>2 DEF dvars, DaemonInv, Listed, Snapshots, Backups, Asked, Deferred, Session
    <3>14. Cancels'
      BY <2>2 DEF dvars, DaemonInv, Listed, Cancels, Asked, Session
    <3>15. Reasons'
      BY <2>2 DEF dvars, DaemonInv, Listed, Reasons, Session
    <3>16. Waiting'
      BY <2>2 DEF dvars, DaemonInv, Listed, Waiting, Session
    <3>17. Phases' /\ Noted'
      BY <2>2 DEF dvars, DaemonInv, Listed, Phases, Noted, ToEnd, Live
    <3>18. Accounted'
      BY <2>2 DEF dvars, DaemonInv, Listed, Accounted, Unlisted, ToEnd, Live, Active, Session
    <3>19. Doomed'
      BY <2>2 DEF dvars, DaemonInv, Listed, Doomed, ToEnd, Live
    <3>20. Excused'
      BY <2>2 DEF dvars, DaemonInv, Listed, Excused, ToEnd, Deferred
    <3>21. ActiveHasOwner'
      BY <2>2 DEF dvars, DaemonInv, Listed, ActiveHasOwner, Unlisted, Leaked, ToEnd, Active, Live, Session
    <3>22. WaitersHaveTurn'
      BY <2>2 DEF dvars, DaemonInv, Listed, WaitersHaveTurn, Stranded, Live, Active, Session
    <3> QED
      BY <3>1, <3>2, <3>3, <3>4, <3>5, <3>6, <3>7, <3>8, <3>9, <3>10, <3>11, <3>12, <3>13, <3>14, <3>15, <3>16, <3>17, <3>18, <3>19, <3>20, <3>21, <3>22 DEF DaemonInv, Listed
  <2> QED  BY <2>1, <2>2
<1> QED  BY <1>1, <1>2, PTL DEF DaemonSpec

\* Type correctness of Daemon: an entry of the table is a turn of its session that
\* is not over before it began, the queue holds the queued turns, and no more
\* turns prompt than max_concurrent allows (AdapterHost's _slots).
THEOREM DaemonTypes == DaemonSpec => []TypeOK
<1>1. DaemonInv => TypeOK
  BY DEF DaemonInv, Types, Entries, Queueing, SlotsKept, TypeOK, Disks, States
<1> QED  BY <1>1, DaemonInvariant, PTL

\* Nothing active is left without somebody who will end it, whatever way a start,
\* a preparation, a queued turn or a run ends (_start, _prepare_turn, _run_turn,
\* _shut_down_sessions).
THEOREM OwnersRemain == DaemonSpec => []ActiveHasOwner
<1>1. DaemonInv => ActiveHasOwner
  BY DEF DaemonInv
<1> QED  BY <1>1, DaemonInvariant, PTL

\* A client that waits is among the waiters of a turn that will answer it
\* (_await, _resolve_waiters), unless the start it joined failed.
THEOREM WaitersKeepTurn == DaemonSpec => []WaitersHaveTurn
<1>1. DaemonInv => WaitersHaveTurn
  BY DEF DaemonInv
<1> QED  BY <1>1, DaemonInvariant, PTL

\* A shutdown ends every turn it listed (_shut_down_sessions).
THEOREM ListedTurnsAreEnded == DaemonSpec => []ListedTurnsEnd
<1>1. DaemonInv => ListedTurnsEnd
  <2> SUFFICES ASSUME DaemonInv, daemon = "down", NEW c \in known
               PROVE  ~Active(Session(c)) \/ Unlisted(Session(c))
    BY DEF ListedTurnsEnd
  <2>1. c \in Clients /\ ending = <<>>
    BY DEF DaemonInv, Types, Listed, Phases
  <2>2. ~ToEnd(c)
    BY <2>1 DEF ToEnd
  <2> QED  BY <2>1, <2>2 DEF DaemonInv, Listed, Accounted
<1> QED  BY <1>1, DaemonInvariant, PTL

\* A session is recorded canceled only when somebody asked for that turn (_cancel,
\* the finalizations of _start and _run_turn, and cli.py's _cancel_session).
THEOREM CancelsWereAsked == DaemonSpec => []CanceledWasAsked
<1>1. DaemonInv => CanceledWasAsked
  BY DEF DaemonInv, Cancels, Asked, CanceledWasAsked
<1> QED  BY <1>1, DaemonInvariant, PTL

\* Until the table is cleared, a client is told of the end of a turn only after
\* that end is on disk (_run_turn finalizes and then calls _finish).
THEOREM RecordedBeforeTold == DaemonSpec => ToldAfterRecorded
<1> DEFINE Told1 == \A w \in Clients :
        (client[w].pc = "waiting" /\ client'[w].pc \in {"done", "failing"}
            /\ daemon \in {"serving", "ending"})
            => disk'[Session(w)].state \in {"succeeded", "canceled", "failed"}
<1>1. DaemonInv /\ DaemonInv' /\ [DaemonNext]_dvars => [Told1]_dvars
  <2> SUFFICES ASSUME DaemonInv, DaemonInv', DaemonNext, NEW w \in Clients,
                      client[w].pc = "waiting", client'[w].pc \in {"done", "failing"},
                      daemon \in {"serving", "ending"}
               PROVE  disk'[Session(w)].state \in {"succeeded", "canceled", "failed"}
    OBVIOUS
  <2>1. /\ Types /\ Queueing /\ Entries /\ Fresh /\ Dispatching /\ Created /\ Numbered /\ Waiting
        /\ Backups /\ Listed /\ Snapshots /\ Claimed /\ OnDisk /\ Reported
    BY DEF DaemonInv, RunsAlone
  <2>2. Effect /\ Members
    BY <2>1, Effects, Membership DEF Effective
  <2>3. Announced
    BY <2>1, <2>2, ToldStep
  <2>4. Recalls
    BY <2>1, <2>2, Recalling
  <2>5. Session(w)' = Session(w) /\ Session(w) \in Sessions
    BY <2>2, <2>4 DEF Recalls, Session, Members
  <2>6. disk'[Session(w)].state # "none"
    BY <2>5 DEF DaemonInv, Created
  <2>7. disk'[Session(w)].state \in States
    <3>1. disk' \in [Sessions -> Disks]
      BY DEF DaemonInv, Types
    <3> QED  BY <3>1, <2>5 DEF Disks
  <2> QED  BY <2>3, <2>6, <2>7 DEF Announced, States
<1> QED  BY <1>1, DaemonInvariant, PTL DEF DaemonSpec, ToldAfterRecorded

=============================================================================
