---------------------------- MODULE DaemonSteps ----------------------------
(***************************************************************************)
(* The inductive invariant of Daemon, and its steps seen from outside: for *)
(* every action the module states its EFFECT, field by field of the turns  *)
(* and of the clients, without the updates of records and functions that   *)
(* make it up.  The lemma Effects shows that every step is an effect;      *)
(* DaemonProofs then shows that the effects keep the invariant.            *)
(***************************************************************************)
EXTENDS Daemon, FiniteSetTheorems, SequenceTheorems, TLAPS

\* The shape of the variables.
States == {"none", "starting", "running", "succeeded", "canceled", "failed"}
Disks == [turns : Nat, state : States]
Stages == {"none", "ensuring", "accepted", "restoring", "queued", "opening", "driving",
           "ended", "refused", "leaked"}
Turns == [stage : Stages, claimed : BOOLEAN, token : Nat,
          cancel : {"none", "canceled", "failed"}, asked : Nat \X Nat,
          kill : BOOLEAN, backup : Seq(Disks), waiters : SUBSET Clients]
Pcs == {"idle", "sending", "starting", "replied", "asking", "waiting", "done", "failing",
        "left"}
Commands == [command : {"run", "continue", "wait", "cancel"}, session : Sessions, pc : Pcs,
             pinned : Nat, interrupted : BOOLEAN]

Types ==
    /\ disk \in [Sessions -> Disks]
    /\ table \in [Sessions -> Clients \cup {None}]
    /\ turn \in [Clients -> Turns]
    /\ client \in [Clients -> Commands]
    /\ adapter \in {"none", "up"} /\ starting \in Clients \cup {None}
    /\ queue \in Seq(Clients)
    /\ daemon \in {"serving", "ending", "exiting", "down"}
    /\ ending \in Seq(Clients) /\ known \in SUBSET Clients

\* An entry of the table is a turn of its session; and until the shutdown clears
\* the table, a turn in flight, or one whose task never began, has its entry.
InFlight(c) == Live(c) \/ turn[c].stage = "leaked"
Entries ==
    /\ \A s \in Sessions : table[s] # None =>
            Session(table[s]) = s /\ turn[table[s]].stage \notin {"none", "refused"}
    /\ daemon \in {"serving", "ending"} =>
            \A c \in Clients : InFlight(c) => table[Session(c)] = c

\* A turn waits in the queue once, and exactly while it is queued.
Queueing ==
    /\ \A c \in Clients : turn[c].stage = "queued" <=> \E i \in DOMAIN queue : queue[i] = c
    /\ \A i, j \in DOMAIN queue : queue[i] = queue[j] => i = j
SlotsKept == Cardinality(Prompting) <= Slots

\* What a client has done so far, and what it may have seen of its session.
Dispatches(c) == client[c].command \in {"run", "continue"}
Untouched(c) ==
    /\ turn[c].stage = "none" /\ ~turn[c].claimed /\ turn[c].token = 0
    /\ turn[c].cancel = "none" /\ ~turn[c].kill /\ turn[c].backup = <<>>
Fresh ==
    \A c \in Clients :
        /\ client[c].pc \in {"idle", "sending"} => Untouched(c)
        /\ client[c].pc = "idle" => client[c].pinned = 0
        /\ turn[c].stage = "ensuring" => client[c].pc \in {"starting", "left"}
Dispatching ==
    \A c \in Clients :
        /\ client[c].pc \in {"sending", "failing"} => Dispatches(c)
        /\ turn[c].stage # "none" => Dispatches(c)
Created ==
    \A c \in Clients :
        /\ client[c].pc # "idle" => disk[Session(c)].state # "none"
        /\ client[c].pc = "asking" => client[c].pinned # 0
Numbered == \A s \in Sessions : disk[s].state # "none" => disk[s].turns # 0
\* A session is starting until its first turn is claimed.
Opening ==
    \A s \in Sessions : disk[s].state = "starting" =>
        /\ disk[s].turns = 1
        /\ \A c \in Clients : Session(c) = s /\ client[c].pc # "idle" =>
                client[c].pinned = 1 /\ client[c].command # "continue"
\* One client creates it.
OneRun ==
    \A c, e \in Clients :
        (Session(c) = Session(e) /\ client[c].command = "run" /\ client[e].command = "run"
            /\ client[c].pc # "idle" /\ client[e].pc # "idle") => c = e

\* How far a turn is, and what it has claimed by then.
Claimed ==
    \A c \in Clients :
        /\ turn[c].stage \in {"none", "ensuring"} => ~turn[c].claimed
        /\ turn[c].stage \in {"accepted", "restoring", "queued", "opening", "driving", "leaked"}
                => turn[c].claimed
        /\ turn[c].claimed <=> turn[c].token # 0
        /\ (Live(c) /\ turn[c].claimed /\ daemon \in {"serving", "ending"})
                => turn[c].token = disk[Session(c)].turns
        /\ turn[c].stage = "restoring" => Deferred(c)
\* The only turn of a new session is alone with it until it ends.
First(c) == client[c].command = "run" /\ Live(c) /\ turn[c].claimed
OnDisk == \A c \in Clients : First(c) =>
    disk[Session(c)].turns = 1 /\ disk[Session(c)].state = "running"
Reported == \A c \in Clients : First(c) => client[c].pc # "failing" /\ turn[c].token = 1
NoneFollows == \A c, e \in Clients :
    First(c) /\ Session(e) = Session(c) /\ client[e].command = "continue" => client[e].pc = "idle"
RunsAlone == OnDisk /\ Reported /\ NoneFollows

\* Who asked for the end of turn n of session s.
Asked(s, n) ==
    \E c \in Clients : Session(c) = s /\
        \/ client[c].command = "cancel" /\ client[c].pinned = n
        \/ client[c].interrupted
        \/ turn[c].cancel = "canceled" /\ turn[c].asked[2] = 0
\* A continuation that may still be undone knows what its session was.
Snapshots == \A c \in Clients :
    (Deferred(c) /\ turn[c].stage \in {"ensuring", "accepted", "restoring"}) => turn[c].backup # <<>>
Backups ==
    \A c \in Clients : turn[c].backup # <<>> =>
        /\ turn[c].backup[1].state \in {"succeeded", "canceled", "failed"}
        /\ turn[c].backup[1].turns # 0
        /\ turn[c].backup[1].state = "canceled" => Asked(Session(c), turn[c].backup[1].turns)
\* A session that is canceled, and a turn that is, was asked to end.
Cancels == \A s \in Sessions : disk[s].state = "canceled" => Asked(s, disk[s].turns)
Reasons ==
    \A c \in Clients : turn[c].cancel = "canceled" =>
        \/ turn[c].asked[2] = 0
        \/ \E w \in Clients : Session(w) = Session(c) /\
            \/ client[w].interrupted
            \/ /\ client[w].command = "cancel"
               /\ turn[c].token # 0 /\ client[w].pinned = turn[c].token

\* A waiter waits for one turn, of its session.
Waiting ==
    \A c, w \in Clients : w \in turn[c].waiters =>
        /\ Session(w) = Session(c) /\ client[w].pc = "waiting"
        /\ \A e \in Clients : w \in turn[e].waiters => e = c

\* The shutdown has the turn of c still to end.
ToEnd(c) == \E i \in DOMAIN ending : ending[i] = c
\* How far the shutdown is.
Phases ==
    /\ daemon = "serving" => ending = <<>> /\ known = {}
    /\ daemon \in {"exiting", "down"} => ending = <<>>
    /\ daemon = "down" => \A c \in Clients : ~Live(c)
\* A listed turn was in the table.
Noted ==
    /\ \A c \in Clients : ToEnd(c) => c \in known
    /\ \A c \in Clients : c \in known => turn[c].stage # "none"
\* Until a listed turn has been ended it is on the list, and its session is not
\* active afterwards unless a later start opened it again.
Accounted == \A c \in Clients : c \in known =>
    ToEnd(c) \/ (~Live(c) /\ (~Active(Session(c)) \/ Unlisted(Session(c))))
\* Only the shutdown ends a turn as failed, and it awaits its task.
Doomed == \A c \in Clients : Live(c) /\ turn[c].cancel = "failed" => ToEnd(c)
\* A preparation that is killed is finalized, or left to the shutdown.
Excused == \A c \in Clients : (turn[c].stage \in {"restoring", "queued"} /\ turn[c].kill) =>
    \/ turn[c].cancel = "canceled" /\ Deferred(c)
    \/ ToEnd(c)
    \/ daemon = "exiting" /\ c \notin known
Listed == Phases /\ Noted /\ Accounted /\ Doomed /\ Excused

\* The inductive invariant of the daemon and its clients.
DaemonInv ==
    /\ Types /\ Entries /\ Queueing /\ SlotsKept /\ Fresh /\ Dispatching /\ Created
    /\ Numbered /\ Opening /\ OneRun /\ Claimed /\ RunsAlone
    /\ Snapshots /\ Backups /\ Cancels /\ Reasons /\ Waiting /\ Listed /\ ActiveHasOwner /\ WaitersHaveTurn

----------------------------------------------------------------------------
\* The turn of c goes to stage v.
Staged(c, v) == \A x \in Clients :
    /\ turn'[x].stage = IF x = c THEN v ELSE turn[x].stage
    /\ turn'[x].claimed = turn[x].claimed
    /\ turn'[x].token = turn[x].token
    /\ turn'[x].cancel = turn[x].cancel
    /\ turn'[x].asked = turn[x].asked
    /\ turn'[x].kill = turn[x].kill
    /\ turn'[x].backup = turn[x].backup
    /\ turn'[x].waiters = turn[x].waiters

\* ... and takes no notice of a kill any more.
Stopped(c, v) == \A x \in Clients :
    /\ turn'[x].stage = IF x = c THEN v ELSE turn[x].stage
    /\ turn'[x].claimed = turn[x].claimed
    /\ turn'[x].token = turn[x].token
    /\ turn'[x].cancel = turn[x].cancel
    /\ turn'[x].asked = turn[x].asked
    /\ turn'[x].kill <=> x # c /\ turn[x].kill
    /\ turn'[x].backup = turn[x].backup
    /\ turn'[x].waiters = turn[x].waiters

\* ... or of its backup.
Prepared(c, v) == \A x \in Clients :
    /\ turn'[x].stage = IF x = c THEN v ELSE turn[x].stage
    /\ turn'[x].claimed = turn[x].claimed
    /\ turn'[x].token = turn[x].token
    /\ turn'[x].cancel = turn[x].cancel
    /\ turn'[x].asked = turn[x].asked
    /\ turn'[x].kill = turn[x].kill
    /\ turn'[x].backup = IF x = c THEN <<>> ELSE turn[x].backup
    /\ turn'[x].waiters = turn[x].waiters

\* The turn of c enters the table.
Entered(c) == \A x \in Clients :
    /\ turn'[x].stage = IF x = c THEN "ensuring" ELSE turn[x].stage
    /\ turn'[x].claimed = turn[x].claimed
    /\ turn'[x].token = turn[x].token
    /\ turn'[x].cancel = turn[x].cancel
    /\ turn'[x].asked = turn[x].asked
    /\ turn'[x].kill = turn[x].kill
    /\ turn'[x].backup = IF x # c THEN turn[x].backup ELSE IF Deferred(c) THEN
          <<disk[Session(c)]>> ELSE <<>>
    /\ turn'[x].waiters = turn[x].waiters

\* The turn of c is accepted with its token.
Claiming(c) == \A x \in Clients :
    /\ turn'[x].stage = IF x = c THEN "accepted" ELSE turn[x].stage
    /\ turn'[x].claimed <=> x = c \/ turn[x].claimed
    /\ turn'[x].token = IF x = c THEN disk[Session(c)].turns ELSE turn[x].token
    /\ turn'[x].cancel = turn[x].cancel
    /\ turn'[x].asked = turn[x].asked
    /\ turn'[x].kill = turn[x].kill
    /\ turn'[x].backup = turn[x].backup
    /\ turn'[x].waiters = turn[x].waiters

\* The turn of c ends, and the entry of its session is answered.
Left(c) == \A x \in Clients :
    /\ turn'[x].stage = IF x = c THEN "ended" ELSE turn[x].stage
    /\ turn'[x].claimed = turn[x].claimed
    /\ turn'[x].token = turn[x].token
    /\ turn'[x].cancel = turn[x].cancel
    /\ turn'[x].asked = turn[x].asked
    /\ turn'[x].kill <=> x # c /\ turn[x].kill
    /\ turn'[x].backup = turn[x].backup
    /\ turn'[x].waiters = IF x = table[Session(c)] THEN {} ELSE turn[x].waiters

\* The shutdown ends c's turn and answers it.
Closed(c) == \A x \in Clients :
    /\ turn'[x].stage = IF x = c THEN "ended" ELSE turn[x].stage
    /\ turn'[x].claimed = turn[x].claimed
    /\ turn'[x].token = turn[x].token
    /\ turn'[x].cancel = turn[x].cancel
    /\ turn'[x].asked = turn[x].asked
    /\ turn'[x].kill = turn[x].kill
    /\ turn'[x].backup = turn[x].backup
    /\ turn'[x].waiters = IF x = c THEN {} ELSE turn[x].waiters

\* The task of c is canceled.
Shot(c) == \A x \in Clients :
    /\ turn'[x].stage = turn[x].stage
    /\ turn'[x].claimed = turn[x].claimed
    /\ turn'[x].token = turn[x].token
    /\ turn'[x].cancel = turn[x].cancel
    /\ turn'[x].asked = turn[x].asked
    /\ turn'[x].kill <=> x = c \/ turn[x].kill
    /\ turn'[x].backup = turn[x].backup
    /\ turn'[x].waiters = turn[x].waiters

\* ... by the shutdown.
Struck(c) == \A x \in Clients :
    /\ turn'[x].stage = turn[x].stage
    /\ turn'[x].claimed = turn[x].claimed
    /\ turn'[x].token = turn[x].token
    /\ turn'[x].cancel = IF x = c /\ turn[x].cancel = "none" THEN "failed" ELSE
          turn[x].cancel
    /\ turn'[x].asked = turn[x].asked
    /\ turn'[x].kill <=> x = c \/ turn[x].kill
    /\ turn'[x].backup = turn[x].backup
    /\ turn'[x].waiters = turn[x].waiters

\* Client w joins the waiters of y.
Joined(y, w) == \A x \in Clients :
    /\ turn'[x].stage = turn[x].stage
    /\ turn'[x].claimed = turn[x].claimed
    /\ turn'[x].token = turn[x].token
    /\ turn'[x].cancel = turn[x].cancel
    /\ turn'[x].asked = turn[x].asked
    /\ turn'[x].kill = turn[x].kill
    /\ turn'[x].backup = turn[x].backup
    /\ turn'[x].waiters = IF x = y THEN turn[x].waiters \cup {w} ELSE turn[x].waiters

\* Client w leaves the waiters of all.
Parted(w) == \A x \in Clients :
    /\ turn'[x].stage = turn[x].stage
    /\ turn'[x].claimed = turn[x].claimed
    /\ turn'[x].token = turn[x].token
    /\ turn'[x].cancel = turn[x].cancel
    /\ turn'[x].asked = turn[x].asked
    /\ turn'[x].kill = turn[x].kill
    /\ turn'[x].backup = turn[x].backup
    /\ turn'[x].waiters = turn[x].waiters \ {w}

\* A cancel that names turn pin of y.
CanceledFields(x, y, pin) ==
    /\ turn'[x].stage = turn[x].stage
    /\ turn'[x].claimed = turn[x].claimed
    /\ turn'[x].token = turn[x].token
    /\ turn'[x].cancel = IF x = y /\ ~OtherTurn(y, pin) /\ turn[x].cancel = "none" THEN
          "canceled" ELSE turn[x].cancel
    /\ turn'[x].asked = IF x = y /\ ~OtherTurn(y, pin) /\ turn[x].cancel = "none" THEN
          <<pin, turn[x].token>> ELSE turn[x].asked
    /\ turn'[x].kill <=> turn[x].kill \/ (x = y /\ ~OtherTurn(y, pin) /\ Preparing(y) /\
          (~turn[y].claimed \/ Deferred(y)))
    /\ turn'[x].backup = turn[x].backup
    /\ turn'[x].waiters = turn[x].waiters
CanceledAs(y, pin) == \A x \in Clients : CanceledFields(x, y, pin)

\* Client c gets to v.
Spoke(c, v) == \A w \in Clients :
    /\ client'[w].command = client[w].command
    /\ client'[w].session = client[w].session
    /\ client'[w].pc = IF w = c THEN v ELSE client[w].pc
    /\ client'[w].pinned = client[w].pinned
    /\ client'[w].interrupted = client[w].interrupted

\* ... and notes the turn it found.
Began(c, v) == \A w \in Clients :
    /\ client'[w].command = client[w].command
    /\ client'[w].session = client[w].session
    /\ client'[w].pc = IF w = c THEN v ELSE client[w].pc
    /\ client'[w].pinned = IF w = c THEN disk'[Session(c)].turns ELSE client[w].pinned
    /\ client'[w].interrupted = client[w].interrupted

\* Client c asks its own turn to stop.
Broke(c) == \A w \in Clients :
    /\ client'[w].command = client[w].command
    /\ client'[w].session = client[w].session
    /\ client'[w].pc = IF w = c /\ client[w].pc = "starting" THEN "left" ELSE
          client[w].pc
    /\ client'[w].pinned = client[w].pinned
    /\ client'[w].interrupted <=> w = c \/ client[w].interrupted

\* The reply v reaches c if it is still there.
Reached(c, v) == \A w \in Clients :
    /\ client'[w].command = client[w].command
    /\ client'[w].session = client[w].session
    /\ client'[w].pc = IF w = c /\ client[w].pc \in {"sending", "starting"} THEN v ELSE
          client[w].pc
    /\ client'[w].pinned = client[w].pinned
    /\ client'[w].interrupted = client[w].interrupted

\* The waiters of turn y learn its outcome.
Learned(y, e) == \A w \in Clients :
    /\ client'[w].command = client[w].command
    /\ client'[w].session = client[w].session
    /\ client'[w].pc = IF y # None /\ w \in turn[y].waiters THEN AfterOutcome(w, e) ELSE
          client[w].pc
    /\ client'[w].pinned = client[w].pinned
    /\ client'[w].interrupted = client[w].interrupted

\* ... and the reply v reaches c.
Heard(y, e, c, v) == \A w \in Clients :
    /\ client'[w].command = client[w].command
    /\ client'[w].session = client[w].session
    /\ client'[w].pc = IF y # None /\ w \in turn[y].waiters THEN AfterOutcome(w, e) ELSE
          IF w = c /\ client[w].pc \in {"sending", "starting"} THEN v ELSE client[w].pc
    /\ client'[w].pinned = client[w].pinned
    /\ client'[w].interrupted = client[w].interrupted

\* Finalized, seen from the outside: session s gets outcome v if it is active and
\* at turn n.
Ended(s, v, n) == \A z \in Sessions :
    /\ disk'[z].turns = disk[z].turns
    /\ disk'[z].state = IF z = s /\ Active(z) /\ n \in {0, disk[z].turns}
                        THEN v ELSE disk[z].state
DiskAt(s, d) == \A z \in Sessions : disk'[z] = IF z = s THEN d ELSE disk[z]
TableAt(s, x) == \A z \in Sessions : table'[z] = IF z = s THEN x ELSE table[z]

\* Finish, with its edits.
Finishes(c, e) ==
    /\ TableAt(Session(c), None)
    /\ Left(c)
    /\ Heard(table[Session(c)], e, c, "failing")
    /\ queue' = LeavesQueue(c)

Quiet ==
    /\ UNCHANGED <<disk, table, turn, client, queue, daemon, ending, known>>

Creates(c) ==
    /\ client[c].command = "run" /\ client[c].pc = "idle" /\ daemon = "serving"
    /\ disk[Session(c)].state = "none"
    /\ DiskAt(Session(c), [turns |-> 1, state |-> "starting"])
    /\ Began(c, "sending")
    /\ UNCHANGED <<table, turn, queue, daemon, ending, known>>

Continues(c) ==
    /\ client[c].command = "continue" /\ client[c].pc = "idle" /\ daemon = "serving"
    /\ Finished(Session(c))
    /\ Began(c, "sending")
    /\ UNCHANGED <<disk, table, turn, queue, daemon, ending, known>>

Observes(c) ==
    /\ client[c].command \in {"wait", "cancel"} /\ client[c].pc = "idle"
    /\ Active(Session(c))
    /\ Began(c, "asking")
    /\ UNCHANGED <<disk, table, turn, queue, daemon, ending, known>>

Goes(c) ==
    /\ client[c].pc \in {"starting", "waiting"}
    /\ Spoke(c, "left")
    /\ Parted(c)
    /\ UNCHANGED <<disk, table, queue, daemon, ending, known>>

FailsSession(c) ==
    /\ client[c].pc = "failing"
    /\ Ended(Session(c), "failed", 0)
    /\ Spoke(c, "done")
    /\ UNCHANGED <<table, turn, queue, daemon, ending, known>>

IsLost(c) ==
    /\ daemon = "down" /\ client[c].pc \in {"sending", "starting", "replied", "asking", "waiting"}
    /\ Spoke(c, AfterOutcome(c, TRUE))
    /\ Parted(c)
    /\ UNCHANGED <<disk, table, queue, daemon, ending, known>>

IsRefused(c) ==
    /\ Serves /\ client[c].pc = "sending"
    /\ Spoke(c, "failing") \/ (Deferred(c) /\ Spoke(c, "done"))
    /\ \/ UNCHANGED disk
       \/ /\ table[Session(c)] = None /\ Deferred(c) /\ Finished(Session(c))
          /\ DiskAt(Session(c), [turns |-> disk[Session(c)].turns + 1, state |-> "failed"])
          /\ Spoke(c, "done")
    /\ UNCHANGED <<table, turn, queue, daemon, ending, known>>

StartsNext(c) ==
    /\ Serves /\ client[c].pc = "sending" /\ Deferred(c)
    /\ table[Session(c)] = None /\ Finished(Session(c))
    /\ DiskAt(Session(c), [turns |-> disk[Session(c)].turns + 1, state |-> "running"])
    /\ TableAt(Session(c), c)
    /\ Entered(c)
    /\ Spoke(c, "starting")
    /\ UNCHANGED <<queue, daemon, ending, known>>

StartsFirst(c) ==
    /\ Serves /\ client[c].pc = "sending" /\ ~Deferred(c)
    /\ table[Session(c)] = None
    /\ TableAt(Session(c), c)
    /\ Entered(c)
    /\ Spoke(c, "starting")
    /\ UNCHANGED <<disk, queue, daemon, ending, known>>

IsAccepted(c) ==
    /\ turn[c].stage = "ensuring" /\ ~turn[c].kill
    /\ Deferred(c) \/ disk[Session(c)].state = "starting"
    /\ \A z \in Sessions :
        /\ disk'[z].turns = disk[z].turns
        /\ disk'[z].state = IF z = Session(c) /\ ~Deferred(c) THEN "running" ELSE disk[z].state
    /\ Claiming(c)
    /\ Reached(c, "replied")
    /\ UNCHANGED <<table, queue, daemon, ending, known>>

StartIsUndone(c) ==
    /\ turn[c].stage = "ensuring" /\ (turn[c].kill => turn[c].cancel # "canceled")
    /\ IF Deferred(c) THEN DiskAt(Session(c), RolledBack(c)) ELSE Ended(Session(c), "failed", 0)
    /\ TableAt(Session(c), None)
    /\ Stopped(c, "refused")
    /\ Reached(c, "done") \/ Reached(c, "failing")
    /\ ~Deferred(c) => Reached(c, "failing")
    /\ UNCHANGED <<queue, daemon, ending, known>>

Joins(c) ==
    /\ Serves /\ client[c].pc \in {"asking", "replied"} /\ table[Session(c)] # None
    /\ Joined(table[Session(c)], c)
    /\ Spoke(c, "waiting")
    /\ UNCHANGED <<disk, table, queue, daemon, ending, known>>

FindsNothing(c) ==
    /\ Serves /\ client[c].pc \in {"asking", "replied"}
    /\ Spoke(c, "done")
    /\ UNCHANGED <<disk, table, turn, queue, daemon, ending, known>>

CancelsTurn(c) ==
    /\ Serves /\ client[c].command = "cancel" /\ client[c].pc = "asking"
    /\ table[Session(c)] # None
    /\ CanceledAs(table[Session(c)], client[c].pinned)
    /\ Spoke(c, "done")
    /\ UNCHANGED <<disk, table, queue, daemon, ending, known>>

CancelsAlone(c) ==
    /\ Serves /\ client[c].command = "cancel" /\ client[c].pc = "asking"
    /\ table[Session(c)] = None
    /\ \A z \in Sessions :
        /\ disk'[z].turns = disk[z].turns
        /\ disk'[z].state = IF z = Session(c) /\ disk[z].state = "starting" THEN "canceled"
                            ELSE disk[z].state
    /\ Spoke(c, "done")
    /\ UNCHANGED <<table, turn, queue, daemon, ending, known>>

Breaks(c) ==
    /\ Serves /\ client[c].pc \in {"starting", "waiting"}
    /\ IF table[Session(c)] = None THEN UNCHANGED turn
       ELSE CanceledAs(table[Session(c)], 0)
    /\ Broke(c)
    /\ UNCHANGED <<disk, table, queue, daemon, ending, known>>

BeginsToRestore(c) ==
    /\ turn[c].stage = "accepted" /\ ~turn[c].kill /\ Deferred(c)
    /\ Staged(c, "restoring")
    /\ UNCHANGED <<disk, table, client, queue, daemon, ending, known>>

Enqueues(c) ==
    /\ turn[c].stage = "accepted" /\ ~turn[c].kill /\ ~Deferred(c)
    /\ Staged(c, EntersSlot(c)) /\ queue' = Queued(c)
    /\ UNCHANGED <<disk, table, client, daemon, ending, known>>

IsRestored(c) ==
    /\ turn[c].stage = "restoring" /\ ~turn[c].kill
    /\ Prepared(c, EntersSlot(c)) /\ queue' = Queued(c)
    /\ UNCHANGED <<disk, table, client, daemon, ending, known>>

IsNotRestored(c) ==
    /\ turn[c].stage = "restoring" /\ ~turn[c].kill
    /\ \/ DiskAt(Session(c), RolledBack(c))
       \/ Ended(Session(c), "failed", disk[Session(c)].turns)
    /\ Finishes(c, TRUE)
    /\ UNCHANGED <<daemon, ending, known>>

IsNext(c) ==
    /\ turn[c].stage = "queued" /\ ~turn[c].kill /\ Free
    /\ queue # <<>> /\ Head(queue) = c /\ queue' = Tail(queue)
    /\ Staged(c, "opening")
    /\ UNCHANGED <<disk, table, client, daemon, ending, known>>

Drives(c) ==
    /\ turn[c].stage = "opening" /\ ~turn[c].kill
    /\ Staged(c, "driving")
    /\ UNCHANGED <<disk, table, client, queue, daemon, ending, known>>

RunIsOver(c) ==
    /\ turn[c].stage \in {"opening", "driving"}
    /\ \E v \in {"succeeded", "failed"} :
            Ended(Session(c), IF turn[c].cancel = "none" THEN v ELSE turn[c].cancel, RequestToken(c))
    /\ \E e \in BOOLEAN : Finishes(c, e)
    /\ UNCHANGED <<daemon, ending, known>>

StartIsCanceled(c) ==
    /\ turn[c].stage = "ensuring" /\ turn[c].kill /\ turn[c].cancel = "canceled"
    /\ Ended(Session(c), "canceled", 0)
    /\ TableAt(Session(c), None)
    /\ Left(c)
    /\ Heard(table[Session(c)], FALSE, c, "done") \/ Heard(table[Session(c)], FALSE, c, "failing")
    /\ ~Deferred(c) => Heard(table[Session(c)], FALSE, c, "failing")
    /\ UNCHANGED <<queue, daemon, ending, known>>

Leaks(c) ==
    /\ turn[c].stage = "accepted" /\ turn[c].kill
    /\ Stopped(c, "leaked")
    /\ UNCHANGED <<disk, table, client, queue, daemon, ending, known>>

PreparationIsCanceled(c) ==
    /\ turn[c].stage \in {"restoring", "queued"} /\ turn[c].kill
    /\ turn[c].cancel = "canceled" /\ Deferred(c)
    /\ Ended(Session(c), "canceled", turn[c].token)
    /\ Finishes(c, FALSE)
    /\ UNCHANGED <<daemon, ending, known>>

PreparationIsKilled(c) ==
    /\ turn[c].stage \in {"restoring", "queued"} /\ turn[c].kill
    /\ ~(turn[c].cancel = "canceled" /\ Deferred(c))
    /\ Stopped(c, "ended") /\ queue' = LeavesQueue(c)
    /\ UNCHANGED <<disk, table, client, daemon, ending, known>>

IsStruck(c) ==
    /\ daemon = "ending" /\ ending # <<>> /\ Head(ending) = c /\ Live(c)
    /\ Struck(c)
    /\ UNCHANGED <<disk, table, client, queue, daemon, ending, known>>

IsClosed(c) ==
    /\ daemon = "ending" /\ ending # <<>> /\ Head(ending) = c /\ ~Live(c)
    /\ ending' = Tail(ending)
    /\ Ended(Session(c), "failed", 0)
    /\ Closed(c)
    /\ Learned(c, FALSE)
    /\ UNCHANGED <<table, queue, daemon, known>>

IsAbandoned(c) ==
    /\ daemon = "exiting" /\ Live(c)
    /\ Shot(c)
    /\ UNCHANGED <<disk, table, client, queue, daemon, ending, known>>

ShutsDown ==
    /\ daemon = "serving" /\ daemon' = "ending" /\ known' = InTable
    /\ ending' \in Seq(Clients) /\ \A i \in DOMAIN ending' : ending'[i] \in InTable
    /\ \A c \in InTable : \E i \in DOMAIN ending' : ending'[i] = c
    /\ UNCHANGED <<disk, table, turn, client, queue>>

IsCleared ==
    /\ daemon = "ending" /\ ending = <<>> /\ daemon' = "exiting"
    /\ \A z \in Sessions : table'[z] = None
    /\ UNCHANGED <<disk, turn, client, queue, ending, known>>

IsGone ==
    /\ daemon = "exiting" /\ daemon' = "down" /\ \A c \in Clients : ~Live(c)
    /\ UNCHANGED <<disk, table, turn, client, queue, ending, known>>

\* What a step of the daemon or of a client does.
Effect ==
    \/ Quiet \/ ShutsDown \/ IsCleared \/ IsGone
    \/ \E c \in Clients :
        \/ Creates(c) \/ Continues(c) \/ Observes(c) \/ Goes(c)
        \/ FailsSession(c) \/ IsLost(c) \/ IsRefused(c) \/ StartsNext(c)
        \/ StartsFirst(c) \/ IsAccepted(c) \/ StartIsUndone(c) \/ Joins(c)
        \/ FindsNothing(c) \/ CancelsTurn(c) \/ CancelsAlone(c) \/ Breaks(c)
        \/ BeginsToRestore(c) \/ Enqueues(c) \/ IsRestored(c) \/ IsNotRestored(c)
        \/ IsNext(c) \/ Drives(c) \/ RunIsOver(c) \/ StartIsCanceled(c)
        \/ Leaks(c) \/ PreparationIsCanceled(c) \/ PreparationIsKilled(c) \/ IsStruck(c)
        \/ IsClosed(c) \/ IsAbandoned(c)
OthersTyped ==
    /\ table \in [Sessions -> Clients \cup {None}]
    /\ adapter \in {"none", "up"} /\ starting \in Clients \cup {None}
    /\ queue \in Seq(Clients) /\ daemon \in {"serving", "ending", "exiting", "down"}
    /\ ending \in Seq(Clients) /\ known \in SUBSET Clients

\* What a shutdown lists are turns of the table.
LEMMA Listing ==
  ASSUME NEW q, q \in [1..Cardinality(InTable) -> InTable]
  PROVE  q \in Seq(Clients) /\ \A i \in DOMAIN q : q[i] \in InTable
<1>1. InTable \subseteq Clients /\ IsFiniteSet(InTable)
  BY DaemonAssumption, FS_Subset DEF InTable
<1>2. Cardinality(InTable) \in Nat
  BY <1>1, FS_CardinalityType
<1>3. q \in [1..Cardinality(InTable) -> Clients]
  BY <1>1
<1> QED  BY <1>2, <1>3

\* A turn that leaves the queue leaves the others in it, each at one place.
LEMMA QueueLeft ==
  ASSUME queue \in Seq(Clients), NEW c \in Clients, Queueing
  PROVE  /\ LeavesQueue(c) \in Seq(Clients)
         /\ \A e \in Clients : (\E i \in DOMAIN LeavesQueue(c) : LeavesQueue(c)[i] = e)
                <=> e # c /\ \E i \in DOMAIN queue : queue[i] = e
         /\ \A i, j \in DOMAIN LeavesQueue(c) : LeavesQueue(c)[i] = LeavesQueue(c)[j] => i = j
<1>1. CASE ~\E i \in DOMAIN queue : queue[i] = c
  BY <1>1 DEF LeavesQueue, Queueing
<1>2. CASE \E i \in DOMAIN queue : queue[i] = c
  <2> DEFINE k == CHOOSE i \in DOMAIN queue : queue[i] = c
             a == SubSeq(queue, 1, k - 1)
             b == SubSeq(queue, k + 1, Len(queue))
  <2>1. k \in 1..Len(queue) /\ queue[k] = c /\ Len(queue) \in Nat
    BY <1>2
  <2>2. LeavesQueue(c) = a \o b
    BY <1>2 DEF LeavesQueue
  <2> HIDE DEF k
  <2>3. a \in Seq(Clients) /\ Len(a) = k - 1 /\ \A i \in 1..(k - 1) : a[i] = queue[i]
    BY <2>1, SubSeqProperties
  <2>4. b \in Seq(Clients) /\ Len(b) = Len(queue) - k
        /\ \A i \in 1..(Len(queue) - k) : b[i] = queue[k + i]
    BY <2>1, SubSeqProperties
  <2> HIDE DEF a, b
  <2> DEFINE q == a \o b
  <2>5. /\ q \in Seq(Clients) /\ Len(q) = Len(a) + Len(b)
        /\ \A i \in 1..(Len(a) + Len(b)) : q[i] = IF i <= Len(a) THEN a[i] ELSE b[i - Len(a)]
    BY <2>3, <2>4, ConcatProperties
  <2> HIDE DEF q
  <2>6. Len(q) = Len(queue) - 1 /\ DOMAIN q = 1..(Len(queue) - 1)
    BY <2>1, <2>3, <2>4, <2>5
  <2>7. ASSUME NEW i \in 1..(Len(queue) - 1)
        PROVE  q[i] = IF i < k THEN queue[i] ELSE queue[i + 1]
    <3>1. CASE i < k
      BY SMTT(30), <3>1, <2>1, <2>3, <2>4, <2>5
    <3>2. CASE i >= k
      <4>1. i - (k - 1) \in 1..(Len(queue) - k) /\ k + (i - (k - 1)) = i + 1
        BY <3>2, <2>1
      <4>2. b[i - (k - 1)] = queue[i + 1]
        BY <4>1, <2>4
      <4> QED  BY SMTT(30), <3>2, <4>2, <2>1, <2>3, <2>4, <2>5
    <3> QED  BY <3>1, <3>2, <2>1
  <2>8. \A i, j \in 1..Len(queue) : queue[i] = queue[j] => i = j
    BY DEF Queueing
  <2>9. \A i, j \in DOMAIN q : q[i] = q[j] => i = j
    BY <2>1, <2>6, <2>7, <2>8
  <2>10. ASSUME NEW e \in Clients
         PROVE  (\E i \in DOMAIN q : q[i] = e) <=> e # c /\ \E i \in DOMAIN queue : queue[i] = e
    <3>1. ASSUME NEW i \in DOMAIN q, q[i] = e
          PROVE  e # c /\ \E j \in DOMAIN queue : queue[j] = e
      BY <3>1, <2>1, <2>6, <2>7, <2>8
    <3>2. ASSUME e # c, NEW j \in 1..Len(queue), queue[j] = e
          PROVE  \E i \in DOMAIN q : q[i] = e
      <4>1. CASE j < k
        BY <4>1, <3>2, <2>1, <2>6, <2>7
      <4>2. CASE j > k
        <5>1. j - 1 \in 1..(Len(queue) - 1) /\ q[j - 1] = queue[j]
          BY <4>2, <2>1, <2>7
        <5> QED  BY <5>1, <3>2, <2>6
      <4> QED  BY <4>1, <4>2, <3>2, <2>1
    <3> QED  BY <3>1, <3>2
  <2> QED  BY <2>2, <2>5, <2>9, <2>10 DEF q
<1> QED  BY <1>1, <1>2

\* A turn stays one when a field of it changes.
LEMMA TurnFields ==
  ASSUME NEW r \in Turns
  PROVE  /\ \A v \in Stages : [r EXCEPT !.stage = v] \in Turns
         /\ \A v \in BOOLEAN : [r EXCEPT !.claimed = v] \in Turns
         /\ \A v \in Nat : [r EXCEPT !.token = v] \in Turns
         /\ \A v \in {"none", "canceled", "failed"} : [r EXCEPT !.cancel = v] \in Turns
         /\ \A v \in Nat \X Nat : [r EXCEPT !.asked = v] \in Turns
         /\ \A v \in BOOLEAN : [r EXCEPT !.kill = v] \in Turns
         /\ \A v \in Seq(Disks) : [r EXCEPT !.backup = v] \in Turns
         /\ \A v \in SUBSET Clients : [r EXCEPT !.waiters = v] \in Turns
BY DEF Turns

\* The fields of a turn.
LEMMA TurnParts ==
  ASSUME NEW r \in Turns
  PROVE  /\ r.stage \in Stages /\ r.claimed \in BOOLEAN /\ r.token \in Nat
         /\ r.cancel \in {"none", "canceled", "failed"} /\ r.asked \in Nat \X Nat
         /\ r.kill \in BOOLEAN /\ r.backup \in Seq(Disks) /\ r.waiters \in SUBSET Clients
BY DEF Turns

\* The fields of a client that others are found by.
LEMMA ClientParts ==
  ASSUME client \in [Clients -> Commands], NEW c \in Clients
  PROVE  Session(c) \in Sessions /\ client[c].pinned \in Nat
BY DEF Commands, Session

\* Whatever a `cancel` makes of a turn is a turn (daemon.py's _cancel).
LEMMA Canceling ==
  ASSUME turn \in [Clients -> Turns], NEW x \in Clients, NEW pin \in Nat
  PROVE  CancelOf(x, pin) \in Turns
<1> DEFINE r == turn[x]
           r1 == [r EXCEPT !.cancel = IF @ = "none" THEN "canceled" ELSE @]
           r2 == [r1 EXCEPT !.asked = IF r.cancel = "none" THEN <<pin, r.token>> ELSE @]
           r3 == [r2 EXCEPT !.kill = @ \/ (Preparing(x) /\ (~r.claimed \/ Deferred(x)))]
<1>1. r \in Turns
  OBVIOUS
<1>2. r1 \in Turns
  BY <1>1 DEF Turns
<1>3. r2 \in Turns
  BY <1>1, <1>2 DEF Turns
<1>4. r3 \in Turns
  <2>1. r2.kill \in BOOLEAN
    BY <1>3 DEF Turns
  <2>2. (Preparing(x) /\ (~r.claimed \/ Deferred(x))) \in BOOLEAN
    BY DEF Preparing, Deferred
  <2> HIDE DEF r2
  <2>3. (r2.kill \/ (Preparing(x) /\ (~r.claimed \/ Deferred(x)))) \in BOOLEAN
    OBVIOUS
  <2> QED  BY <1>3, <2>3 DEF Turns
<1>5. CancelOf(x, pin) \in {r, r3}
  BY DEF CancelOf
<1> QED  BY <1>1, <1>4, <1>5

\* ... what its end makes of it (_finish) ...
LEMMA Leaving ==
  ASSUME turn \in [Clients -> Turns], NEW c \in Clients
  PROVE  Leaves(c, "ended") \in [Clients -> Turns]
<1> SUFFICES ASSUME NEW x \in Clients PROVE Leaves(c, "ended")[x] \in Turns
  BY DEF Leaves
<1> DEFINE popped == IF x = table[Session(c)] THEN [turn[x] EXCEPT !.waiters = {}] ELSE turn[x]
<1>1. popped \in Turns
  BY TurnFields
<1>2. [popped EXCEPT !.stage = "ended"] \in Turns
  BY <1>1, TurnFields DEF Stages
<1>3. [[popped EXCEPT !.stage = "ended"] EXCEPT !.kill = FALSE] \in Turns
  BY <1>2, TurnFields
<1> HIDE DEF popped
<1>4. Leaves(c, "ended")[x] = IF x = c THEN [[popped EXCEPT !.stage = "ended"] EXCEPT !.kill = FALSE] ELSE popped
  BY DEF Leaves, popped
<1> QED  BY <1>1, <1>3, <1>4

\* ... and what the end of a failed start makes of it.
LEMMA Stopping ==
  ASSUME turn \in [Clients -> Turns], NEW c \in Clients, NEW v \in Stages
  PROVE  [turn EXCEPT ![c].stage = v, ![c].kill = FALSE] \in [Clients -> Turns]
<1>1. [turn[c] EXCEPT !.stage = v] \in Turns
  BY TurnFields
<1>2. [[turn[c] EXCEPT !.stage = v] EXCEPT !.kill = FALSE] \in Turns
  BY <1>1, TurnFields
<1> QED  BY <1>2

\* The fields of a client.
LEMMA ClientMembers ==
  ASSUME Types, NEW w \in Clients
  PROVE  /\ client[w] \in Commands /\ client[w].pc \in Pcs /\ client[w].pinned \in Nat
         /\ client[w].interrupted \in BOOLEAN /\ Session(w) \in Sessions
         /\ client[w].command \in {"run", "continue", "wait", "cancel"}
         /\ Session(w) = client[w].session
BY DEF Types, Commands, Session

\* What the waiters of turn y learn (_resolve_waiters): where they get to, and
\* nothing else of them.
LEMMA Telling ==
  ASSUME Types, NEW y \in Clients \cup {None}, NEW e \in BOOLEAN, NEW w \in Clients
  PROVE  /\ Told(y, e)[w] \in Commands
         /\ Told(y, e)[w].command = client[w].command
         /\ Told(y, e)[w].session = client[w].session
         /\ Told(y, e)[w].pinned = client[w].pinned
         /\ Told(y, e)[w].interrupted = client[w].interrupted
         /\ Told(y, e)[w].pc = IF y # None /\ w \in turn[y].waiters
                              THEN AfterOutcome(w, e) ELSE client[w].pc
<1> DEFINE q == [client[w] EXCEPT !.pc = AfterOutcome(w, e)]
<1>1. Told(y, e)[w] = IF y # None /\ w \in turn[y].waiters THEN q ELSE client[w]
  BY DEF Told
<1>2. AfterOutcome(w, e) \in Pcs
  BY DEF AfterOutcome, Pcs
<1>3. /\ q \in Commands /\ q.pc = AfterOutcome(w, e) /\ q.command = client[w].command
      /\ q.session = client[w].session /\ q.pinned = client[w].pinned
      /\ q.interrupted = client[w].interrupted
  BY <1>2, ClientMembers DEF Commands
<1> HIDE DEF q
<1> QED  BY <1>1, <1>3, ClientMembers

\* What a finalization makes of meta.json (runner._finalize).
LEMMA Finalizing ==
  ASSUME NEW d \in Disks, NEW v \in States, NEW n \in Nat
  PROVE  /\ Finalized(d, v, n) \in Disks
         /\ Finalized(d, v, n).turns = d.turns
         /\ Finalized(d, v, n).state =
                IF d.state \in {"starting", "running"} /\ n \in {0, d.turns} THEN v ELSE d.state
BY DEF Finalized, Disks

\* What a rollback restores is a meta.json.
LEMMA Restoring ==
  ASSUME Types, NEW c \in Clients
  PROVE  RolledBack(c) \in Disks /\ disk[Session(c)] \in Disks /\ Session(c) \in Sessions
<1>1. disk[Session(c)] \in Disks /\ Session(c) \in Sessions
  BY ClientParts DEF Types
<1>2. turn[c].backup \in Seq(Disks)
  BY TurnParts DEF Types
<1>3. turn[c].backup # <<>> => turn[c].backup[1] \in Disks
  BY <1>2
<1> QED  BY <1>1, <1>3 DEF RolledBack

\* Each update of the turns the model makes, field by field: the next stage,
LEMMA StagedEdit ==
  ASSUME Types, NEW c \in Clients, NEW v \in Stages, turn' = [turn EXCEPT ![c].stage =
        v]
  PROVE  Staged(c, v)
BY SMTT(30) DEF Types, Turns, Staged

\* a coroutine that ends without answering,
LEMMA StoppedEdit ==
  ASSUME Types, NEW c \in Clients, NEW v \in Stages, turn' = [turn EXCEPT ![c].stage =
        v, ![c].kill = FALSE]
  PROVE  Stopped(c, v)
<1> SUFFICES ASSUME NEW x \in Clients
             PROVE  turn'[x] = IF x = c THEN [[turn[c] EXCEPT !.stage = v] EXCEPT !.kill = FALSE]
                               ELSE turn[x]
  BY SMTT(30) DEF Types, Turns, Stopped
<1> QED  BY DEF Types

\* a preparation that is over,
LEMMA PreparedEdit ==
  ASSUME Types, NEW c \in Clients, NEW v \in Stages, turn' = [turn EXCEPT ![c].stage =
        v, ![c].backup = <<>>]
  PROVE  Prepared(c, v)
BY SMTT(30) DEF Types, Turns, Prepared

\* a start that enters the table,
LEMMA EnteredEdit ==
  ASSUME Types, NEW c \in Clients, turn' = Registered(c)
  PROVE  Entered(c)
<1> DEFINE B == IF Deferred(c) THEN <<disk[Session(c)]>> ELSE <<>>
<1> DEFINE q == [[turn[c] EXCEPT !.stage = "ensuring"] EXCEPT !.backup = B]
<1>1. ASSUME NEW x \in Clients PROVE turn'[x] = IF x = c THEN q ELSE turn[x]
  BY DEF Types, Registered
<1>2. turn[c] \in Turns
  BY DEF Types
<1> HIDE DEF B
<1>3. /\ q.stage = "ensuring" /\ q.backup = B /\ q.waiters = turn[c].waiters
      /\ q.claimed = turn[c].claimed /\ q.token = turn[c].token /\ q.cancel = turn[c].cancel
      /\ q.asked = turn[c].asked /\ q.kill = turn[c].kill
  BY <1>2 DEF Turns
<1> HIDE DEF q
<1>4. \A x \in Clients :
        /\ turn'[x].stage = IF x = c THEN "ensuring" ELSE turn[x].stage
        /\ turn'[x].claimed = turn[x].claimed
        /\ turn'[x].token = turn[x].token
        /\ turn'[x].cancel = turn[x].cancel
        /\ turn'[x].asked = turn[x].asked
        /\ turn'[x].kill = turn[x].kill
        /\ turn'[x].backup = IF x # c THEN turn[x].backup ELSE B
        /\ turn'[x].waiters = turn[x].waiters
  BY <1>1, <1>3
<1> QED  BY <1>4 DEF Entered, B

\* the claim,
LEMMA ClaimingEdit ==
  ASSUME Types, NEW c \in Clients, turn' = [turn EXCEPT ![c].stage = "accepted",
        ![c].claimed = TRUE, ![c].token = disk[Session(c)].turns]
  PROVE  Claiming(c)
<1> SUFFICES ASSUME NEW x \in Clients
             PROVE  turn'[x] = IF x = c THEN [[[turn[c] EXCEPT !.stage = "accepted"]
                                                EXCEPT !.claimed = TRUE]
                                                EXCEPT !.token = disk[Session(c)].turns]
                               ELSE turn[x]
  BY SMTT(30) DEF Types, Turns, Claiming
<1> QED  BY DEF Types

\* _finish,
LEMMA LeftEdit ==
  ASSUME Types, NEW c \in Clients, turn' = Leaves(c, "ended")
  PROVE  Left(c)
<1> SUFFICES ASSUME NEW x \in Clients
             PROVE  /\ turn'[x].stage = IF x = c THEN "ended" ELSE turn[x].stage
                    /\ turn'[x].claimed = turn[x].claimed
                    /\ turn'[x].token = turn[x].token
                    /\ turn'[x].cancel = turn[x].cancel
                    /\ turn'[x].asked = turn[x].asked
                    /\ turn'[x].kill <=> x # c /\ turn[x].kill
                    /\ turn'[x].backup = turn[x].backup
                    /\ turn'[x].waiters = IF x = table[Session(c)] THEN {} ELSE turn[x].waiters
  BY DEF Left
<1> DEFINE popped == IF x = table[Session(c)] THEN [turn[x] EXCEPT !.waiters = {}] ELSE turn[x]
           stopped == [[popped EXCEPT !.stage = "ended"] EXCEPT !.kill = FALSE]
<1>1. turn'[x] = IF x = c THEN stopped ELSE popped
  BY DEF Leaves
<1>2. popped \in Turns
  BY TurnFields DEF Types
<1>3. /\ popped.stage = turn[x].stage /\ popped.claimed = turn[x].claimed
      /\ popped.token = turn[x].token /\ popped.cancel = turn[x].cancel
      /\ popped.asked = turn[x].asked /\ popped.kill = turn[x].kill
      /\ popped.backup = turn[x].backup
      /\ popped.waiters = IF x = table[Session(c)] THEN {} ELSE turn[x].waiters
  BY DEF Types, Turns
<1> HIDE DEF popped
<1>4. /\ stopped.stage = "ended" /\ stopped.claimed = popped.claimed
      /\ stopped.token = popped.token /\ stopped.cancel = popped.cancel
      /\ stopped.asked = popped.asked /\ stopped.kill = FALSE
      /\ stopped.backup = popped.backup /\ stopped.waiters = popped.waiters
  BY <1>2 DEF Turns
<1> HIDE DEF stopped
<1> QED  BY <1>1, <1>2, <1>3, <1>4

\* the shutdown that ends a turn,
LEMMA ClosedEdit ==
  ASSUME Types, NEW c \in Clients, turn' = [turn EXCEPT ![c].waiters = {}, ![c].stage =
        "ended"]
  PROVE  Closed(c)
BY SMTT(30) DEF Types, Turns, Closed

\* the task.cancel() of the event loop,
LEMMA ShotEdit ==
  ASSUME Types, NEW c \in Clients, turn' = [turn EXCEPT ![c].kill = TRUE]
  PROVE  Shot(c)
BY SMTT(30) DEF Types, Turns, Shot

\* that of the shutdown,
LEMMA StruckEdit ==
  ASSUME Types, NEW c \in Clients, turn' = [turn EXCEPT ![c].cancel = IF @ = "none" THEN
        "failed" ELSE @, ![c].kill = TRUE]
  PROVE  Struck(c)
BY SMTT(30) DEF Types, Turns, Struck

\* a waiter that joins,
LEMMA JoinedEdit ==
  ASSUME Types, NEW y \in Clients, NEW w \in Clients, turn' = [turn EXCEPT ![y].waiters
        = @ \cup {w}]
  PROVE  Joined(y, w)
<1> DEFINE W == turn[y].waiters \cup {w}
           r == [turn[y] EXCEPT !.waiters = W]
<1>1. \A x \in Clients : turn'[x] = IF x = y THEN r ELSE turn[x]
  BY DEF Types
<1> HIDE DEF W
<1>2. /\ r.stage = turn[y].stage /\ r.claimed = turn[y].claimed /\ r.token = turn[y].token
      /\ r.cancel = turn[y].cancel /\ r.asked = turn[y].asked /\ r.kill = turn[y].kill
      /\ r.backup = turn[y].backup /\ r.waiters = W
  BY DEF Types, Turns
<1> HIDE DEF r
<1> QED  BY <1>1, <1>2 DEF Joined, W

\* a waiter that goes,
LEMMA PartedEdit ==
  ASSUME Types, NEW w \in Clients, turn' = [x \in Clients |-> [turn[x] EXCEPT !.waiters
        = @ \ {w}]]
  PROVE  Parted(w)
BY DEF Types, Turns, Parted

\* and a cancellation.
LEMMA CanceledAsEdit ==
  ASSUME Types, NEW y \in Clients, NEW pin \in Nat, turn' = [turn EXCEPT ![y] =
        CancelOf(y, pin)]
  PROVE  CanceledAs(y, pin)
<1> DEFINE r == turn[y]
           r1 == [r EXCEPT !.cancel = IF r.cancel = "none" THEN "canceled" ELSE r.cancel]
           r2 == [r1 EXCEPT !.asked = IF r.cancel = "none" THEN <<pin, r.token>> ELSE r.asked]
           k == r.kill \/ (Preparing(y) /\ (~r.claimed \/ Deferred(y)))
           r3 == [r2 EXCEPT !.kill = k]
<1>1. r \in Turns
  BY DEF Types
<1>2. /\ r1 \in Turns /\ r1.cancel = IF r.cancel = "none" THEN "canceled" ELSE r.cancel
      /\ r1.stage = r.stage /\ r1.claimed = r.claimed /\ r1.token = r.token
      /\ r1.asked = r.asked /\ r1.kill = r.kill /\ r1.backup = r.backup
      /\ r1.waiters = r.waiters
  BY <1>1 DEF Turns
<1>3. CancelOf(y, pin) = IF OtherTurn(y, pin) THEN r ELSE r3
  BY <1>1, <1>2 DEF CancelOf, Turns
<1> HIDE DEF r1
<1>4. /\ r2 \in Turns /\ r2.asked = IF r.cancel = "none" THEN <<pin, r.token>> ELSE r.asked
      /\ r2.stage = r1.stage /\ r2.claimed = r1.claimed /\ r2.token = r1.token
      /\ r2.cancel = r1.cancel /\ r2.kill = r1.kill /\ r2.backup = r1.backup
      /\ r2.waiters = r1.waiters
  BY <1>1, <1>2 DEF Turns
<1> HIDE DEF r2, k
<1>5. /\ r3.kill = k
      /\ r3.stage = r2.stage /\ r3.claimed = r2.claimed /\ r3.token = r2.token
      /\ r3.cancel = r2.cancel /\ r3.asked = r2.asked /\ r3.backup = r2.backup
      /\ r3.waiters = r2.waiters
  BY <1>4 DEF Turns
<1> HIDE DEF r3
<1>6. \A x \in Clients : turn'[x] = IF x = y /\ ~OtherTurn(y, pin) THEN r3 ELSE turn[x]
  BY <1>3 DEF Types
<1> SUFFICES ASSUME NEW x \in Clients
             PROVE  CanceledFields(x, y, pin)
  BY DEF CanceledAs, CanceledFields
<1>7. CASE x = y /\ ~OtherTurn(y, pin)
  <2>1. turn'[x] = r3
    BY <1>6, <1>7
  <2> QED  BY <2>1, <1>2, <1>4, <1>5, <1>7 DEF k, CanceledFields
<1>8. CASE ~(x = y /\ ~OtherTurn(y, pin))
  <2>1. turn'[x] = turn[x]
    BY <1>6, <1>8
  <2> QED  BY <2>1, <1>8 DEF CanceledFields
<1> QED  BY <1>7, <1>8

\* Each update of the clients, likewise: a step of the client's own,
LEMMA SpokeEdit ==
  ASSUME Types, NEW c \in Clients, NEW v \in Pcs, client' = [client EXCEPT ![c].pc = v]
  PROVE  client' \in [Clients -> Commands] /\ Spoke(c, v)
<1> DEFINE q == [client[c] EXCEPT !.pc = v]
<1>1. client' = [w \in Clients |-> IF w = c THEN q ELSE client[w]]
  BY DEF Types
<1>2. /\ q \in Commands /\ q.pc = v /\ q.command = client[c].command
      /\ q.session = client[c].session /\ q.pinned = client[c].pinned
      /\ q.interrupted = client[c].interrupted
  BY ClientMembers DEF Commands, Pcs
<1> HIDE DEF q
<1> QED  BY <1>1, <1>2 DEF Types, Spoke

\* its first one,
LEMMA BeganEdit ==
  ASSUME Types, NEW c \in Clients, NEW v \in Pcs, disk'[Session(c)].turns \in Nat,
        client' = [client EXCEPT ![c].pc = v, ![c].pinned = disk'[Session(c)].turns]
  PROVE  client' \in [Clients -> Commands] /\ Began(c, v)
<1> DEFINE p == [client[c] EXCEPT !.pc = v]
           q == [p EXCEPT !.pinned = disk'[Session(c)].turns]
<1>1. client' = [w \in Clients |-> IF w = c THEN q ELSE client[w]]
  BY DEF Types
<1>0. /\ p \in Commands /\ p.pc = v /\ p.command = client[c].command
      /\ p.session = client[c].session /\ p.pinned = client[c].pinned
      /\ p.interrupted = client[c].interrupted
  BY ClientMembers DEF Commands, Pcs
<1> HIDE DEF p
<1>2. /\ q \in Commands /\ q.pc = v /\ q.command = client[c].command
      /\ q.session = client[c].session /\ q.pinned = disk'[Session(c)].turns
      /\ q.interrupted = client[c].interrupted
  BY <1>0, ClientMembers DEF Commands, Pcs
<1> HIDE DEF q
<1> QED  BY ZenonT(30), <1>1, <1>2 DEF Types, Began

\* Ctrl-C,
LEMMA BrokeEdit ==
  ASSUME Types, NEW c \in Clients, client' = [client EXCEPT ![c].interrupted = TRUE,
        ![c].pc = IF @ = "starting" THEN "left" ELSE @]
  PROVE  client' \in [Clients -> Commands] /\ Broke(c)
<1> DEFINE p == [client[c] EXCEPT !.interrupted = TRUE]
           q == [p EXCEPT !.pc = IF p.pc = "starting" THEN "left" ELSE p.pc]
<1>1. client' = [w \in Clients |-> IF w = c THEN q ELSE client[w]]
  BY DEF Types
<1>0. /\ p \in Commands /\ p.pc = client[c].pc /\ p.command = client[c].command
      /\ p.session = client[c].session /\ p.pinned = client[c].pinned
      /\ p.interrupted = TRUE
  BY ClientMembers DEF Commands, Pcs
<1> HIDE DEF p
<1>2. /\ q \in Commands /\ q.pc = (IF client[c].pc = "starting" THEN "left" ELSE client[c].pc) /\ q.command = client[c].command
      /\ q.session = client[c].session /\ q.pinned = client[c].pinned
      /\ q.interrupted = TRUE
  BY <1>0, ClientMembers DEF Commands, Pcs
<1> HIDE DEF q
<1> QED  BY <1>1, <1>2 DEF Types, Broke

\* the reply to a `start`,
LEMMA ReachedEdit ==
  ASSUME Types, NEW c \in Clients, NEW v \in Pcs, client' = Replied(client, c, v)
  PROVE  client' \in [Clients -> Commands] /\ Reached(c, v)
<1> DEFINE q == IF client[c].pc \in {"sending", "starting"} THEN [client[c] EXCEPT !.pc = v]
                ELSE client[c]
<1>1. client' = [w \in Clients |-> IF w = c THEN q ELSE client[w]]
  BY DEF Types, Replied
<1>2. /\ q \in Commands /\ q.pc = (IF client[c].pc \in {"sending", "starting"} THEN v ELSE client[c].pc) /\ q.command = client[c].command
      /\ q.session = client[c].session /\ q.pinned = client[c].pinned
      /\ q.interrupted = client[c].interrupted
  BY ClientMembers DEF Commands, Pcs
<1> HIDE DEF q
<1> QED  BY <1>1, <1>2 DEF Types, Reached

\* an outcome,
LEMMA LearnedEdit ==
  ASSUME Types, NEW c \in Clients, NEW y \in Clients \cup {None}, NEW e \in BOOLEAN,
        client' = Told(y, e)
  PROVE  client' \in [Clients -> Commands] /\ Learned(y, e)
<1>1. ASSUME NEW w \in Clients
      PROVE  /\ client'[w] \in Commands
             /\ client'[w].command = client[w].command
             /\ client'[w].session = client[w].session
             /\ client'[w].pinned = client[w].pinned
             /\ client'[w].interrupted = client[w].interrupted
             /\ client'[w].pc = IF y # None /\ w \in turn[y].waiters
                              THEN AfterOutcome(w, e) ELSE client[w].pc
  BY Telling
<1>2. client' = [w \in Clients |-> client'[w]]
  BY DEF Told
<1> QED  BY <1>1, <1>2 DEF Learned

\* and an outcome together with a reply.
LEMMA HeardEdit ==
  ASSUME Types, NEW c \in Clients, NEW y \in Clients \cup {None}, NEW e \in BOOLEAN, NEW
        v \in Pcs, client' = Replied(Told(y, e), c, v)
  PROVE  client' \in [Clients -> Commands] /\ Heard(y, e, c, v)
<1> DEFINE k == Told(y, e)
<1>1. /\ k \in [Clients -> Commands]
      /\ \A w \in Clients :
            /\ k[w].command = client[w].command /\ k[w].session = client[w].session
            /\ k[w].pinned = client[w].pinned /\ k[w].interrupted = client[w].interrupted
            /\ k[w].pc = IF y # None /\ w \in turn[y].waiters THEN AfterOutcome(w, e)
                        ELSE client[w].pc
  <2>1. ASSUME NEW w \in Clients
        PROVE  /\ k[w] \in Commands
               /\ k[w].command = client[w].command /\ k[w].session = client[w].session
               /\ k[w].pinned = client[w].pinned /\ k[w].interrupted = client[w].interrupted
               /\ k[w].pc = IF y # None /\ w \in turn[y].waiters THEN AfterOutcome(w, e)
                           ELSE client[w].pc
    BY Telling, ClientMembers
  <2>2. k = [w \in Clients |-> k[w]]
    BY DEF Told
  <2> QED  BY <2>1, <2>2
<1> HIDE DEF k
<1> DEFINE q == IF k[c].pc \in {"sending", "starting"} THEN [k[c] EXCEPT !.pc = v] ELSE k[c]
<1>2. client' = [w \in Clients |-> IF w = c THEN q ELSE k[w]]
  BY <1>1 DEF Replied, k
<1>3. /\ q \in Commands /\ q.command = k[c].command /\ q.session = k[c].session
      /\ q.pinned = k[c].pinned /\ q.interrupted = k[c].interrupted
      /\ q.pc = IF k[c].pc \in {"sending", "starting"} THEN v ELSE k[c].pc
  BY <1>1 DEF Commands
<1> HIDE DEF q
<1>4. AfterOutcome(c, e) \notin {"sending", "starting"}
  BY DEF AfterOutcome
<1> QED  BY <1>1, <1>2, <1>3, <1>4 DEF Heard

\* A finalization of meta.json.
LEMMA EndedEdit ==
  ASSUME Types, NEW s \in Sessions, NEW v \in States, NEW n \in Nat,
         disk' = [disk EXCEPT ![s] = Finalized(disk[s], v, n)]
  PROVE  Ended(s, v, n) /\ disk' \in [Sessions -> Disks]
<1>1. disk[s] \in Disks
  BY DEF Types
<1>2. /\ Finalized(disk[s], v, n) \in Disks
      /\ Finalized(disk[s], v, n).turns = disk[s].turns
      /\ Finalized(disk[s], v, n).state =
            IF disk[s].state \in {"starting", "running"} /\ n \in {0, disk[s].turns}
            THEN v ELSE disk[s].state
  BY <1>1, Finalizing
<1> QED  BY <1>2 DEF Types, Ended, Active

\* _finish as a whole ...
LEMMA FinishEdit ==
  ASSUME Types, NEW c \in Clients, NEW e \in BOOLEAN, Finish(c, e)
  PROVE  Finishes(c, e) /\ client' \in [Clients -> Commands]
<1>1. Session(c) \in Sessions /\ table[Session(c)] \in Clients \cup {None}
  BY ClientMembers DEF Types
<1>2. TableAt(Session(c), None)
  BY <1>1 DEF Finish, Popped, TableAt, Types
<1>3. Left(c)
  BY LeftEdit DEF Finish
<1>4. Heard(table[Session(c)], e, c, "failing") /\ client' \in [Clients -> Commands]
  BY <1>1, HeardEdit DEF Finish, Pcs
<1> QED  BY <1>2, <1>3, <1>4 DEF Finish, Finishes

\* ... and the end of a failed start.
LEMMA StartFailsEdit ==
  ASSUME Types, NEW c \in Clients, StartFails(c)
  PROVE  /\ IF Deferred(c) THEN DiskAt(Session(c), RolledBack(c))
                           ELSE Ended(Session(c), "failed", 0)
         /\ disk' \in [Sessions -> Disks]
         /\ TableAt(Session(c), None)
         /\ Stopped(c, "refused")
         /\ Reached(c, "done") \/ Reached(c, "failing")
         /\ ~Deferred(c) => Reached(c, "failing")
         /\ client' \in [Clients -> Commands]
         /\ UNCHANGED queue
<1>1. Session(c) \in Sessions
  BY ClientMembers
<1>2. TableAt(Session(c), None)
  BY <1>1 DEF StartFails, Popped, TableAt, Types
<1>3. Stopped(c, "refused")
  BY StoppedEdit DEF StartFails, Stages
<1>4. /\ Reached(c, "done") \/ Reached(c, "failing")
      /\ ~Deferred(c) => Reached(c, "failing")
      /\ client' \in [Clients -> Commands]
  BY ReachedEdit DEF StartFails, AfterRefusal, Pcs
<1>5. CASE Deferred(c)
  <2>1. disk' = [disk EXCEPT ![Session(c)] = RolledBack(c)]
    BY <1>5 DEF StartFails, Unclaimed
  <2>2. DiskAt(Session(c), RolledBack(c)) /\ disk' \in [Sessions -> Disks]
    BY <1>1, <2>1, Restoring DEF DiskAt, Types
  <2> QED  BY <1>5, <2>2, <1>2, <1>3, <1>4 DEF StartFails
<1>6. CASE ~Deferred(c)
  <2>1. disk' = [disk EXCEPT ![Session(c)] = Finalized(disk[Session(c)], "failed", 0)]
    BY <1>6 DEF StartFails, Unclaimed
  <2>2. Ended(Session(c), "failed", 0) /\ disk' \in [Sessions -> Disks]
    BY <1>1, <2>1, EndedEdit DEF States
  <2> QED  BY <1>6, <2>2, <1>2, <1>3, <1>4 DEF StartFails
<1> QED  BY <1>5, <1>6

\* No step makes anything but a turn of a turn ...
LEMMA TurnTypes ==
  ASSUME Types, DaemonNext PROVE (turn \in [Clients -> Turns])'
<1> USE DaemonAssumption, TurnFields, TurnParts DEF Types, Stages
<1>1. ASSUME NEW c \in Clients, Run(c) PROVE (turn \in [Clients -> Turns])'
  BY <1>1 DEF Run, Begins
<1>2. ASSUME NEW c \in Clients, Continue(c) PROVE (turn \in [Clients -> Turns])'
  BY <1>2 DEF Continue, Begins
<1>3. ASSUME NEW c \in Clients, Observe(c) PROVE (turn \in [Clients -> Turns])'
  BY <1>3 DEF Observe, Begins
<1>4. ASSUME NEW c \in Clients, Detach(c) PROVE (turn \in [Clients -> Turns])'
  BY <1>4 DEF Detach
<1>5. ASSUME NEW c \in Clients, FinalizeFailed(c) PROVE (turn \in [Clients -> Turns])'
  BY <1>5 DEF FinalizeFailed
<1>6. ASSUME NEW c \in Clients, ConnectionLost(c) PROVE (turn \in [Clients -> Turns])'
  BY <1>6 DEF ConnectionLost, AfterOutcome
<1>7. ASSUME NEW c \in Clients, Start(c) PROVE (turn \in [Clients -> Turns])'
  <2>1. Session(c) \in Sessions
    BY ClientMembers
  <2>0. disk[Session(c)] \in Disks
    BY <2>1
  <2>2. <<disk[Session(c)]>> \in Seq(Disks) /\ <<>> \in Seq(Disks)
    BY <2>0
  <2>3. Registered(c) \in [Clients -> Turns]
    BY <2>2 DEF Registered
  <2> QED  BY <1>7, <2>3 DEF Start
<1>8. ASSUME NEW c \in Clients, Ensure(c) PROVE (turn \in [Clients -> Turns])'
  BY <1>8 DEF Ensure
<1>9. ASSUME NEW c \in Clients, Ensured(c) PROVE (turn \in [Clients -> Turns])'
  <2>1. disk[Session(c)].turns \in Nat
    BY ClientMembers DEF Disks
  <2>2. CASE StartFails(c)
    BY <2>2 DEF StartFails
  <2>3. CASE turn' = [turn EXCEPT ![c].stage = "accepted", ![c].claimed = TRUE,
                                  ![c].token = disk[Session(c)].turns]
    <3>1. [turn[c] EXCEPT !.stage = "accepted"] \in Turns
      OBVIOUS
    <3>2. [[turn[c] EXCEPT !.stage = "accepted"] EXCEPT !.claimed = TRUE] \in Turns
      BY <3>1
    <3>3. [[[turn[c] EXCEPT !.stage = "accepted"] EXCEPT !.claimed = TRUE]
                EXCEPT !.token = disk[Session(c)].turns] \in Turns
      BY <3>2, <2>1
    <3> QED  BY <2>3, <3>3
  <2> QED  BY <1>9, <2>2, <2>3 DEF Ensured, Claims
<1>10. ASSUME NEW c \in Clients, EnsureFails(c) PROVE (turn \in [Clients -> Turns])'
  BY ZenonT(30), <1>10 DEF EnsureFails, StartFails, Popped,
    Replied, AfterRefusal
<1>11. ASSUME NEW c \in Clients, Await(c) PROVE (turn \in [Clients -> Turns])'
  <2>1. turn' = turn \/ \E x \in Clients : turn' = [turn EXCEPT ![x].waiters = @ \cup {c}]
    BY <1>11, ClientMembers DEF Await
  <2>2. ASSUME NEW x \in Clients
        PROVE  [turn EXCEPT ![x].waiters = @ \cup {c}] \in [Clients -> Turns]
    <3>1. turn[x].waiters \cup {c} \in SUBSET Clients
      OBVIOUS
    <3>2. [turn[x] EXCEPT !.waiters = turn[x].waiters \cup {c}] \in Turns
      BY <3>1
    <3> QED  BY <3>2
  <2>3. CASE turn' = turn
    BY <2>3
  <2>4. CASE \E x \in Clients : turn' = [turn EXCEPT ![x].waiters = @ \cup {c}]
    <3> PICK x \in Clients : turn' = [turn EXCEPT ![x].waiters = @ \cup {c}]
      BY <2>4
    <3>1. [turn EXCEPT ![x].waiters = @ \cup {c}] \in [Clients -> Turns]
      BY <2>2
    <3> QED  BY <3>1
  <2> QED  BY <2>1, <2>3, <2>4
<1>12. ASSUME NEW c \in Clients, Cancel(c) PROVE (turn \in [Clients -> Turns])'
  <2>1. table[Session(c)] # None => table[Session(c)] \in Clients
    BY ClientMembers
  <2>0. client[c].pinned \in Nat
    BY ClientMembers
  <2>2. ASSUME NEW x \in Clients
        PROVE  [turn EXCEPT ![x] = CancelOf(x, client[c].pinned)] \in [Clients -> Turns]
    BY Canceling, <2>0
  <2>3. CASE table[Session(c)] = None
    BY <1>12, <2>3 DEF Cancel
  <2>4. CASE table[Session(c)] # None
    <3>1. turn' = [turn EXCEPT ![table[Session(c)]] = CancelOf(table[Session(c)], client[c].pinned)]
      BY <1>12, <2>4 DEF Cancel
    <3> QED  BY <3>1, <2>1, <2>2, <2>4
  <2> QED  BY <2>3, <2>4
<1>13. ASSUME NEW c \in Clients, Interrupt(c) PROVE (turn \in [Clients -> Turns])'
  <2>1. table[Session(c)] # None => table[Session(c)] \in Clients
    BY ClientMembers
  <2>2. ASSUME NEW x \in Clients
        PROVE  [turn EXCEPT ![x] = CancelOf(x, 0)] \in [Clients -> Turns]
    BY Canceling
  <2> QED  BY <1>13, <2>1, <2>2 DEF Interrupt
<1>14. ASSUME NEW c \in Clients, TaskBegins(c) PROVE (turn \in [Clients -> Turns])'
  <2>1. EntersSlot(c) \in Stages
    BY DEF EntersSlot
  <2>2. \E v \in Stages : turn' = [turn EXCEPT ![c].stage = v]
    BY <1>14, <2>1 DEF TaskBegins
  <2> PICK v \in Stages : turn' = [turn EXCEPT ![c].stage = v]
    BY <2>2
  <2>3. [turn[c] EXCEPT !.stage = v] \in Turns
    OBVIOUS
  <2> QED  BY <2>3
<1>15. ASSUME NEW c \in Clients, Restored(c) PROVE (turn \in [Clients -> Turns])'
  <2>1. EntersSlot(c) \in Stages /\ <<>> \in Seq(Disks)
    BY DEF EntersSlot
  <2>2. [turn[c] EXCEPT !.stage = EntersSlot(c)] \in Turns
    BY <2>1
  <2>3. [[turn[c] EXCEPT !.stage = EntersSlot(c)] EXCEPT !.backup = <<>>] \in Turns
    BY <2>1, <2>2
  <2> QED  BY ZenonT(30), <1>15, <2>3 DEF Restored
<1>16. ASSUME NEW c \in Clients, RestoreFails(c) PROVE (turn \in [Clients -> Turns])'
  <2>1. Leaves(c, "ended") \in [Clients -> Turns]
    BY Leaving
  <2> QED  BY <1>16, <2>1 DEF RestoreFails, Finish
<1>17. ASSUME NEW c \in Clients, TakesSlot(c) PROVE (turn \in [Clients -> Turns])'
  BY <1>17 DEF TakesSlot, Free
<1>18. ASSUME NEW c \in Clients, Prompts(c) PROVE (turn \in [Clients -> Turns])'
  BY <1>18 DEF Prompts
<1>19. ASSUME NEW c \in Clients, Answers(c) PROVE (turn \in [Clients -> Turns])'
  <2>1. Leaves(c, "ended") \in [Clients -> Turns]
    BY Leaving
  <2> QED  BY <1>19, <2>1 DEF Answers, RunEnds, Finish
<1>20. ASSUME NEW c \in Clients, Fails(c) PROVE (turn \in [Clients -> Turns])'
  <2>1. Leaves(c, "ended") \in [Clients -> Turns]
    BY Leaving
  <2> QED  BY <1>20, <2>1 DEF Fails, RunEnds, Finish
<1>21. ASSUME NEW c \in Clients, KilledStarting(c)
     PROVE  (turn \in [Clients -> Turns])'
  <2>1. Leaves(c, "ended") \in [Clients -> Turns]
    BY Leaving
  <2>2. [turn EXCEPT ![c].stage = "refused", ![c].kill = FALSE] \in [Clients -> Turns]
    BY Stopping
  <2> QED  BY <1>21, <2>1, <2>2 DEF KilledStarting, StartFails
<1>22. ASSUME NEW c \in Clients, KilledUnstarted(c)
     PROVE  (turn \in [Clients -> Turns])'
  BY ZenonT(30), <1>22 DEF KilledUnstarted
<1>23. ASSUME NEW c \in Clients, KilledPreparing(c)
     PROVE  (turn \in [Clients -> Turns])'
  <2>1. Leaves(c, "ended") \in [Clients -> Turns]
    BY Leaving
  <2>2. [turn EXCEPT ![c].stage = "ended", ![c].kill = FALSE] \in [Clients -> Turns]
    BY Stopping
  <2> QED  BY <1>23, <2>1, <2>2 DEF KilledPreparing, Finish
<1>24. ASSUME NEW c \in Clients, KilledRunning(c) PROVE (turn \in [Clients -> Turns])'
  <2>1. Leaves(c, "ended") \in [Clients -> Turns]
    BY Leaving
  <2> QED  BY <1>24, <2>1 DEF KilledRunning, RunEnds, Finish
<1>25. ASSUME NEW c \in Clients, Strike(c) PROVE (turn \in [Clients -> Turns])'
  BY <1>25 DEF Strike
<1>26. ASSUME NEW c \in Clients, CloseTurn(c) PROVE (turn \in [Clients -> Turns])'
  BY <1>26 DEF CloseTurn, AfterOutcome
<1>27. ASSUME NEW c \in Clients, Abandon(c) PROVE (turn \in [Clients -> Turns])'
  BY <1>27 DEF Abandon
<1>28. ASSUME AdapterDies PROVE (turn \in [Clients -> Turns])'
  BY <1>28 DEF AdapterDies
<1>29. ASSUME Shutdown PROVE (turn \in [Clients -> Turns])'
  BY <1>29 DEF Shutdown, InTable
<1>30. ASSUME Clear PROVE (turn \in [Clients -> Turns])'
  BY <1>30 DEF Clear
<1>31. ASSUME Exit PROVE (turn \in [Clients -> Turns])'
  BY <1>31 DEF Exit
<1> QED
  BY <1>1, <1>2, <1>3, <1>4, <1>5, <1>6, <1>7, <1>8, <1>9, <1>10, <1>11, <1>12, <1>13,
    <1>14, <1>15, <1>16, <1>17, <1>18, <1>19, <1>20, <1>21, <1>22, <1>23, <1>24,
    <1>25, <1>26, <1>27, <1>28, <1>29, <1>30, <1>31 DEF DaemonNext, Runs

\* ... or anything odd of the table, the queue and the shutdown's list.
LEMMA OtherTypes ==
  ASSUME Types, Queueing, DaemonNext PROVE OthersTyped'
<1> USE DaemonAssumption, QueueLeft, ClientMembers DEF Types, OthersTyped
<1>1. ASSUME NEW c \in Clients, Run(c) PROVE OthersTyped'
  BY <1>1 DEF Run, Begins
<1>2. ASSUME NEW c \in Clients, Continue(c) PROVE OthersTyped'
  BY <1>2 DEF Continue, Begins
<1>3. ASSUME NEW c \in Clients, Observe(c) PROVE OthersTyped'
  BY <1>3 DEF Observe, Begins
<1>4. ASSUME NEW c \in Clients, Detach(c) PROVE OthersTyped'
  BY <1>4 DEF Detach
<1>5. ASSUME NEW c \in Clients, FinalizeFailed(c) PROVE OthersTyped'
  BY <1>5 DEF FinalizeFailed
<1>6. ASSUME NEW c \in Clients, ConnectionLost(c) PROVE OthersTyped'
  BY <1>6 DEF ConnectionLost
<1>7. ASSUME NEW c \in Clients, Start(c) PROVE OthersTyped'
  <2>1. table' = table \/ table' = [table EXCEPT ![Session(c)] = c]
    BY <1>7 DEF Start
  <2>3. table' \in [Sessions -> Clients \cup {None}]
    <3>1. CASE table' = table
      BY <3>1
    <3>2. CASE table' = [table EXCEPT ![Session(c)] = c]
      BY <3>2
    <3> QED  BY <2>1, <3>1, <3>2
  <2>2. UNCHANGED <<adapter, starting, queue, daemon, ending, known>>
    BY <1>7 DEF Start
  <2> QED  BY <2>3, <2>2
<1>8. ASSUME NEW c \in Clients, Ensure(c) PROVE OthersTyped'
  BY <1>8 DEF Ensure
<1>9. ASSUME NEW c \in Clients, Ensured(c) PROVE OthersTyped'
  BY <1>9 DEF Ensured, Claims, StartFails, Popped,
    Replied
<1>10. ASSUME NEW c \in Clients, EnsureFails(c) PROVE OthersTyped'
  BY <1>10 DEF EnsureFails, StartFails, Popped,
    Replied
<1>11. ASSUME NEW c \in Clients, Await(c) PROVE OthersTyped'
  BY <1>11 DEF Await, Serves
<1>12. ASSUME NEW c \in Clients, Cancel(c) PROVE OthersTyped'
  BY <1>12 DEF Cancel, Serves
<1>13. ASSUME NEW c \in Clients, Interrupt(c) PROVE OthersTyped'
  BY <1>13 DEF Interrupt, Serves
<1>14. ASSUME NEW c \in Clients, TaskBegins(c) PROVE OthersTyped'
  <2>1. queue' = queue \/ queue' = Append(queue, c)
    BY <1>14 DEF TaskBegins, Queued
  <2>2. UNCHANGED <<table, adapter, starting, daemon, ending, known>>
    BY <1>14 DEF TaskBegins
  <2>3. Append(queue, c) \in Seq(Clients)
    OBVIOUS
  <2>4. queue' \in Seq(Clients)
    BY <2>1, <2>3
  <2> QED  BY <2>2, <2>4
<1>15. ASSUME NEW c \in Clients, Restored(c) PROVE OthersTyped'
  BY <1>15 DEF Restored, EntersSlot, Queued
<1>16. ASSUME NEW c \in Clients, RestoreFails(c) PROVE OthersTyped'
  BY <1>16 DEF RestoreFails, Finish,
    Popped
<1>17. ASSUME NEW c \in Clients, TakesSlot(c) PROVE OthersTyped'
  <2>1. queue # <<>> /\ queue' = Tail(queue)
    BY <1>17 DEF TakesSlot, Queueing
  <2>2. UNCHANGED <<table, adapter, starting, daemon, ending, known>>
    BY <1>17 DEF TakesSlot
  <2> QED  BY <2>1, <2>2
<1>18. ASSUME NEW c \in Clients, Prompts(c) PROVE OthersTyped'
  BY <1>18 DEF Prompts
<1>19. ASSUME NEW c \in Clients, Answers(c) PROVE OthersTyped'
  BY <1>19 DEF Answers, RunEnds, Finish,
    Popped
<1>20. ASSUME NEW c \in Clients, Fails(c) PROVE OthersTyped'
  BY <1>20 DEF Fails, RunEnds, Finish,
    Popped
<1>21. ASSUME NEW c \in Clients, KilledStarting(c) PROVE OthersTyped'
  <2>1. table' = [table EXCEPT ![Session(c)] = None] /\ queue' = queue
    BY <1>21 DEF KilledStarting, StartFails, Popped
  <2>2. starting' \in Clients \cup {None} /\ UNCHANGED <<adapter, daemon, ending, known>>
    BY <1>21 DEF KilledStarting
  <2> QED  BY <2>1, <2>2
<1>22. ASSUME NEW c \in Clients, KilledUnstarted(c) PROVE OthersTyped'
  BY <1>22 DEF KilledUnstarted
<1>23. ASSUME NEW c \in Clients, KilledPreparing(c) PROVE OthersTyped'
  <2>1. table' = table \/ table' = [table EXCEPT ![Session(c)] = None]
    BY <1>23 DEF KilledPreparing, Finish, Popped
  <2>2. queue' = LeavesQueue(c)
    BY <1>23 DEF KilledPreparing, Finish
  <2>3. UNCHANGED <<adapter, starting, daemon, ending, known>>
    BY <1>23 DEF KilledPreparing
  <2> QED  BY <2>1, <2>2, <2>3
<1>24. ASSUME NEW c \in Clients, KilledRunning(c) PROVE OthersTyped'
  BY <1>24 DEF KilledRunning, RunEnds, Finish,
    LeavesQueue, Popped
<1>25. ASSUME NEW c \in Clients, Strike(c) PROVE OthersTyped'
  BY <1>25 DEF Strike
<1>26. ASSUME NEW c \in Clients, CloseTurn(c) PROVE OthersTyped'
  BY <1>26 DEF CloseTurn
<1>27. ASSUME NEW c \in Clients, Abandon(c) PROVE OthersTyped'
  BY <1>27 DEF Abandon
<1>28. ASSUME AdapterDies PROVE OthersTyped'
  BY <1>28 DEF AdapterDies
<1>29. ASSUME Shutdown PROVE OthersTyped'
  <2>1. ending' \in Seq(Clients) /\ \A i \in DOMAIN ending' : ending'[i] \in InTable
    BY <1>29, Listing DEF Shutdown
  <2>2. known' \in SUBSET Clients
    BY <1>29 DEF Shutdown, InTable
  <2>3. daemon' = "ending" /\ UNCHANGED <<table, adapter, starting, queue>>
    BY <1>29 DEF Shutdown
  <2> QED  BY <2>1, <2>2, <2>3
<1>30. ASSUME Clear PROVE OthersTyped'
  BY <1>30 DEF Clear
<1>31. ASSUME Exit PROVE OthersTyped'
  BY <1>31 DEF Exit
<1> QED
  BY <1>1, <1>2, <1>3, <1>4, <1>5, <1>6, <1>7, <1>8, <1>9, <1>10, <1>11, <1>12, <1>13,
    <1>14, <1>15, <1>16, <1>17, <1>18, <1>19, <1>20, <1>21, <1>22, <1>23, <1>24,
    <1>25, <1>26, <1>27, <1>28, <1>29, <1>30, <1>31 DEF DaemonNext, Runs

\* A step is an effect, and its sessions and clients keep their shape.
Effective == Effect /\ disk' \in [Sessions -> Disks] /\ client' \in [Clients -> Commands]

\* Every action of Daemon is one of the effects: this is where the records of
\* the model are taken apart, once for all the parts of the invariant.
LEMMA Effects ==
  ASSUME Types, Queueing, DaemonNext PROVE Effective
<1>1. ASSUME NEW c \in Clients, Run(c) PROVE Effective
  <2>1. DiskAt(Session(c), [turns |-> 1, state |-> "starting"]) /\ disk' \in [Sessions
    -> Disks]
    BY <1>1, ClientMembers DEF Run, DiskAt, Types, Disks, States
  <2>2. disk'[Session(c)].turns \in Nat
    BY <2>1, ClientMembers DEF Disks
  <2>3. Began(c, "sending") /\ client' \in [Clients -> Commands]
    BY <1>1, <2>2, BeganEdit DEF Run, Begins, Pcs
  <2>4. Creates(c)
    BY <1>1, <2>1, <2>2, <2>3 DEF Run, Begins, Creates
  <2> QED  BY <1>1, <2>1, <2>2, <2>3, <2>4 DEF Run, Begins, Effect, Effective
<1>2. ASSUME NEW c \in Clients, Continue(c) PROVE Effective
  <2>1. disk'[Session(c)].turns \in Nat /\ disk' = disk
    BY <1>2, ClientMembers DEF Continue, Types, Disks
  <2>2. Began(c, "sending") /\ client' \in [Clients -> Commands]
    BY <1>2, <2>1, BeganEdit DEF Continue, Begins, Pcs
  <2>3. Continues(c)
    BY <1>2, <2>1, <2>2 DEF Continue, Begins, Continues
  <2> QED  BY <1>2, <2>1, <2>2, <2>3 DEF Continue, Begins, Types, Effect, Effective
<1>3. ASSUME NEW c \in Clients, Observe(c) PROVE Effective
  <2>1. disk'[Session(c)].turns \in Nat /\ disk' = disk
    BY <1>3, ClientMembers DEF Observe, Types, Disks
  <2>2. Began(c, "asking") /\ client' \in [Clients -> Commands]
    BY <1>3, <2>1, BeganEdit DEF Observe, Begins, Pcs
  <2>3. Observes(c)
    BY <1>3, <2>1, <2>2 DEF Observe, Begins, Observes
  <2> QED  BY <1>3, <2>1, <2>2, <2>3 DEF Observe, Begins, Types, Effect, Effective
<1>4. ASSUME NEW c \in Clients, Detach(c) PROVE Effective
  <2>1. Spoke(c, "left") /\ client' \in [Clients -> Commands]
    BY <1>4, SpokeEdit DEF Detach, Pcs
  <2>2. Parted(c)
    BY <1>4, PartedEdit DEF Detach
  <2>3. Goes(c)
    BY <1>4, <2>1, <2>2 DEF Detach, Goes
  <2> QED  BY <1>4, <2>1, <2>2, <2>3 DEF Detach, Types, Effect, Effective
<1>5. ASSUME NEW c \in Clients, FinalizeFailed(c) PROVE Effective
  <2>1. Ended(Session(c), "failed", 0) /\ disk' \in [Sessions -> Disks]
    BY <1>5, EndedEdit, ClientMembers DEF FinalizeFailed, States
  <2>2. Spoke(c, "done") /\ client' \in [Clients -> Commands]
    BY <1>5, SpokeEdit DEF FinalizeFailed, Pcs
  <2>3. FailsSession(c)
    BY <1>5, <2>1, <2>2 DEF FinalizeFailed, FailsSession
  <2> QED  BY <1>5, <2>1, <2>2, <2>3 DEF FinalizeFailed, Effect, Effective
<1>6. ASSUME NEW c \in Clients, ConnectionLost(c) PROVE Effective
  <2>1. AfterOutcome(c, TRUE) \in Pcs
    BY DEF AfterOutcome, Pcs
  <2>2. Spoke(c, AfterOutcome(c, TRUE)) /\ client' \in [Clients -> Commands]
    BY <1>6, <2>1, SpokeEdit DEF ConnectionLost
  <2>3. Parted(c)
    BY <1>6, PartedEdit DEF ConnectionLost
  <2>4. IsLost(c)
    BY <1>6, <2>1, <2>2, <2>3 DEF ConnectionLost, IsLost
  <2> QED  BY <1>6, <2>1, <2>2, <2>3, <2>4 DEF ConnectionLost, Types, Effect, Effective
<1>7. ASSUME NEW c \in Clients, Start(c) PROVE Effective
  <2>1. Session(c) \in Sessions /\ client[c].pc = "sending" /\ Serves
    BY <1>7, ClientMembers DEF Start
  <2>2. UNCHANGED <<queue, daemon, ending, known>>
    BY <1>7 DEF Start
  <2>3. ASSUME NEW v \in Pcs, client' = Replied(client, c, v)
        PROVE  Spoke(c, v) /\ client' \in [Clients -> Commands]
    BY <2>1, <2>3, ReachedEdit DEF Spoke, Reached
  <2>4. ASSUME client' = [client EXCEPT ![c].pc = "starting"]
        PROVE  Spoke(c, "starting") /\ client' \in [Clients -> Commands]
    BY <2>4, SpokeEdit DEF Pcs
  <2>5. ASSUME table' = [table EXCEPT ![Session(c)] = c]
        PROVE  TableAt(Session(c), c)
    BY <2>1, <2>5 DEF TableAt, Types
  <2>6. ASSUME NEW d \in Disks, disk' = [disk EXCEPT ![Session(c)] = d]
        PROVE  DiskAt(Session(c), d) /\ disk' \in [Sessions -> Disks]
    BY <2>1, <2>6 DEF DiskAt, Types
  <2>7. Rotated(disk[Session(c)]) = [turns |-> disk[Session(c)].turns + 1, state |-> "running"]
    BY DEF Rotated
  <2>8. disk[Session(c)].turns + 1 \in Nat
    BY <2>1 DEF Types, Disks
  <2>9. CASE /\ client' = Replied(client, c, "failing") /\ UNCHANGED <<disk, table, turn>>
    <3>1. Spoke(c, "failing") /\ client' \in [Clients -> Commands]
      BY <2>3, <2>9 DEF Pcs
    <3>2. IsRefused(c)
      BY <3>1, <2>1, <2>2, <2>9 DEF IsRefused
    <3> QED  BY <3>1, <3>2, <2>9 DEF Effect, Effective, Types
  <2>10. CASE /\ Deferred(c) /\ client' = Replied(client, c, "done")
              /\ UNCHANGED <<disk, table, turn>>
    <3>1. Spoke(c, "done") /\ client' \in [Clients -> Commands]
      BY <2>3, <2>10 DEF Pcs
    <3>2. IsRefused(c)
      BY <3>1, <2>1, <2>2, <2>10 DEF IsRefused
    <3> QED  BY <3>1, <3>2, <2>10 DEF Effect, Effective, Types
  <2>11. CASE /\ table[Session(c)] = None /\ Deferred(c) /\ Finished(Session(c))
              /\ disk' = [disk EXCEPT ![Session(c)] = Rotated(@)]
              /\ table' = [table EXCEPT ![Session(c)] = c]
              /\ turn' = Registered(c)
              /\ client' = [client EXCEPT ![c].pc = "starting"]
    <3>1. [turns |-> disk[Session(c)].turns + 1, state |-> "running"] \in Disks
      BY <2>8 DEF Disks, States
    <3>2. /\ DiskAt(Session(c), [turns |-> disk[Session(c)].turns + 1, state |-> "running"])
          /\ disk' \in [Sessions -> Disks]
      BY <3>1, <2>6, <2>7, <2>11
    <3>3. Entered(c)
      BY <2>11, EnteredEdit
    <3>4. StartsNext(c)
      BY <3>2, <3>3, <2>1, <2>2, <2>4, <2>5, <2>11 DEF StartsNext
    <3> QED  BY <3>2, <3>4, <2>4, <2>11 DEF Effect, Effective
  <2>12. CASE /\ table[Session(c)] = None /\ Deferred(c) /\ Finished(Session(c))
              /\ \E d \in {disk[Session(c)], [Rotated(disk[Session(c)]) EXCEPT !.state = "failed"]} :
                    disk' = [disk EXCEPT ![Session(c)] = d]
              /\ client' = Replied(client, c, "done")
              /\ UNCHANGED <<table, turn>>
    <3>1. Spoke(c, "done") /\ client' \in [Clients -> Commands]
      BY <2>3, <2>12 DEF Pcs
    <3>2. PICK d \in {disk[Session(c)], [Rotated(disk[Session(c)]) EXCEPT !.state = "failed"]} :
               disk' = [disk EXCEPT ![Session(c)] = d]
      BY <2>12
    <3>3. CASE d = disk[Session(c)]
      <4>1. disk' = disk
        BY <3>2, <3>3 DEF Types
      <4>2. IsRefused(c)
        BY <3>1, <4>1, <2>1, <2>2, <2>12 DEF IsRefused
      <4> QED  BY <3>1, <4>1, <4>2 DEF Effect, Effective, Types
    <3>4. CASE d = [Rotated(disk[Session(c)]) EXCEPT !.state = "failed"]
      <4>1. /\ d = [turns |-> disk[Session(c)].turns + 1, state |-> "failed"]
            /\ d \in Disks
        BY <3>4, <2>7, <2>8 DEF Disks, States
      <4>2. DiskAt(Session(c), d) /\ disk' \in [Sessions -> Disks]
        BY <3>2, <4>1, <2>6
      <4>3. IsRefused(c)
        BY <3>1, <4>1, <4>2, <2>1, <2>2, <2>12 DEF IsRefused
      <4> QED  BY <3>1, <4>2, <4>3 DEF Effect, Effective
    <3> QED  BY <3>2, <3>3, <3>4
  <2>13. CASE /\ table[Session(c)] = None /\ ~Deferred(c)
              /\ table' = [table EXCEPT ![Session(c)] = c]
              /\ turn' = Registered(c)
              /\ client' = [client EXCEPT ![c].pc = "starting"]
              /\ UNCHANGED disk
    <3>1. Entered(c)
      BY <2>13, EnteredEdit
    <3>2. StartsFirst(c)
      BY <3>1, <2>1, <2>2, <2>4, <2>5, <2>13 DEF StartsFirst
    <3> QED  BY <3>2, <2>4, <2>13 DEF Effect, Effective, Types
  <2> QED  BY <1>7, <2>9, <2>10, <2>11, <2>12, <2>13 DEF Start
<1>8. ASSUME NEW c \in Clients, Ensure(c) PROVE Effective
  <2>1. Quiet
    BY <1>8 DEF Ensure, Quiet
  <2> QED  BY <1>8, <2>1 DEF Ensure, Types, Effect, Effective
<1>9. ASSUME NEW c \in Clients, Ensured(c) PROVE Effective
  <2>1. Session(c) \in Sessions /\ turn[c].stage = "ensuring" /\ ~turn[c].kill
    BY <1>9, ClientMembers DEF Ensured
  <2>2. UNCHANGED <<daemon, ending, known>>
    BY <1>9 DEF Ensured
  <2>3. CASE StartFails(c)
    <3>1. StartIsUndone(c)
      BY <2>1, <2>2, <2>3, StartFailsEdit DEF StartIsUndone
    <3> QED  BY <3>1, <2>3, StartFailsEdit DEF Effect, Effective
  <2>4. CASE /\ Deferred(c) \/ disk[Session(c)].state = "starting"
             /\ disk' = [disk EXCEPT ![Session(c)].state = IF Deferred(c) THEN @ ELSE "running"]
             /\ turn' = [turn EXCEPT ![c].stage = "accepted", ![c].claimed = TRUE,
                                     ![c].token = disk[Session(c)].turns]
             /\ client' = Replied(client, c, "replied")
             /\ UNCHANGED <<table, queue>>
    <3>1. /\ \A z \in Sessions :
                /\ disk'[z].turns = disk[z].turns
                /\ disk'[z].state = IF z = Session(c) /\ ~Deferred(c) THEN "running"
                                    ELSE disk[z].state
          /\ disk' \in [Sessions -> Disks]
      BY <2>1, <2>4 DEF Types, Disks, States
    <3>2. Claiming(c)
      BY <2>4, ClaimingEdit
    <3>3. Reached(c, "replied") /\ client' \in [Clients -> Commands]
      BY <2>4, ReachedEdit DEF Pcs
    <3>4. IsAccepted(c)
      BY <3>1, <3>2, <3>3, <2>1, <2>2, <2>4 DEF IsAccepted
    <3> QED  BY <3>1, <3>3, <3>4 DEF Effect, Effective
  <2> QED  BY <1>9, <2>3, <2>4 DEF Ensured, Claims
<1>10. ASSUME NEW c \in Clients, EnsureFails(c) PROVE Effective
  <2>1. StartFails(c)
    BY <1>10 DEF EnsureFails
  <2>2. StartIsUndone(c)
    BY <1>10, <2>1, StartFailsEdit DEF EnsureFails, StartIsUndone
  <2> QED  BY <2>1, <2>2, StartFailsEdit DEF Effect, Effective
<1>11. ASSUME NEW c \in Clients, Await(c) PROVE Effective
  <2> DEFINE x == table[Session(c)]
  <2>1. x \in Clients \cup {None}
    BY ClientMembers DEF Types
  <2>2. /\ Serves /\ client[c].pc \in {"asking", "replied"}
        /\ UNCHANGED <<disk, table, queue, daemon, ending, known>>
    BY <1>11 DEF Await
  <2>3. CASE /\ x # None
             /\ turn' = [turn EXCEPT ![x].waiters = @ \cup {c}]
             /\ client' = [client EXCEPT ![c].pc = "waiting"]
    <3>1. Joined(x, c)
      BY <2>1, <2>3, JoinedEdit
    <3>2. Spoke(c, "waiting") /\ client' \in [Clients -> Commands]
      BY <2>3, SpokeEdit DEF Pcs
    <3>3. Joins(c)
      BY <3>1, <3>2, <2>2, <2>3 DEF Joins
    <3> QED  BY <3>2, <3>3, <2>2 DEF Effect, Effective, Types
  <2>4. CASE client' = [client EXCEPT ![c].pc = "done"] /\ UNCHANGED turn
    <3>1. Spoke(c, "done") /\ client' \in [Clients -> Commands]
      BY <2>4, SpokeEdit DEF Pcs
    <3>2. FindsNothing(c)
      BY <3>1, <2>2, <2>4 DEF FindsNothing
    <3> QED  BY <3>1, <3>2, <2>2 DEF Effect, Effective, Types
  <2> QED  BY <1>11, <2>3, <2>4 DEF Await
<1>12. ASSUME NEW c \in Clients, Cancel(c) PROVE Effective
  <2> DEFINE x == table[Session(c)]
  <2>1. x \in Clients \cup {None} /\ Session(c) \in Sessions /\ client[c].pinned \in Nat
    BY ClientMembers DEF Types
  <2>2. /\ Serves /\ client[c].command = "cancel" /\ client[c].pc = "asking"
        /\ UNCHANGED <<table, queue, daemon, ending, known>>
    BY <1>12 DEF Cancel
  <2>3. Spoke(c, "done") /\ client' \in [Clients -> Commands]
    BY <1>12, SpokeEdit DEF Cancel, Pcs
  <2>4. CASE /\ x # None
             /\ turn' = [turn EXCEPT ![x] = CancelOf(x, client[c].pinned)]
             /\ UNCHANGED disk
    <3>1. CanceledAs(x, client[c].pinned)
      BY <2>1, <2>4, CanceledAsEdit
    <3>2. CancelsTurn(c)
      BY <3>1, <2>2, <2>3, <2>4 DEF CancelsTurn
    <3> QED  BY <3>2, <2>3, <2>4 DEF Effect, Effective, Types
  <2>5. CASE x = None /\ disk' = CanceledLocally(Session(c)) /\ UNCHANGED turn
    <3>1. /\ \A z \in Sessions :
                /\ disk'[z].turns = disk[z].turns
                /\ disk'[z].state = IF z = Session(c) /\ disk[z].state = "starting"
                                    THEN "canceled" ELSE disk[z].state
          /\ disk' \in [Sessions -> Disks]
      BY <2>1, <2>5 DEF CanceledLocally, Types, Disks, States
    <3>2. CancelsAlone(c)
      BY <3>1, <2>2, <2>3, <2>5 DEF CancelsAlone
    <3> QED  BY <3>1, <3>2, <2>3 DEF Effect, Effective
  <2> QED  BY <1>12, <2>4, <2>5 DEF Cancel
<1>13. ASSUME NEW c \in Clients, Interrupt(c) PROVE Effective
  <2> DEFINE x == table[Session(c)]
  <2>1. x \in Clients \cup {None}
    BY ClientMembers DEF Types
  <2>2. /\ Serves /\ client[c].pc \in {"starting", "waiting"}
        /\ UNCHANGED <<disk, table, queue, daemon, ending, known>>
    BY <1>13 DEF Interrupt
  <2>3. Broke(c) /\ client' \in [Clients -> Commands]
    BY <1>13, BrokeEdit DEF Interrupt
  <2>4. CASE x = None /\ turn' = turn
    <3>1. Breaks(c)
      BY <2>2, <2>3, <2>4 DEF Breaks
    <3> QED  BY <3>1, <2>2, <2>3 DEF Effect, Effective, Types
  <2>5. CASE x # None /\ turn' = [turn EXCEPT ![x] = CancelOf(x, 0)]
    <3>1. CanceledAs(x, 0)
      BY <2>1, <2>5, CanceledAsEdit
    <3>2. Breaks(c)
      BY <3>1, <2>2, <2>3, <2>5 DEF Breaks
    <3> QED  BY <3>2, <2>2, <2>3 DEF Effect, Effective, Types
  <2> QED  BY <1>13, <2>4, <2>5 DEF Interrupt
<1>14. ASSUME NEW c \in Clients, TaskBegins(c) PROVE Effective
  <2>1. UNCHANGED <<disk, table, client, daemon, ending, known>>
    BY <1>14 DEF TaskBegins
  <2>2. CASE Deferred(c)
    <3>1. Staged(c, "restoring")
      BY <1>14, <2>2, StagedEdit DEF TaskBegins, Stages
    <3>2. BeginsToRestore(c)
      BY <1>14, <3>1, <2>2 DEF TaskBegins, BeginsToRestore
    <3> QED  BY <3>2, <2>1 DEF Effect, Effective, Types
  <2>3. CASE ~Deferred(c)
    <3>1. EntersSlot(c) \in Stages
      BY DEF EntersSlot, Stages
    <3>2. Staged(c, EntersSlot(c))
      BY <1>14, <3>1, <2>3, StagedEdit DEF TaskBegins
    <3>3. Enqueues(c)
      BY <1>14, <3>2, <2>3 DEF TaskBegins, Enqueues
    <3> QED  BY <3>3, <2>1 DEF Effect, Effective, Types
  <2> QED  BY <2>2, <2>3
<1>15. ASSUME NEW c \in Clients, Restored(c) PROVE Effective
  <2>1. EntersSlot(c) \in Stages
    BY DEF EntersSlot, Stages
  <2>2. Prepared(c, EntersSlot(c))
    BY <1>15, <2>1, PreparedEdit DEF Restored
  <2>3. IsRestored(c)
    BY <1>15, <2>1, <2>2 DEF Restored, IsRestored
  <2> QED  BY <1>15, <2>1, <2>2, <2>3 DEF Restored, Types, Effect, Effective
<1>16. ASSUME NEW c \in Clients, RestoreFails(c) PROVE Effective
  <2>1. Finishes(c, TRUE) /\ client' \in [Clients -> Commands]
    BY <1>16, FinishEdit DEF RestoreFails
  <2>2. Session(c) \in Sessions /\ disk[Session(c)].turns \in Nat
    BY Restoring DEF Disks
  <2>3. PICK d \in {RolledBack(c), Finalized(disk[Session(c)], "failed", disk[Session(c)].turns)} :
             disk' = [disk EXCEPT ![Session(c)] = d]
    BY <1>16 DEF RestoreFails
  <2>4. CASE d = RolledBack(c)
    <3>1. DiskAt(Session(c), RolledBack(c)) /\ disk' \in [Sessions -> Disks]
      BY <2>2, <2>3, <2>4, Restoring DEF DiskAt, Types
    <3>2. IsNotRestored(c)
      BY <1>16, <2>1, <3>1 DEF RestoreFails, IsNotRestored
    <3> QED  BY <3>1, <3>2, <2>1 DEF Effect, Effective
  <2>5. CASE d = Finalized(disk[Session(c)], "failed", disk[Session(c)].turns)
    <3>1. /\ Ended(Session(c), "failed", disk[Session(c)].turns)
          /\ disk' \in [Sessions -> Disks]
      BY <2>2, <2>3, <2>5, EndedEdit DEF States
    <3>2. IsNotRestored(c)
      BY <1>16, <2>1, <3>1 DEF RestoreFails, IsNotRestored
    <3> QED  BY <3>1, <3>2, <2>1 DEF Effect, Effective
  <2> QED  BY <2>3, <2>4, <2>5
<1>17. ASSUME NEW c \in Clients, TakesSlot(c) PROVE Effective
  <2>1. Staged(c, "opening")
    BY <1>17, StagedEdit DEF TakesSlot, Stages
  <2>2. queue # <<>>
    BY <1>17 DEF TakesSlot, Queueing, Types
  <2>3. IsNext(c)
    BY <1>17, <2>1, <2>2 DEF TakesSlot, IsNext
  <2> QED  BY <1>17, <2>1, <2>2, <2>3 DEF TakesSlot, Types, Effect, Effective
<1>18. ASSUME NEW c \in Clients, Prompts(c) PROVE Effective
  <2>1. Staged(c, "driving")
    BY <1>18, StagedEdit DEF Prompts, Stages
  <2>2. Drives(c)
    BY <1>18, <2>1 DEF Prompts, Drives
  <2> QED  BY <1>18, <2>1, <2>2 DEF Prompts, Types, Effect, Effective
<1>19. ASSUME NEW c \in Clients, Answers(c) PROVE Effective
  <2>1. PICK v \in {"succeeded", "failed"}, e \in BOOLEAN : RunEnds(c, v, e)
    BY <1>19 DEF Answers
  <2> DEFINE w == IF turn[c].cancel = "none" THEN v ELSE turn[c].cancel
  <2>2. Finishes(c, e) /\ client' \in [Clients -> Commands]
    BY <2>1, FinishEdit DEF RunEnds
  <2>3. Session(c) \in Sessions /\ w \in States /\ RequestToken(c) \in Nat
    BY ClientMembers, TurnParts DEF Types, RequestToken, States
  <2>4. Ended(Session(c), w, RequestToken(c)) /\ disk' \in [Sessions -> Disks]
    BY <2>1, <2>3, EndedEdit DEF RunEnds
  <2>5. RunIsOver(c)
    BY <1>19, <2>1, <2>2, <2>4 DEF Answers, RunEnds, RunIsOver
  <2> QED  BY <2>2, <2>4, <2>5 DEF Effect, Effective
<1>20. ASSUME NEW c \in Clients, Fails(c) PROVE Effective
  <2>1. PICK v \in {"succeeded", "failed"}, e \in BOOLEAN : RunEnds(c, v, e)
    BY <1>20 DEF Fails
  <2> DEFINE w == IF turn[c].cancel = "none" THEN v ELSE turn[c].cancel
  <2>2. Finishes(c, e) /\ client' \in [Clients -> Commands]
    BY <2>1, FinishEdit DEF RunEnds
  <2>3. Session(c) \in Sessions /\ w \in States /\ RequestToken(c) \in Nat
    BY ClientMembers, TurnParts DEF Types, RequestToken, States
  <2>4. Ended(Session(c), w, RequestToken(c)) /\ disk' \in [Sessions -> Disks]
    BY <2>1, <2>3, EndedEdit DEF RunEnds
  <2>5. RunIsOver(c)
    BY <1>20, <2>1, <2>2, <2>4 DEF Fails, RunEnds, RunIsOver
  <2> QED  BY <2>2, <2>4, <2>5 DEF Effect, Effective
<1>21. ASSUME NEW c \in Clients, KilledStarting(c) PROVE Effective
  <2>1. Session(c) \in Sessions /\ table[Session(c)] \in Clients \cup {None}
    BY ClientMembers DEF Types
  <2>2. CASE turn[c].cancel = "canceled"
    <3>1. Ended(Session(c), "canceled", 0) /\ disk' \in [Sessions -> Disks]
      BY <1>21, <2>1, <2>2, EndedEdit DEF KilledStarting, States
    <3>2. TableAt(Session(c), None)
      BY <1>21, <2>1, <2>2 DEF KilledStarting, Popped, TableAt, Types
    <3>3. Left(c)
      BY <1>21, <2>2, LeftEdit DEF KilledStarting
    <3>4. /\ \/ Heard(table[Session(c)], FALSE, c, "done")
             \/ Heard(table[Session(c)], FALSE, c, "failing")
          /\ ~Deferred(c) => Heard(table[Session(c)], FALSE, c, "failing")
          /\ client' \in [Clients -> Commands]
      BY <1>21, <2>1, <2>2, HeardEdit DEF KilledStarting, AfterRefusal, Pcs
    <3>5. StartIsCanceled(c)
      BY <1>21, <2>2, <3>1, <3>2, <3>3, <3>4 DEF KilledStarting, StartIsCanceled
    <3> QED  BY <3>1, <3>4, <3>5 DEF Effect, Effective
  <2>3. CASE turn[c].cancel # "canceled"
    <3>1. StartFails(c)
      BY <1>21, <2>3 DEF KilledStarting
    <3>2. StartIsUndone(c)
      BY <1>21, <2>3, <3>1, StartFailsEdit DEF KilledStarting, StartIsUndone
    <3> QED  BY <3>1, <3>2, StartFailsEdit DEF Effect, Effective
  <2> QED  BY <2>2, <2>3
<1>22. ASSUME NEW c \in Clients, KilledUnstarted(c) PROVE Effective
  <2>1. Stopped(c, "leaked")
    BY <1>22, StoppedEdit DEF KilledUnstarted, Stages
  <2>2. Leaks(c)
    BY <1>22, <2>1 DEF KilledUnstarted, Leaks
  <2> QED  BY <1>22, <2>1, <2>2 DEF KilledUnstarted, Types, Effect, Effective
<1>23. ASSUME NEW c \in Clients, KilledPreparing(c) PROVE Effective
  <2>1. Session(c) \in Sessions /\ turn[c].token \in Nat
    BY ClientMembers, TurnParts DEF Types
  <2>2. CASE turn[c].cancel = "canceled" /\ Deferred(c)
    <3>1. Ended(Session(c), "canceled", turn[c].token) /\ disk' \in [Sessions -> Disks]
      BY <1>23, <2>1, <2>2, EndedEdit DEF KilledPreparing, States
    <3>2. Finishes(c, FALSE) /\ client' \in [Clients -> Commands]
      BY <1>23, <2>2, FinishEdit DEF KilledPreparing
    <3>3. PreparationIsCanceled(c)
      BY <1>23, <2>2, <3>1, <3>2 DEF KilledPreparing, PreparationIsCanceled
    <3> QED  BY <3>1, <3>2, <3>3 DEF Effect, Effective
  <2>3. CASE ~(turn[c].cancel = "canceled" /\ Deferred(c))
    <3>1. Stopped(c, "ended")
      BY <1>23, <2>3, StoppedEdit DEF KilledPreparing, Stages
    <3>2. PreparationIsKilled(c)
      BY <1>23, <2>3, <3>1 DEF KilledPreparing, PreparationIsKilled
    <3> QED  BY <1>23, <2>3, <3>2 DEF KilledPreparing, Effect, Effective, Types
  <2> QED  BY <2>2, <2>3
<1>24. ASSUME NEW c \in Clients, KilledRunning(c) PROVE Effective
  <2>1. PICK v \in {"succeeded", "failed"}, e \in BOOLEAN : RunEnds(c, v, e)
    BY <1>24 DEF KilledRunning
  <2> DEFINE w == IF turn[c].cancel = "none" THEN v ELSE turn[c].cancel
  <2>2. Finishes(c, e) /\ client' \in [Clients -> Commands]
    BY <2>1, FinishEdit DEF RunEnds
  <2>3. Session(c) \in Sessions /\ w \in States /\ RequestToken(c) \in Nat
    BY ClientMembers, TurnParts DEF Types, RequestToken, States
  <2>4. Ended(Session(c), w, RequestToken(c)) /\ disk' \in [Sessions -> Disks]
    BY <2>1, <2>3, EndedEdit DEF RunEnds
  <2>5. RunIsOver(c)
    BY <1>24, <2>1, <2>2, <2>4 DEF KilledRunning, RunEnds, RunIsOver
  <2> QED  BY <2>2, <2>4, <2>5 DEF Effect, Effective
<1>25. ASSUME NEW c \in Clients, Strike(c) PROVE Effective
  <2>1. Struck(c)
    BY <1>25, StruckEdit DEF Strike
  <2>2. IsStruck(c)
    BY <1>25, <2>1 DEF Strike, IsStruck
  <2> QED  BY <1>25, <2>1, <2>2 DEF Strike, Types, Effect, Effective
<1>26. ASSUME NEW c \in Clients, CloseTurn(c) PROVE Effective
  <2>1. Ended(Session(c), "failed", 0) /\ disk' \in [Sessions -> Disks]
    BY <1>26, EndedEdit, ClientMembers DEF CloseTurn, States
  <2>2. Closed(c)
    BY <1>26, ClosedEdit DEF CloseTurn
  <2>3. Learned(c, FALSE) /\ client' \in [Clients -> Commands]
    BY <1>26, LearnedEdit DEF CloseTurn
  <2>4. IsClosed(c)
    BY <1>26, <2>1, <2>2, <2>3 DEF CloseTurn, IsClosed
  <2> QED  BY <1>26, <2>1, <2>2, <2>3, <2>4 DEF CloseTurn, Effect, Effective
<1>27. ASSUME NEW c \in Clients, Abandon(c) PROVE Effective
  <2>1. Shot(c)
    BY <1>27, ShotEdit DEF Abandon
  <2>2. IsAbandoned(c)
    BY <1>27, <2>1 DEF Abandon, IsAbandoned
  <2> QED  BY <1>27, <2>1, <2>2 DEF Abandon, Types, Effect, Effective
<1>28. ASSUME AdapterDies PROVE Effective
  <2>1. Quiet
    BY <1>28 DEF AdapterDies, Quiet
  <2> QED  BY <1>28, <2>1 DEF AdapterDies, Types, Effect, Effective
<1>29. ASSUME Shutdown PROVE Effective
  <2>1. ending' \in Seq(Clients) /\ \A i \in DOMAIN ending' : ending'[i] \in InTable
    BY <1>29, Listing DEF Shutdown
  <2>2. ShutsDown
    BY <1>29, <2>1 DEF Shutdown, ShutsDown
  <2> QED  BY <1>29, <2>2 DEF Shutdown, Effect, Effective, Types
<1>30. ASSUME Clear PROVE Effective
  <2>1. IsCleared
    BY <1>30 DEF Clear, IsCleared
  <2> QED  BY <1>30, <2>1 DEF Clear, Types, Effect, Effective
<1>31. ASSUME Exit PROVE Effective
  <2>1. IsGone
    BY <1>31 DEF Exit, IsGone
  <2> QED  BY <1>31, <2>1 DEF Exit, Types, Effect, Effective
<1> QED
  BY <1>1, <1>2, <1>3, <1>4, <1>5, <1>6, <1>7, <1>8, <1>9, <1>10, <1>11, <1>12, <1>13,
    <1>14, <1>15, <1>16, <1>17, <1>18, <1>19, <1>20, <1>21, <1>22, <1>23, <1>24,
    <1>25, <1>26, <1>27, <1>28, <1>29, <1>30, <1>31 DEF DaemonNext, Runs

\* Type correctness is kept.
LEMMA TypesStep ==
  ASSUME Types, Queueing, DaemonNext PROVE Types'
BY Effects, TurnTypes, OtherTypes DEF Types, OthersTyped, Effective
=============================================================================
