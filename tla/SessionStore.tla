---------------------------- MODULE SessionStore ----------------------------
(***************************************************************************)
(* One session directory of acpc (sessions.py) and the processes that work *)
(* on it: clients that create, continue, cancel, read, collect and delete  *)
(* the session, and hosts that drive its turns.  A host is the direct      *)
(* acpc client or the per-target daemon; the others know it only by the    *)
(* pid it records in meta.json.                                            *)
(*                                                                         *)
(* A step is one file operation, or several no property tells apart.  The  *)
(* steps between taking and leaving the session lock (flock on `lock`) are *)
(* closed to other lock holders but not to readers, which take no lock.  A *)
(* process may be killed between any two steps: the kernel releases its    *)
(* locks and the files stay as they are.                                   *)
(***************************************************************************)
EXTENDS Integers, FiniteSets, Sequences

CONSTANTS
    Proc,       \* the processes; each one is also its own pid
    NoProc,     \* "nobody": a free lock, a pid that was never recorded
    MaxTurn     \* bound: turns the session is continued to

ASSUME NoProcAssumption == NoProc \notin Proc
ASSUME ProcAssumption == IsFiniteSet(Proc)
ASSUME MaxTurnAssumption == MaxTurn \in Nat \ {0}

Turn == 1..MaxTurn
ActiveState == {"starting", "running", "waiting"}
FinishedState == {"succeeded", "failed", "canceled", "unknown"}
\* The two ways meta.json is missing: not written yet, and unlinked.
MissingState == {"none", "gone"}

\* Mutant: no state machine; a finished turn may be ended again.
AllowedAlways(from) == {"running", "waiting"} \cup FinishedState

\* _ALLOWED_TRANSITIONS; finished states allow nothing.
Allowed(from) ==
    CASE from = "starting" -> {"running"} \cup FinishedState
      [] from = "running"  -> {"waiting"} \cup FinishedState
      [] from = "waiting"  -> {"running"} \cup FinishedState
      [] OTHER -> {}

\* answer.md: the turn whose owner wrote the text; real is FALSE for the
\* placeholder of an unknown turn and for the empty text of a local cancel.
Answer == [turn : 0..MaxTurn, real : BOOLEAN]
NoAnswer == [turn |-> 0, real |-> FALSE]

VARIABLES
    status,     \* meta.json: the session's state ...
    turns,      \*   its current turn
    pid,        \*   the recorded host
    retained,   \*   FALSE once a one-shot session was reduced
    oneShot,    \*   the stored one_shot policy
    answer,     \* answer.md
    prompt,     \* prompt.md: the turn it belongs to, 0 when there is none
    parkedMeta, \* meta.<n>.json: the state it records, "none" without the file
    parkedPrompt,   \* prompt.<n>.md
    parkedAnswer,   \* answer.<n>.md
    endings,    \* transcript.ndjson: its terminal `state` events, in order ...
    events,     \*   whether there is such a file
    tombstone,  \* the deletion marker exists
    graceOver,  \* STARTUP_GRACE_SECONDS passed before a pid was recorded
    timely,     \* scheduling assumption some properties are stated under: no
                \* process stalls between a lock-free read and the locked step
                \* that acts on it, every living host records itself within
                \* the grace, and nobody continues a session while a host that
                \* came too late for an earlier turn is still there
    lock,       \* holder of the session lock
    reserved,   \* holder of a session_reservation, the lock underneath it
    inode,      \* holder of the lock on the pending answer's inode
    alive,      \* processes not killed yet
    pc,         \* where each process is in its current operation
    arg,        \* the terminal state that operation is publishing
    deletes,    \* processes inside delete_session
    phase,      \* each process as a host: how far its turn is
    owns,       \* the turn it hosts, 0 for none
    correcting, \* the host whose adapter has an in-place correction to answer
    emitted     \* history: processes that wrote the pending answer out

meta == <<status, turns, pid, retained, oneShot>>
parked == <<parkedMeta, parkedPrompt, parkedAnswer>>
transcript == <<endings, events>>
disk == <<meta, answer, prompt, parked, transcript, tombstone>>
env == <<graceOver, timely>>
procs == <<pc, arg, deletes, phase, owns>>
\* What goes on beside the session lock.
aside == <<correcting, emitted>>
vars == <<disk, env, lock, reserved, inode, alive, procs, aside>>

\* Where an operation can be; at the first ones it holds the session lock.
LockedPc == {"create", "prepare", "rotPrompt", "rotAnswer", "rotWrite", "rotMeta",
             "finEvent", "finDrop", "finMeta", "delFiles", "delMeta", "delRest", "delTomb"}
OpenPc == {"idle", "finalize", "unknown", "cancel", "follow", "dlvWait", "dlvEmit", "dlvDrop"}
Phase == {"none", "setup", "driving", "holding", "broken"}

MetaTypeOK ==
    /\ status \in ActiveState \cup FinishedState \cup MissingState
    /\ turns \in 0..MaxTurn
    /\ pid \in Proc \cup {NoProc}
    /\ retained \in BOOLEAN /\ oneShot \in BOOLEAN

FilesTypeOK ==
    /\ answer \in Answer
    /\ prompt \in 0..MaxTurn
    /\ parkedMeta \in [Turn -> {"none"} \cup FinishedState]
    /\ parkedPrompt \in [Turn -> 0..MaxTurn]
    /\ parkedAnswer \in [Turn -> Answer]
    /\ endings \in Seq([turn : Turn, state : FinishedState])
    /\ events \in BOOLEAN /\ tombstone \in BOOLEAN

ProcTypeOK ==
    /\ graceOver \in BOOLEAN /\ timely \in BOOLEAN
    /\ lock \in Proc \cup {NoProc}
    /\ reserved \in Proc \cup {NoProc}
    /\ inode \in Proc \cup {NoProc}
    /\ alive \subseteq Proc
    /\ pc \in [Proc -> LockedPc \cup OpenPc]
    /\ arg \in [Proc -> FinishedState \cup {"none"}]
    /\ deletes \subseteq Proc
    /\ phase \in [Proc -> Phase]
    /\ owns \in [Proc -> 0..MaxTurn]
    /\ correcting \in Proc \cup {NoProc}
    /\ emitted \subseteq Proc

TypeOK == MetaTypeOK /\ FilesTypeOK /\ ProcTypeOK

Exists == status \notin MissingState
Active == status \in ActiveState
Finished == status \in FinishedState
\* Mutant: a session without a recorded host is never given up.
HostGoneNoGrace == Active /\ pid \notin alive \cup {NoProc}

\* The evidence _verify_liveness goes by: a recorded host that is gone, or no
\* host recorded and the grace spent.
HostGone == Active /\ IF pid = NoProc THEN graceOver ELSE pid \notin alive

NothingParked ==
    /\ parkedMeta = [n \in Turn |-> "none"]
    /\ parkedPrompt = [n \in Turn |-> 0]
    /\ parkedAnswer = [n \in Turn |-> NoAnswer]
UnparkAll ==
    /\ parkedMeta' = [n \in Turn |-> "none"]
    /\ parkedPrompt' = [n \in Turn |-> 0]
    /\ parkedAnswer' = [n \in Turn |-> NoAnswer]

\* session_lock is re-entrant: a reservation's holder passes.
Free(p) == lock \in {NoProc, p}
\* Leaving the outermost session_lock; a reservation underneath keeps it.
Leave(p) == lock' = IF reserved = p THEN p ELSE NoProc
At(p, l) == p \in alive /\ pc[p] = l
Goto(p, l) == pc' = [pc EXCEPT ![p] = l]
\* A process outside any operation and hosting nothing: the next acpc command.
Client(p) == At(p, "idle") /\ phase[p] = "none"
\* In a timely environment p does not outdate what another process read without the lock.
Undisturbed(p) == timely => \A q \in Proc \ {p} : pc[q] \notin {"unknown", "cancel"}

\* Mutant: the one-shot policy is forgotten when the turn ends.
NeverReduces == FALSE

\* stored_one_shot: ending the turn consumes the session.
Reduces == oneShot

Init ==
    /\ status = "none" /\ turns = 0 /\ pid = NoProc
    /\ retained = TRUE /\ oneShot \in BOOLEAN
    /\ answer = NoAnswer
    /\ prompt = 0
    /\ NothingParked
    /\ endings = << >> /\ events = FALSE
    /\ tombstone = FALSE
    /\ graceOver = FALSE /\ timely \in BOOLEAN
    /\ lock = NoProc
    /\ reserved = NoProc
    /\ inode = NoProc
    /\ alive = Proc
    /\ pc = [p \in Proc |-> "idle"]
    /\ arg = [p \in Proc |-> "none"]
    /\ deletes = {}
    /\ phase = [p \in Proc |-> "none"]
    /\ owns = [p \in Proc |-> 0]
    /\ correcting = NoProc /\ emitted = {}

-----------------------------------------------------------------------------
(* Creating the session and recording the host of its first turn.          *)

\* create_session: mkdir claims the id, the prompt is written ...
CreateBegin(p) ==
    /\ Client(p) /\ Free(p) /\ lock' = p
    /\ status = "none" /\ prompt = 0
    /\ prompt' = 1
    /\ Goto(p, "create")
    /\ UNCHANGED <<meta, answer, parked, transcript, tombstone, env, reserved, inode,
                   alive, arg, deletes, phase, owns, aside>>

\* ... and meta.json published.  The turn's owner q is the client itself
\* (direct) or the daemon it dispatches to; meta.json does not name it yet.
CreatePublish(p) ==
    /\ At(p, "create")
    /\ status' = "starting" /\ turns' = 1
    /\ \E q \in alive :
         /\ q = p \/ Client(q)
         /\ phase' = [phase EXCEPT ![q] = "setup"]
         /\ owns' = [owns EXCEPT ![q] = 1]
    /\ Leave(p) /\ Goto(p, "idle")
    /\ UNCHANGED <<pid, retained, oneShot, answer, prompt, parked, transcript, tombstone,
                   env, reserved, inode, alive, arg, deletes, aside>>

\* STARTUP_GRACE_SECONDS pass with no host recorded.
GraceLapses ==
    /\ status = "starting" /\ ~graceOver
    /\ timely => \A p \in alive : phase[p] = "none"
    /\ graceOver' = TRUE
    /\ UNCHANGED <<disk, timely, lock, reserved, inode, alive, procs, aside>>

\* transition(): a locked read-modify-write of meta.json.  A move the
\* vocabulary forbids raises, and the owner's turn is then ended as failed.
Moves(p, to, host, then) ==
    /\ At(p, "idle") /\ Free(p)
    /\ IF to \in Allowed(status)
         THEN /\ status' = to /\ pid' = host
              /\ phase' = [phase EXCEPT ![p] = then]
         ELSE /\ phase' = [phase EXCEPT ![p] = "broken"]
              /\ UNCHANGED <<status, pid>>
    /\ UNCHANGED <<turns, retained, oneShot, answer, prompt, parked, transcript,
                   tombstone, env, lock, reserved, inode, alive, pc, arg, deletes,
                   owns, aside>>

\* mark_running, by the owner of turn 1 once its adapter is up.
MarkRunning(p) ==
    phase[p] = "setup" /\ Undisturbed(p) /\ Moves(p, "running", p, "driving")

\* run_prompt_with_limits: hold for a usage limit, and resume after it.
HoldForLimit(p) == phase[p] = "driving" /\ Moves(p, "waiting", pid, "holding")
ResumeAfterLimit(p) == phase[p] = "holding" /\ Moves(p, "running", pid, "driving")

-----------------------------------------------------------------------------
(* Ending a turn: runner._finalize and sessions.finalize_turn.             *)

\* expected_turn: `continue` carries the turn it rotated to; `run` starts turn
\* 1 without a token.
Stale(p) == owns[p] # 1 /\ owns[p] # turns

Outcomes(p) ==
    CASE phase[p] = "driving" -> {"succeeded", "failed", "canceled"}
      [] phase[p] \in {"setup", "holding"} -> {"failed", "canceled"}
      [] phase[p] = "broken" -> {"failed"}
      [] OTHER -> {}

\* p stops hosting; a direct continue gives its reservation up with it.
EndTurn(p) ==
    /\ phase' = [phase EXCEPT ![p] = "none"]
    /\ owns' = [owns EXCEPT ![p] = 0]
    /\ arg' = [arg EXCEPT ![p] = "none"]
    /\ reserved' = IF reserved = p THEN NoProc ELSE reserved
    /\ lock' = IF lock = p THEN NoProc ELSE lock

\* _finalize looks at meta.json before it takes the lock: a failure of a turn
\* that is already finished, or a turn the session moved past, is dropped.
FinalizeRead(p, to) ==
    /\ At(p, "idle") /\ to \in Outcomes(p)
    /\ IF (Finished /\ to = "failed") \/ (Exists /\ Stale(p))
         THEN EndTurn(p) /\ UNCHANGED pc
         ELSE /\ Goto(p, "finalize")
              /\ arg' = [arg EXCEPT ![p] = to]
              /\ UNCHANGED <<phase, owns, reserved, lock>>
    /\ UNCHANGED <<disk, env, inode, alive, deletes, aside>>

\* Mutant: the state the session is in meanwhile is not asked for.
RefusedIfStale(p) == Stale(p)

\* A missing, finished or replaced turn takes no outcome.
Refused(p) == arg[p] \notin Allowed(status) \/ Stale(p)

\* finalize_turn: the same questions again under the lock, then the answer.
FinalizeAnswer(p) ==
    /\ At(p, "finalize") /\ Free(p)
    /\ IF Refused(p)
         THEN EndTurn(p) /\ Goto(p, "idle") /\ UNCHANGED answer
         ELSE /\ lock' = p
              /\ answer' = [turn |-> owns[p], real |-> TRUE]
              /\ Goto(p, "finEvent")
              /\ UNCHANGED <<phase, owns, arg, reserved>>
    /\ UNCHANGED <<meta, prompt, parked, transcript, tombstone, env, inode, alive,
                   deletes, aside>>

\* The terminal `state` event of the transcript.
FinalizeEvent(p) ==
    /\ At(p, "finEvent")
    /\ endings' = Append(endings, [turn |-> turns, state |-> arg[p]]) /\ events' = TRUE
    /\ Goto(p, IF Reduces THEN "finDrop" ELSE "finMeta")
    /\ UNCHANGED <<meta, answer, prompt, parked, tombstone, env, lock, reserved,
                   inode, alive, arg, deletes, phase, owns, aside>>

\* _drop_consumed_files: a one-shot session keeps the pending answer only.
FinalizeDrop(p) ==
    /\ At(p, "finDrop")
    /\ prompt' = 0
    /\ UnparkAll
    /\ Goto(p, "finMeta")
    /\ UNCHANGED <<meta, answer, transcript, tombstone, env, lock, reserved, inode,
                   alive, arg, deletes, phase, owns, aside>>

\* meta.json last; delete_session goes on under the same lock.
FinalizeMeta(p) ==
    /\ At(p, "finMeta")
    /\ status' = arg[p] /\ retained' = ~Reduces
    /\ IF p \in deletes
         THEN Goto(p, "delFiles") /\ UNCHANGED <<phase, owns, arg, reserved, lock>>
         ELSE Goto(p, "idle") /\ EndTurn(p)
    /\ UNCHANGED <<turns, pid, oneShot, answer, prompt, parked, transcript, tombstone,
                   env, inode, alive, deletes, aside>>

-----------------------------------------------------------------------------
(* Readers and the local cancel: a verdict without the lock, acted on with.*)

\* _persist_unknown's first write, lock held: an absent answer.md gets the
\* placeholder.  A one-shot session is then reduced like a finalized one.
WritePlaceholder(p) ==
    /\ lock' = p
    /\ answer' = IF answer = NoAnswer THEN [turn |-> turns, real |-> FALSE] ELSE answer
    /\ arg' = [arg EXCEPT ![p] = "unknown"]
    /\ Goto(p, IF Reduces THEN "finEvent" ELSE "finMeta")

\* Mutant: any active session is taken for lost.
LoadReadUnprobed(p) ==
    /\ Client(p) /\ Active
    /\ Goto(p, "unknown")
    /\ UNCHANGED <<disk, env, lock, reserved, inode, alive, arg, deletes, phase, owns,
                   aside>>

\* load: read meta.json and probe the host, both without the lock.
LoadRead(p) ==
    /\ Client(p) /\ HostGone
    /\ Goto(p, "unknown")
    /\ UNCHANGED <<disk, env, lock, reserved, inode, alive, arg, deletes, phase, owns,
                   aside>>

\* _persist_unknown: the re-read only asks whether the session is still active.
PersistUnknown(p) ==
    /\ At(p, "unknown") /\ Free(p)
    /\ IF Active
         THEN WritePlaceholder(p)
         ELSE Goto(p, "idle") /\ UNCHANGED <<lock, answer, arg>>
    /\ UNCHANGED <<meta, prompt, parked, transcript, tombstone, env, reserved, inode,
                   alive, deletes, phase, owns, aside>>

\* Mutant: the recorded host is not asked for.
CancelableAlways == Active /\ ~HostGone

\* Without a recorded host there is nobody to signal: the cancel is local.
CancelableLocally == Active /\ ~HostGone /\ pid = NoProc

\* _cancel_local_session: the meta its caller loaded decides.
CancelRead(p) ==
    /\ Client(p) /\ CancelableLocally
    /\ Goto(p, "cancel")
    /\ UNCHANGED <<disk, env, lock, reserved, inode, alive, arg, deletes, phase, owns,
                   aside>>

\* transition(canceled), or finalize_turn for a one-shot session.
CancelLocal(p) ==
    /\ At(p, "cancel") /\ Free(p)
    /\ IF "canceled" \notin Allowed(status)
         THEN Goto(p, "idle") /\ UNCHANGED <<status, answer, arg, lock>>
         ELSE IF Reduces
         THEN /\ lock' = p
              /\ answer' = [turn |-> turns, real |-> FALSE]
              /\ arg' = [arg EXCEPT ![p] = "canceled"]
              /\ Goto(p, "finEvent")
              /\ UNCHANGED status
         ELSE /\ status' = "canceled"
              /\ Goto(p, "idle")
              /\ UNCHANGED <<answer, arg, lock>>
    /\ UNCHANGED <<turns, pid, retained, oneShot, prompt, parked, transcript, tombstone,
                   env, reserved, inode, alive, deletes, phase, owns, aside>>

-----------------------------------------------------------------------------
(* Continuing: session_reservation, then rotate_turn.                      *)

\* Mutant: an active session is reserved as well.
ReservableActive == Exists /\ ~oneShot /\ turns < MaxTurn

Reservable == Finished /\ ~oneShot /\ turns < MaxTurn

\* The reservation fails at once when the lock is held or the turn is active.
\* A direct client connects and restores its adapter while it holds it.
Reserve(p) ==
    /\ Client(p) /\ lock = NoProc /\ Reservable
    /\ Undisturbed(p) /\ (timely => \A q \in alive : phase[q] \notin {"setup", "broken"})
    /\ lock' = p /\ reserved' = p
    /\ Goto(p, "prepare")
    /\ UNCHANGED <<disk, env, inode, alive, arg, deletes, phase, owns, aside>>

\* Preparation failed: only the lock is given back.
AbandonReservation(p) ==
    /\ At(p, "prepare")
    /\ lock' = NoProc /\ reserved' = NoProc
    /\ Goto(p, "idle")
    /\ UNCHANGED <<disk, env, inode, alive, arg, deletes, phase, owns, aside>>

\* rotate_turn parks meta.json first, unless an interrupted rotation did.
RotateParkMeta(p) ==
    /\ At(p, "prepare")
    /\ parkedMeta' = [parkedMeta EXCEPT ![turns] = IF @ = "none" THEN status ELSE @]
    /\ Goto(p, "rotPrompt")
    /\ UNCHANGED <<meta, parkedPrompt, parkedAnswer, answer, prompt, transcript,
                   tombstone, env, lock, reserved, inode, alive, arg, deletes, phase,
                   owns, aside>>

\* Each file is renamed once: only when it exists and its parked name is free.
RotateParkPrompt(p) ==
    /\ At(p, "rotPrompt")
    /\ IF prompt # 0 /\ parkedPrompt[turns] = 0
         THEN /\ parkedPrompt' = [parkedPrompt EXCEPT ![turns] = prompt]
              /\ prompt' = 0
         ELSE UNCHANGED <<parkedPrompt, prompt>>
    /\ Goto(p, "rotAnswer")
    /\ UNCHANGED <<meta, parkedMeta, parkedAnswer, answer, transcript, tombstone, env,
                   lock, reserved, inode, alive, arg, deletes, phase, owns, aside>>

\* Mutants: renamed whatever is there; not renamed at all.
ParkableAlways == TRUE
ParkableNever == FALSE

Parkable == answer # NoAnswer /\ parkedAnswer[turns] = NoAnswer

RotateParkAnswer(p) ==
    /\ At(p, "rotAnswer")
    /\ IF Parkable
         THEN /\ parkedAnswer' = [parkedAnswer EXCEPT ![turns] = answer]
              /\ answer' = NoAnswer
         ELSE UNCHANGED <<parkedAnswer, answer>>
    /\ Goto(p, "rotWrite")
    /\ UNCHANGED <<meta, parkedMeta, parkedPrompt, prompt, transcript, tombstone, env,
                   lock, reserved, inode, alive, arg, deletes, phase, owns, aside>>

RotateWritePrompt(p) ==
    /\ At(p, "rotWrite")
    /\ prompt' = turns + 1
    /\ Goto(p, "rotMeta")
    /\ UNCHANGED <<meta, answer, parked, transcript, tombstone, env, lock, reserved,
                   inode, alive, arg, deletes, phase, owns, aside>>

\* meta.json last.  The daemon leaves the reservation here; a direct client
\* (direct = TRUE) keeps it, and with it the lock, until its turn ends.
RotatePublish(p, direct) ==
    /\ At(p, "rotMeta")
    /\ status' = "running" /\ turns' = turns + 1 /\ pid' = p
    /\ phase' = [phase EXCEPT ![p] = "driving"]
    /\ owns' = [owns EXCEPT ![p] = turns + 1]
    /\ IF direct THEN UNCHANGED <<lock, reserved>>
                 ELSE lock' = NoProc /\ reserved' = NoProc
    /\ Goto(p, "idle")
    /\ UNCHANGED <<retained, oneShot, answer, prompt, parked, transcript, tombstone, env,
                   inode, alive, arg, deletes, aside>>

-----------------------------------------------------------------------------
(* Collecting a one-shot answer (pending_delivery), and deleting.          *)

\* The consumer has seen a finished turn and opens answer.md ...
DeliverOpen(p) ==
    /\ Client(p) /\ oneShot /\ Finished /\ answer # NoAnswer
    /\ Goto(p, "dlvWait")
    /\ UNCHANGED <<disk, env, lock, reserved, inode, alive, arg, deletes, phase, owns,
                   aside>>

\* Mutant: what another consumer did while this one waited is not asked for.
PendingAlways == TRUE

\* The path still names an answer.
Pending == answer # NoAnswer

\* ... locks the inode it opened, and looks whether the path still exists.
DeliverLock(p) ==
    /\ At(p, "dlvWait") /\ inode = NoProc
    /\ IF Pending
         THEN Goto(p, "dlvEmit") /\ inode' = p
         ELSE Goto(p, "idle") /\ UNCHANGED inode
    /\ UNCHANGED <<disk, env, lock, reserved, alive, arg, deletes, phase, owns,
                   aside>>

\* The caller writes the answer out; a failed write leaves it pending.
DeliverEmit(p) ==
    /\ At(p, "dlvEmit")
    /\ \/ emitted' = emitted \cup {p} /\ Goto(p, "dlvDrop") /\ UNCHANGED inode
       \/ inode' = NoProc /\ Goto(p, "idle") /\ UNCHANGED emitted
    /\ UNCHANGED <<disk, env, lock, reserved, alive, arg, deletes, phase, owns, correcting>>

\* Only now the session lock, to remove both pending files.
DeliverDrop(p) ==
    /\ At(p, "dlvDrop") /\ Free(p)
    /\ answer' = NoAnswer /\ endings' = << >> /\ events' = FALSE
    /\ inode' = NoProc
    /\ Goto(p, "idle")
    /\ UNCHANGED <<meta, prompt, parked, tombstone, env, lock, reserved, alive, arg,
                   deletes, phase, owns, aside>>

\* delete_session: liveness is verified under the lock, so a session whose
\* host is gone becomes unknown first; an active one is refused.
DeleteBegin(p) ==
    /\ Client(p) /\ Free(p)
    /\ \/ HostGone /\ WritePlaceholder(p)
       \/ Finished /\ lock' = p /\ Goto(p, "delFiles") /\ UNCHANGED <<answer, arg>>
    /\ deletes' = deletes \cup {p}
    /\ UNCHANGED <<meta, prompt, parked, transcript, tombstone, env, reserved, inode,
                   alive, phase, owns, aside>>

\* _clear_directory unlinks in reverse name order: transcript and prompts,
\* then meta.json, then the parked metadata and every answer.
DeleteFiles(p) ==
    /\ At(p, "delFiles")
    /\ endings' = << >> /\ events' = FALSE
    /\ prompt' = 0
    /\ parkedPrompt' = [n \in Turn |-> 0]
    /\ Goto(p, "delMeta")
    /\ UNCHANGED <<meta, parkedMeta, parkedAnswer, answer, tombstone, env, lock,
                   reserved, inode, alive, arg, deletes, phase, owns, aside>>

DeleteMeta(p) ==
    /\ At(p, "delMeta")
    /\ status' = "gone"
    /\ Goto(p, "delRest")
    /\ UNCHANGED <<turns, pid, retained, oneShot, answer, prompt, parked, transcript,
                   tombstone, env, lock, reserved, inode, alive, arg, deletes, phase,
                   owns, aside>>

DeleteRest(p) ==
    /\ At(p, "delRest")
    /\ UnparkAll
    /\ answer' = NoAnswer
    /\ Goto(p, "delTomb")
    /\ UNCHANGED <<meta, prompt, transcript, tombstone, env, lock, reserved, inode,
                   alive, arg, deletes, phase, owns, aside>>

WriteTombstone(p) ==
    /\ At(p, "delTomb")
    /\ tombstone' = TRUE
    /\ deletes' = deletes \ {p}
    /\ arg' = [arg EXCEPT ![p] = "none"]
    /\ Leave(p) /\ Goto(p, "idle")
    /\ UNCHANGED <<meta, answer, prompt, parked, transcript, env, reserved, inode, alive,
                   phase, owns, aside>>

-----------------------------------------------------------------------------
(* The transcript: opening it creates it with its header, and so does an    *)
(* append.  Of its writers only the terminal event takes the session lock.  *)

\* The events of a turn, from its preparation until its host lets go of it.
AppendEvent(p) ==
    /\ At(p, "prepare") \/ (At(p, "idle") /\ phase[p] # "none")
    /\ events' = TRUE
    /\ UNCHANGED <<meta, answer, prompt, parked, endings, tombstone, env, lock, reserved,
                   inode, alive, procs, aside>>

\* _steer, in the turn's daemon.  Bound: one correction at a time.
SendSteer(p) ==
    /\ At(p, "idle") /\ phase[p] \in {"driving", "holding"} /\ correcting = NoProc
    /\ correcting' = p
    /\ UNCHANGED <<disk, env, lock, reserved, inode, alive, procs, emitted>>

\* _record_steer: the answer comes when it comes, and the correction is recorded
\* whatever became of the turn and of the session.
RecordSteer(p) ==
    /\ At(p, "idle") /\ correcting = p
    /\ correcting' = NoProc /\ events' = TRUE
    /\ UNCHANGED <<meta, answer, prompt, parked, endings, tombstone, env, lock, reserved,
                   inode, alive, procs, emitted>>

\* _steering_reply: no answer in time, or none that is recorded.
DropSteer(p) ==
    /\ At(p, "idle") /\ correcting = p
    /\ correcting' = NoProc
    /\ UNCHANGED <<disk, env, lock, reserved, inode, alive, procs, emitted>>

\* _follow_up_request, before `continue` reserves anything: meta.json is read,
\* then the transcript opened.
FollowUpRead(p) ==
    /\ Client(p) /\ Finished /\ retained
    /\ Goto(p, "follow")
    /\ UNCHANGED <<disk, env, lock, reserved, inode, alive, arg, deletes, phase, owns,
                   aside>>
FollowUpOpen(p) ==
    /\ At(p, "follow")
    /\ events' = TRUE
    /\ Goto(p, "idle")
    /\ UNCHANGED <<meta, answer, prompt, parked, endings, tombstone, env, lock, reserved,
                   inode, alive, arg, deletes, phase, owns, aside>>

-----------------------------------------------------------------------------
\* A process is killed; some process remains to look at what it left.
Crash(p) ==
    /\ p \in alive /\ alive # {p}
    /\ alive' = alive \ {p}
    /\ lock' = IF lock = p THEN NoProc ELSE lock
    /\ reserved' = IF reserved = p THEN NoProc ELSE reserved
    /\ inode' = IF inode = p THEN NoProc ELSE inode
    /\ Goto(p, "idle")
    /\ arg' = [arg EXCEPT ![p] = "none"]
    /\ deletes' = deletes \ {p}
    /\ phase' = [phase EXCEPT ![p] = "none"]
    /\ owns' = [owns EXCEPT ![p] = 0]
    /\ correcting' = IF correcting = p THEN NoProc ELSE correcting
    /\ UNCHANGED <<disk, env, emitted>>

\* The rest of an operation that has begun.
Proceed(p) ==
    \/ CreatePublish(p)
    \/ FinalizeAnswer(p) \/ FinalizeEvent(p) \/ FinalizeDrop(p) \/ FinalizeMeta(p)
    \/ PersistUnknown(p) \/ CancelLocal(p)
    \/ RotateParkMeta(p) \/ RotateParkPrompt(p) \/ RotateParkAnswer(p)
    \/ RotateWritePrompt(p) \/ \E direct \in BOOLEAN : RotatePublish(p, direct)
    \/ DeliverLock(p) \/ DeliverEmit(p) \/ DeliverDrop(p)
    \/ DeleteFiles(p) \/ DeleteMeta(p) \/ DeleteRest(p) \/ WriteTombstone(p)
    \/ FollowUpOpen(p)

Next ==
    \/ GraceLapses
    \/ \E p \in Proc :
         \/ Proceed(p)
         \/ CreateBegin(p) \/ MarkRunning(p) \/ HoldForLimit(p) \/ ResumeAfterLimit(p)
         \/ \E to \in FinishedState : FinalizeRead(p, to)
         \/ LoadRead(p) \/ CancelRead(p)
         \/ Reserve(p) \/ AbandonReservation(p)
         \/ DeliverOpen(p) \/ DeleteBegin(p)
         \/ AppendEvent(p) \/ SendSteer(p) \/ RecordSteer(p) \/ DropSteer(p)
         \/ FollowUpRead(p)
         \/ Crash(p)

Spec == Init /\ [][Next]_vars

\* A running process gets on with what it began, and some acpc command keeps
\* reading the session, as every `wait` without a daemon does in its poll loop.
FairSpec ==
    /\ Spec
    /\ WF_vars(GraceLapses)
    /\ \A p \in Proc : WF_vars(Proceed(p)) /\ WF_vars(LoadRead(p))

-----------------------------------------------------------------------------
(* What must hold.                                                         *)

\* What `wait` learns about turn n, reading meta.json, then meta.<n>.json.
Report(n) ==
    IF ~Exists \/ n > turns THEN "none"
    ELSE IF n < turns THEN parkedMeta[n]
    ELSE IF Finished THEN status ELSE "none"

Ledger == INSTANCE TurnLedger WITH turn <- turns, status <- status,
                                   record <- [n \in Turn |-> Report(n)]

\* The store implements TurnLedger: every turn gets exactly one outcome, which
\* each later reader is told, through rotations, interrupted ones, late hosts
\* and racing readers, until the session is removed for good.
Implements == Ledger!LedgerSpec

\* The texts in answer.md and answer.<n>.md are of the turn they stand for.
AnswerOfItsTurn ==
    /\ Exists => answer.turn \in {0, turns}
    /\ \A n \in Turn : parkedAnswer[n].turn \in {0, n}
\* ... in a timely environment.
TimelyAnswerOfItsTurn == timely => AnswerOfItsTurn

\* A turn recorded as succeeded has its owner's answer on disk, in answer.md or
\* in answer.<n>.md, until it is delivered or deleted: no interrupted rotation,
\* unknown verdict or cancel loses it.
SucceededAnswerKept ==
    timely /\ emitted = {} => \A n \in Turn : Report(n) = "succeeded" =>
        [turn |-> n, real |-> TRUE] \in {answer, parkedAnswer[n]}

\* At most one living process drives a turn of the session: a turn is never
\* called finished, and the next one opened, behind its host's back.
OneDriver ==
    timely => \A p, q \in alive :
        {phase[p], phase[q]} \subseteq {"driving", "holding"} => p = q

\* An active session becomes `unknown` only when its host is gone, or never
\* recorded itself within the grace.
UnknownOnlyWhenGone == [][status' = "unknown" /\ Active => HostGone]_vars
TimelyUnknown == [][timely /\ status' = "unknown" /\ Active => HostGone]_vars

\* No reader sees a finished one-shot session that is still whole.
NoWholeOneShot ==
    oneShot /\ Finished =>
        /\ ~retained /\ prompt = 0
        /\ NothingParked

\* The pending answer of a one-shot session is delivered at least once before
\* it goes, and by at most one consumer that lives to tell.
DeliveredOnce ==
    /\ oneShot /\ Finished => answer # NoAnswer \/ emitted # {}
    /\ \A p, q \in emitted \cap alive : p = q

\* Processes that write to the transcript without asking whether the session is
\* still there: a host at work, one that awaits the answer to a correction, and
\* a `continue` that has read meta.json.
LateWriter(p) == p \in alive /\ (phase[p] # "none" \/ correcting = p \/ pc[p] = "follow")

\* Nothing brings a deleted session back: no late outcome of its host, no
\* reader's verdict, cancel, rotation or consumer writes its metadata, prompts,
\* answers or endings again.  Only a transcript may reappear beside the marker
\* (against "removed together", SPEC.md:140), written by a process that was at it
\* without the lock when the session was deleted: once the last of these is
\* gone, nothing does (delete_session, Transcript.append).
DeletedForGood ==
    [][tombstone =>
          /\ UNCHANGED <<meta, answer, prompt, parked, endings, tombstone>>
          /\ ~Exists /\ answer = NoAnswer /\ prompt = 0 /\ NothingParked /\ endings = << >>
          /\ ~events /\ events' => \E p \in Proc : LateWriter(p)
          /\ \A p \in Proc : LateWriter(p)' => LateWriter(p)]_vars

\* A turn whose host died, or died before it recorded itself, does not stay
\* active forever, unless every process left is itself busy as a host.
HostLost(n) ==
    /\ Active /\ turns = n
    /\ IF pid = NoProc THEN \A p \in alive : owns[p] # n ELSE pid \notin alive
LostTurnEnds ==
    \A n \in Turn : HostLost(n) ~> (~HostLost(n) \/ \A p \in alive : phase[p] # "none")

\* SPEC.md, State on disk: "`answer.md` exists for every finished state."
\* (asked only while nobody works under the session lock)
FinishedHasAnswer == Finished /\ lock = NoProc /\ ~oneShot => answer # NoAnswer

\* cli._turn_terminal_state reads the ending of a past turn as the turn-th
\* terminal event of the transcript.
EndingOf(n) == IF n <= Len(endings) THEN endings[n] ELSE [turn |-> n, state |-> "unknown"]
\* ... which is to be "that turn's own ending".
EndingIsItsTurns == timely /\ Exists => \A n \in 1..turns - 1 : EndingOf(n).turn = n

=============================================================================
