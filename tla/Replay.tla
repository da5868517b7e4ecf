-------------------------------- MODULE Replay --------------------------------
(***************************************************************************)
(* One warm adapter connection that serves several sessions (daemon.py,    *)
(* _MultiplexClient), and what keeps the history an adapter replays while  *)
(* it restores a session out of the turn that follows (client.py,          *)
(* ReplayTracker).  A frame is tagged when it is received and handled when *)
(* its callback runs, in order, which may be after the restore is over.    *)
(***************************************************************************)
EXTENDS Naturals, Sequences, FiniteSets

CONSTANTS
    Adapted,        \* adapter sessions
    MaxFrames,      \* bound: frames sent
    MaxGenerations, \* bound: restores
    Retained        \* MAX_RETAINED_CLOSED_REPLAY_GENERATIONS (64)

VARIABLES
    flow,       \* of each session's turn: how far it is
    loading,    \* sessions the adapter is restoring
    queue,      \* frames received whose callbacks have not run
    tracker,    \* the generations that are kept, and how many there were
    recorded    \* what reached each session's turn

rvars == <<flow, loading, queue, tracker, recorded>>

Idle4 == [pc |-> "idle"]
Active2(s) == {g \in DOMAIN tracker.kept : tracker.kept[g].session = s /\ tracker.kept[g].active}
Forgets(kept, gone) == [g \in DOMAIN kept \ gone |-> kept[g]]
\* A closed generation is released when every frame it tagged was handled.
AccountedNever(record) == TRUE                  \* mutant: once it is closed
Accounted(record) == record.tagged = record.seen
Settled(kept) ==
    Forgets(kept, {g \in DOMAIN kept : ~kept[g].active /\ Accounted(kept[g])})
\* The oldest closed generations beyond the limit are evicted.
Closed1(kept) == {g \in DOMAIN kept : ~kept[g].active}
Overdue(kept) ==
    {g \in Closed1(kept) : Cardinality({h \in Closed1(kept) : h > g}) >= Retained}

Goes1(s, pc) == flow' = [flow EXCEPT ![s].pc = pc]

----------------------------------------------------------------------------
\* _MultiplexClient.bind: a client of a new turn, not while a restore is open.
BindClient(s) ==
    /\ flow[s].pc = "idle" /\ Active2(s) = {}
    /\ Goes1(s, "bound")
    /\ recorded' = [recorded EXCEPT ![s] = {}]
    /\ UNCHANGED <<loading, queue, tracker>>
\* replaying: open a generation and ask the adapter for the restore.
Restore(s) ==
    /\ flow[s].pc = "bound" /\ tracker.last < MaxGenerations
    /\ LET g == tracker.last + 1 IN
        tracker' = [tracker EXCEPT !.last = g,
            !.kept = [h \in DOMAIN @ \cup {g} |->
                        IF h \in DOMAIN @ THEN @[h]
                        ELSE [session |-> s, active |-> TRUE, tagged |-> {}, seen |-> {}]]]
    /\ loading' = loading \cup {s}
    /\ Goes1(s, "restoring")
    /\ UNCHANGED <<queue, recorded>>
\* _process_message: tag_message, before the frame enters the queue.
Receive(s, origin) ==
    /\ tracker.frames < MaxFrames
    /\ LET n == tracker.frames + 1
           tagged == [g \in DOMAIN tracker.kept |->
                        IF g \in Active2(s) THEN [tracker.kept[g] EXCEPT !.tagged = @ \cup {n}]
                        ELSE tracker.kept[g]]
       IN /\ tracker' = [tracker EXCEPT !.frames = n, !.kept = tagged]
          /\ queue' = Append(queue, [n |-> n, session |-> s, origin |-> origin,
                                     tags |-> Active2(s)])
SendReplay(s) ==
    /\ s \in loading /\ Receive(s, "replay")
    /\ UNCHANGED <<flow, loading, recorded>>
\* The response; the task that waits for it closes the generation later.
AnswerLoad(s) ==
    /\ s \in loading
    /\ loading' = loading \ {s}
    /\ UNCHANGED <<flow, queue, tracker, recorded>>
\* ReplayTracker.close.  The turn goes on, or the restore failed or its task was
\* canceled and the client is released; a restore that is abandoned while the
\* adapter is still at it keeps the client until the adapter has answered.
CloseGeneration(s) ==
    /\ flow[s].pc = "restoring"
    /\ LET kept == Settled([g \in DOMAIN tracker.kept |->
                        [tracker.kept[g] EXCEPT !.active = @ /\ g \notin Active2(s)]])
       IN tracker' = [tracker EXCEPT !.kept = Forgets(kept, Overdue(kept)),
                                     !.evicted = @ \cup Overdue(kept)]
    /\ \/ Goes1(s, "idle")
       \/ Goes1(s, IF s \in loading THEN "abandoned" ELSE "ready")
    /\ UNCHANGED <<loading, queue, recorded>>
Settle(s) ==
    /\ flow[s].pc = "abandoned" /\ s \notin loading
    /\ Goes1(s, "idle")
    /\ UNCHANGED <<loading, queue, tracker, recorded>>
\* A turn that needs no restore prompts at once.
Prompt1(s) ==
    /\ flow[s].pc \in {"bound", "ready"} /\ s \notin loading
    /\ Goes1(s, "prompting")
    /\ UNCHANGED <<loading, queue, tracker, recorded>>
SendLive(s) ==
    /\ flow[s].pc = "prompting" /\ Receive(s, "live")
    /\ UNCHANGED <<flow, loading, recorded>>
ReleaseClient(s) ==
    /\ flow[s].pc \in {"bound", "ready", "prompting"}
    /\ Goes1(s, "idle")
    /\ UNCHANGED <<loading, queue, tracker, recorded>>

\* session_update, the multiplexer's and then the client's: routed by the
\* session captured on receipt; a known tag is accounted for and its frame is
\* dropped, as is one for no client or for a client that is being restored.
Routed(frame) == frame.session
Known(frame) == frame.tags \cap DOMAIN tracker.kept
Takes(s) == flow[s].pc \in {"bound", "ready", "prompting", "abandoned"}
Handle ==
    /\ queue # <<>>
    /\ queue' = Tail(queue)
    /\ LET frame == Head(queue)
           to == Routed(frame)
       IN /\ tracker' = [tracker EXCEPT !.kept =
                Settled([g \in DOMAIN tracker.kept |->
                            IF g \in Known(frame)
                            THEN [tracker.kept[g] EXCEPT !.seen = @ \cup {frame.n}]
                            ELSE tracker.kept[g]])]
          /\ recorded' = IF Known(frame) = {} /\ Takes(to)
                         THEN [recorded EXCEPT ![to] = @ \cup
                                    {[session |-> frame.session, tags |-> frame.tags]}]
                         ELSE recorded
    /\ UNCHANGED <<flow, loading>>

----------------------------------------------------------------------------
ReplayInit ==
    /\ flow = [s \in Adapted |-> Idle4] /\ loading = {} /\ queue = <<>>
    /\ tracker = [last |-> 0, frames |-> 0, evicted |-> {},
                  kept |-> [g \in {} |-> Idle4]]
    /\ recorded = [s \in Adapted |-> {}]
ReplayNext ==
    \/ \E s \in Adapted :
        \/ BindClient(s) \/ Restore(s) \/ SendReplay(s) \/ AnswerLoad(s) \/ CloseGeneration(s)
        \/ Settle(s) \/ Prompt1(s) \/ SendLive(s) \/ ReleaseClient(s)
    \/ Handle
ReplaySpec == ReplayInit /\ [][ReplayNext]_rvars

----------------------------------------------------------------------------
\* History that was received during a restore never becomes part of a turn, of
\* this session or of another one on the connection, however late its callback
\* runs, unless its generation was evicted; and no live update of the turn is
\* taken for history or misfiled.
HistoryStaysOut ==
    \A s \in Adapted :
        /\ \A frame \in recorded[s] :
            /\ frame.session = s
            /\ frame.tags = {} \/ frame.tags \subseteq tracker.evicted
        /\ \A i \in DOMAIN queue : queue[i].origin = "live" => queue[i].tags = {}
=============================================================================
