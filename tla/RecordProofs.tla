----------------------------- MODULE RecordProofs -----------------------------
(***************************************************************************)
(* What is proved of the records acpc keeps of what an adapter reports:    *)
(* the updates of a restored session (Replay), the accounting of its       *)
(* tokens (Usage), the file of events and those who follow it              *)
(* (Transcript), and what the events tell of the answer (Answer).  Each    *)
(* has an invariant that its actions preserve, and that implies the        *)
(* properties the run checks.                                              *)
(***************************************************************************)
EXTENDS Replay, Usage, Transcript, Answer, FiniteSetTheorems, SequenceTheorems,
        WellFoundedInduction, TLAPS

----------------------------------------------------------------------------
(* Replay.                                                                  *)

FlowPlaces == {"idle", "bound", "restoring", "abandoned", "ready", "prompting"}
Frames1 == [n : Nat, session : Adapted, origin : {"replay", "live"}, tags : SUBSET Nat]
Generations == [session : Adapted, active : BOOLEAN, tagged : SUBSET Nat, seen : SUBSET Nat]
ReplayTypes ==
    /\ flow \in [Adapted -> [pc : FlowPlaces]] /\ queue \in Seq(Frames1)
    /\ tracker = [last |-> tracker.last, frames |-> tracker.frames,
                  evicted |-> tracker.evicted, kept |-> tracker.kept]
    /\ tracker.last \in Nat /\ tracker.frames \in Nat
    /\ DOMAIN tracker.kept \subseteq Nat
    /\ tracker.kept \in [DOMAIN tracker.kept -> Generations]
    /\ recorded \in [Adapted -> SUBSET [session : Adapted, tags : SUBSET Nat]]

\* A generation is open only while its session is being restored.
OpenForRestore ==
    \A g \in DOMAIN tracker.kept :
        tracker.kept[g].active => flow[tracker.kept[g].session].pc = "restoring"
\* Frames are numbered as they come in; what was handled has a number, too.
InSequence ==
    /\ \A i \in 1..Len(queue) : queue[i].n <= tracker.frames
    /\ \A i, j \in 1..Len(queue) : i < j => queue[i].n < queue[j].n
    /\ \A g \in DOMAIN tracker.kept : \A m \in tracker.kept[g].seen : m <= tracker.frames
\* While a tagged frame waits, its generation waits for it or was evicted.
Awaited ==
    \A i \in 1..Len(queue) : \A g \in queue[i].tags :
        \/ g \in tracker.evicted
        \/ /\ g \in DOMAIN tracker.kept
           /\ queue[i].n \in tracker.kept[g].tagged \ tracker.kept[g].seen
RecordedIsLive ==
    \A s \in Adapted : \A frame \in recorded[s] :
        /\ frame.session = s
        /\ frame.tags = {} \/ frame.tags \subseteq tracker.evicted
LiveUntagged == \A i \in 1..Len(queue) : queue[i].origin = "live" => queue[i].tags = {}

ReplayInv ==
    ReplayTypes /\ OpenForRestore /\ InSequence /\ Awaited /\ RecordedIsLive /\ LiveUntagged

\* What stays after the generations that are accounted for are released.
LEMMA SettledKeeps ==
    ASSUME NEW kept
    PROVE  /\ DOMAIN Settled(kept) \subseteq DOMAIN kept
           /\ \A g \in DOMAIN Settled(kept) : Settled(kept)[g] = kept[g]
           /\ \A g \in DOMAIN kept : kept[g].tagged # kept[g].seen => g \in DOMAIN Settled(kept)
           /\ Settled(kept) = [g \in DOMAIN Settled(kept) |-> Settled(kept)[g]]
  BY DEF Settled, Forgets, Accounted

\* A restore opens one more generation.
LEMMA RestoreKeeps ==
    ASSUME ReplayInv, NEW s \in Adapted, Restore(s) PROVE ReplayInv'
  <1> DEFINE g1 == tracker.last + 1
             Fresh == [session |-> s, active |-> TRUE, tagged |-> {}, seen |-> {}]
  <1>t. ReplayTypes
    BY DEF ReplayInv
  <1>1. /\ flow[s].pc = "bound" /\ flow' = [flow EXCEPT ![s].pc = "restoring"]
        /\ UNCHANGED <<queue, recorded>>
    BY DEF Restore, Goes1
  <1>2. /\ tracker'.kept = [h \in DOMAIN tracker.kept \cup {g1} |->
                              IF h \in DOMAIN tracker.kept THEN tracker.kept[h] ELSE Fresh]
        /\ tracker'.frames = tracker.frames /\ tracker'.evicted = tracker.evicted
        /\ tracker'.last = g1
        /\ tracker' = [last |-> tracker'.last, frames |-> tracker'.frames,
                       evicted |-> tracker'.evicted, kept |-> tracker'.kept]
    BY <1>t DEF Restore, ReplayTypes
  <1>3. /\ DOMAIN tracker'.kept = DOMAIN tracker.kept \cup {g1}
        /\ \A h \in DOMAIN tracker.kept : tracker'.kept[h] = tracker.kept[h]
        /\ \A h \in DOMAIN tracker'.kept : h \notin DOMAIN tracker.kept => tracker'.kept[h] = Fresh
    BY <1>2
  <1>4. Fresh \in Generations
    BY DEF Generations
  <1> HIDE DEF Fresh
  <1>5. ReplayTypes'
    <2>1. flow' \in [Adapted -> [pc : FlowPlaces]]
      BY <1>t, <1>1 DEF ReplayTypes, FlowPlaces
    <2>2. g1 \in Nat
      BY <1>t DEF ReplayTypes
    <2>3. tracker'.kept \in [DOMAIN tracker'.kept -> Generations]
      BY <1>t, <1>2, <1>3, <1>4 DEF ReplayTypes
    <2> QED
      BY <1>t, <1>1, <1>2, <1>3, <2>1, <2>2, <2>3 DEF ReplayTypes
  <1>6. OpenForRestore'
    <2> SUFFICES ASSUME NEW h \in DOMAIN tracker'.kept, tracker'.kept[h].active
                 PROVE  flow'[tracker'.kept[h].session].pc = "restoring"
      BY DEF OpenForRestore
    <2>1. CASE h \in DOMAIN tracker.kept
      <3>1. tracker'.kept[h] = tracker.kept[h] /\ tracker.kept[h].session \in Adapted
        BY <2>1, <1>3, <1>t DEF ReplayTypes, Generations
      <3>2. flow[tracker.kept[h].session].pc = "restoring"
        BY <2>1, <3>1 DEF ReplayInv, OpenForRestore
      <3> QED
        BY <3>1, <3>2, <1>1, <1>t DEF ReplayTypes
    <2>2. CASE h \notin DOMAIN tracker.kept
      BY <2>2, <1>1, <1>3, <1>t DEF ReplayTypes, Fresh
    <2> QED
      BY <2>1, <2>2
  <1>7. InSequence'
    BY <1>1, <1>2, <1>3 DEF ReplayInv, InSequence, Fresh
  <1>8. Awaited'
    BY <1>1, <1>2, <1>3 DEF ReplayInv, Awaited
  <1>9. RecordedIsLive' /\ LiveUntagged'
    BY <1>1, <1>2 DEF ReplayInv, RecordedIsLive, LiveUntagged
  <1> QED
    BY <1>5, <1>6, <1>7, <1>8, <1>9 DEF ReplayInv

\* What is received is tagged with the open generations of its session, which
\* wait for it from then on.
LEMMA ReceiveKeeps ==
    ASSUME ReplayInv, NEW s \in Adapted, NEW origin \in {"replay", "live"}, Receive(s, origin),
           origin = "live" => flow[s].pc = "prompting",
           UNCHANGED <<flow, loading, recorded>>
    PROVE  ReplayInv'
  <1> DEFINE n1 == tracker.frames + 1
             fr == [n |-> n1, session |-> s, origin |-> origin, tags |-> Active2(s)]
  <1>t. ReplayTypes
    BY DEF ReplayInv
  <1>1. /\ tracker'.kept = [g \in DOMAIN tracker.kept |->
                             IF g \in Active2(s)
                             THEN [tracker.kept[g] EXCEPT !.tagged = @ \cup {n1}]
                             ELSE tracker.kept[g]]
        /\ tracker'.frames = n1 /\ tracker'.evicted = tracker.evicted
        /\ tracker'.last = tracker.last
        /\ tracker' = [last |-> tracker'.last, frames |-> tracker'.frames,
                       evicted |-> tracker'.evicted, kept |-> tracker'.kept]
        /\ queue' = Append(queue, fr)
    BY <1>t DEF Receive, ReplayTypes
  <1>2. Active2(s) \subseteq DOMAIN tracker.kept /\ Active2(s) \subseteq Nat
    BY <1>t DEF Active2, ReplayTypes
  <1>n. n1 \in Nat /\ tracker.frames \in Nat /\ n1 > tracker.frames
    BY <1>t DEF ReplayTypes
  <1> HIDE DEF n1
  <1>3. fr \in Frames1
    BY <1>2, <1>n DEF Frames1
  <1>4. /\ Len(queue') = Len(queue) + 1 /\ Len(queue) \in Nat
        /\ \A i \in 1..Len(queue) : queue'[i] = queue[i] /\ queue[i] \in Frames1
        /\ queue'[Len(queue) + 1] = fr
        /\ queue' \in Seq(Frames1)
    BY <1>1, <1>3, <1>t DEF ReplayTypes
  <1>5. ASSUME NEW g \in DOMAIN tracker.kept
        PROVE  /\ tracker'.kept[g] \in Generations
               /\ tracker'.kept[g].session = tracker.kept[g].session
               /\ tracker'.kept[g].active = tracker.kept[g].active
               /\ tracker'.kept[g].seen = tracker.kept[g].seen
               /\ tracker.kept[g].tagged \subseteq tracker'.kept[g].tagged
               /\ g \in Active2(s) => n1 \in tracker'.kept[g].tagged
    <2>1. tracker.kept[g] \in Generations
      BY <1>t DEF ReplayTypes
    <2>2. CASE g \in Active2(s)
      <3>1. tracker'.kept[g] = [tracker.kept[g] EXCEPT !.tagged = @ \cup {n1}]
        BY <1>1, <2>2
      <3> QED
        BY <3>1, <2>1, <1>n DEF Generations
    <2>3. CASE g \notin Active2(s)
      <3>1. tracker'.kept[g] = tracker.kept[g]
        BY <1>1, <2>3
      <3> QED
        BY <3>1, <2>1, <2>3
    <2> QED
      BY <2>2, <2>3
  <1>6. DOMAIN tracker'.kept = DOMAIN tracker.kept
        /\ tracker'.kept = [g \in DOMAIN tracker'.kept |-> tracker'.kept[g]]
    BY <1>1
  <1>7. ReplayTypes'
    <2>1. tracker'.kept \in [DOMAIN tracker'.kept -> Generations]
      BY <1>5, <1>6
    <2> QED
      BY <1>t, <1>1, <1>4, <1>6, <1>n, <2>1 DEF ReplayTypes
  <1>8. OpenForRestore'
    BY <1>5, <1>6 DEF ReplayInv, OpenForRestore
  <1>9. InSequence'
    <2>1. \A i \in 1..Len(queue) : queue[i].n \in Nat /\ queue[i].n <= tracker.frames
      BY <1>4 DEF ReplayInv, InSequence, Frames1
    <2>2. \A i \in 1..Len(queue') : queue'[i].n <= tracker'.frames
      BY <2>1, <1>1, <1>4, <1>n
    <2>3. \A i, j \in 1..Len(queue') : i < j => queue'[i].n < queue'[j].n
      <3> TAKE i, j \in 1..Len(queue')
      <3> HAVE i < j
      <3>1. i \in 1..Len(queue)
        BY <1>4
      <3>2. CASE j \in 1..Len(queue)
        BY <3>1, <3>2, <1>4 DEF ReplayInv, InSequence
      <3>3. CASE j \notin 1..Len(queue)
        <4>1. queue'[j].n = n1
          BY <3>3, <1>4
        <4> QED
          BY <4>1, <3>1, <2>1, <1>4, <1>n
      <3> QED
        BY <3>2, <3>3
    <2>4. \A g \in DOMAIN tracker'.kept : \A m \in tracker'.kept[g].seen : m <= tracker'.frames
      <3> TAKE g \in DOMAIN tracker'.kept
      <3> TAKE m \in tracker'.kept[g].seen
      <3>1. m \in tracker.kept[g].seen /\ g \in DOMAIN tracker.kept
        BY <1>5, <1>6
      <3>2. m \in Nat
        BY <3>1, <1>t DEF ReplayTypes, Generations
      <3>3. m <= tracker.frames
        BY <3>1 DEF ReplayInv, InSequence
      <3> QED
        BY <3>2, <3>3, <1>1, <1>n
    <2> QED
      BY <2>2, <2>3, <2>4 DEF InSequence
  <1>10. Awaited'
    <2> SUFFICES ASSUME NEW i \in 1..Len(queue'), NEW g \in queue'[i].tags
                 PROVE  \/ g \in tracker'.evicted
                        \/ /\ g \in DOMAIN tracker'.kept
                           /\ queue'[i].n \in tracker'.kept[g].tagged \ tracker'.kept[g].seen
      BY DEF Awaited
    <2>1. CASE i \in 1..Len(queue)
      BY <2>1, <1>1, <1>4, <1>5, <1>6 DEF ReplayInv, Awaited
    <2>2. CASE i \notin 1..Len(queue)
      <3>1. queue'[i] = fr
        BY <2>2, <1>4
      <3>2. queue'[i].n = n1 /\ g \in Active2(s)
        BY <3>1
      <3>3. n1 \notin tracker.kept[g].seen
        <4>1. \A m \in tracker.kept[g].seen : m \in Nat /\ m <= tracker.frames
          BY <3>2, <1>2, <1>t DEF ReplayInv, InSequence, ReplayTypes, Generations
        <4> QED
          BY <4>1, <1>n
      <3> QED
        BY <3>2, <3>3, <1>2, <1>5, <1>6
    <2> QED
      BY <2>1, <2>2
  <1>11. RecordedIsLive'
    BY <1>1 DEF ReplayInv, RecordedIsLive
  <1>12. LiveUntagged'
    <2>1. origin = "live" => Active2(s) = {}
      <3> SUFFICES ASSUME origin = "live", NEW g \in Active2(s) PROVE FALSE
        OBVIOUS
      <3>1. g \in DOMAIN tracker.kept /\ tracker.kept[g].session = s /\ tracker.kept[g].active
        BY DEF Active2
      <3>2. flow[s].pc = "restoring"
        BY <3>1 DEF ReplayInv, OpenForRestore
      <3> QED
        BY <3>2
    <2> SUFFICES ASSUME NEW i \in 1..Len(queue'), queue'[i].origin = "live"
                 PROVE  queue'[i].tags = {}
      BY DEF LiveUntagged
    <2>2. CASE i \in 1..Len(queue)
      BY <2>2, <1>4 DEF ReplayInv, LiveUntagged
    <2>3. CASE i \notin 1..Len(queue)
      BY <2>1, <2>3, <1>4
    <2> QED
      BY <2>2, <2>3
  <1> QED
    BY <1>7, <1>8, <1>9, <1>10, <1>11, <1>12 DEF ReplayInv

\* What is released when a generation is closed has nothing left to wait for,
\* and what is given up is remembered as evicted.
LEMMA CloseKeeps ==
    ASSUME ReplayInv, NEW s \in Adapted, CloseGeneration(s) PROVE ReplayInv'
  <1> DEFINE closed == [g \in DOMAIN tracker.kept |->
                            [tracker.kept[g] EXCEPT !.active = @ /\ g \notin Active2(s)]]
             settled == Settled(closed)
             gone == Overdue(settled)
  <1>t. ReplayTypes
    BY DEF ReplayInv
  <1>1. /\ flow[s].pc = "restoring" /\ UNCHANGED <<queue, recorded>>
        /\ tracker'.kept = Forgets(settled, gone)
        /\ tracker'.evicted = tracker.evicted \cup gone
        /\ tracker'.frames = tracker.frames /\ tracker'.last = tracker.last
        /\ tracker' = [last |-> tracker'.last, frames |-> tracker'.frames,
                       evicted |-> tracker'.evicted, kept |-> tracker'.kept]
    BY <1>t DEF CloseGeneration, ReplayTypes
  <1>2. \E pc \in {"idle", "abandoned", "ready"} : flow' = [flow EXCEPT ![s].pc = pc]
    BY DEF CloseGeneration, Goes1
  <1>3. ASSUME NEW g \in DOMAIN tracker.kept
        PROVE  /\ closed[g] \in Generations
               /\ closed[g].session = tracker.kept[g].session
               /\ closed[g].active => tracker.kept[g].active /\ g \notin Active2(s)
               /\ closed[g].seen = tracker.kept[g].seen
               /\ closed[g].tagged = tracker.kept[g].tagged
    <2>1. tracker.kept[g] \in Generations
      BY <1>t DEF ReplayTypes
    <2>2. closed[g] = [tracker.kept[g] EXCEPT !.active = @ /\ g \notin Active2(s)]
      OBVIOUS
    <2>3. (tracker.kept[g].active /\ g \notin Active2(s)) \in BOOLEAN
      OBVIOUS
    <2> HIDE DEF closed
    <2> QED
      BY <2>1, <2>2, <2>3 DEF Generations
  <1>4. DOMAIN closed = DOMAIN tracker.kept
    OBVIOUS
  <1> HIDE DEF closed
  <1>5. /\ DOMAIN settled \subseteq DOMAIN tracker.kept
        /\ \A g \in DOMAIN settled : settled[g] = closed[g]
        /\ \A g \in DOMAIN tracker.kept :
              closed[g].tagged # closed[g].seen => g \in DOMAIN settled
    BY <1>4, SettledKeeps
  <1> HIDE DEF settled
  <1>6. /\ DOMAIN tracker'.kept = DOMAIN settled \ gone
        /\ \A g \in DOMAIN tracker'.kept : tracker'.kept[g] = closed[g]
        /\ tracker'.kept = [g \in DOMAIN tracker'.kept |-> tracker'.kept[g]]
    BY <1>1, <1>5 DEF Forgets
  <1> HIDE DEF gone
  <1>7. ReplayTypes'
    <2>1. tracker'.kept \in [DOMAIN tracker'.kept -> Generations]
      BY <1>3, <1>5, <1>6
    <2>2. flow' \in [Adapted -> [pc : FlowPlaces]]
      BY <1>t, <1>2 DEF ReplayTypes, FlowPlaces
    <2>3. DOMAIN tracker'.kept \subseteq Nat
      BY <1>t, <1>5, <1>6 DEF ReplayTypes
    <2> QED
      BY <1>t, <1>1, <2>1, <2>2, <2>3 DEF ReplayTypes
  <1>8. OpenForRestore'
    <2> SUFFICES ASSUME NEW g \in DOMAIN tracker'.kept, tracker'.kept[g].active
                 PROVE  flow'[tracker'.kept[g].session].pc = "restoring"
      BY DEF OpenForRestore
    <2>1. g \in DOMAIN tracker.kept /\ tracker'.kept[g] = closed[g]
      BY <1>5, <1>6
    <2>2. /\ tracker'.kept[g].session = tracker.kept[g].session
          /\ tracker.kept[g].active /\ g \notin Active2(s)
      BY <2>1, <1>3
    <2>3. flow[tracker.kept[g].session].pc = "restoring"
      BY <2>1, <2>2 DEF ReplayInv, OpenForRestore
    <2>4. tracker.kept[g].session # s
      BY <2>1, <2>2 DEF Active2
    <2>5. flow'[tracker.kept[g].session] = flow[tracker.kept[g].session]
      BY <2>4, <1>2
    <2> QED
      BY <2>2, <2>3, <2>5
  <1>9. InSequence'
    <2>1. \A g \in DOMAIN tracker'.kept :
            g \in DOMAIN tracker.kept /\ tracker'.kept[g].seen = tracker.kept[g].seen
      BY <1>3, <1>5, <1>6
    <2> QED
      BY <2>1, <1>1 DEF ReplayInv, InSequence
  <1>10. Awaited'
    <2> SUFFICES ASSUME NEW i \in 1..Len(queue), NEW g \in queue[i].tags
                 PROVE  \/ g \in tracker'.evicted
                        \/ /\ g \in DOMAIN tracker'.kept
                           /\ queue[i].n \in tracker'.kept[g].tagged \ tracker'.kept[g].seen
      BY <1>1 DEF Awaited
    <2>1. CASE g \in tracker.evicted
      BY <2>1, <1>1
    <2>2. CASE g \in DOMAIN tracker.kept
               /\ queue[i].n \in tracker.kept[g].tagged \ tracker.kept[g].seen
      <3>1. queue[i].n \in closed[g].tagged \ closed[g].seen
        BY <2>2, <1>3
      <3>2. g \in DOMAIN settled
        BY <2>2, <3>1, <1>5
      <3> QED
        BY <3>1, <3>2, <1>1, <1>6
    <2> QED
      BY <2>1, <2>2 DEF ReplayInv, Awaited
  <1>11. RecordedIsLive' /\ LiveUntagged'
    BY <1>1 DEF ReplayInv, RecordedIsLive, LiveUntagged
  <1> QED
    BY <1>7, <1>8, <1>9, <1>10, <1>11 DEF ReplayInv

\* The callback of a frame accounts for it, and records it only when no
\* generation that tagged it is left.
LEMMA HandleKeeps ==
    ASSUME ReplayInv, Handle PROVE ReplayInv'
  <1> DEFINE frame == Head(queue)
             accounted == [g \in DOMAIN tracker.kept |->
                            IF g \in Known(frame)
                            THEN [tracker.kept[g] EXCEPT !.seen = @ \cup {frame.n}]
                            ELSE tracker.kept[g]]
             mark == [session |-> frame.session, tags |-> frame.tags]
  <1>t. ReplayTypes
    BY DEF ReplayInv
  <1>1. /\ queue # <<>> /\ queue' = Tail(queue) /\ UNCHANGED flow
        /\ tracker'.kept = Settled(accounted)
        /\ tracker'.evicted = tracker.evicted
        /\ tracker'.frames = tracker.frames /\ tracker'.last = tracker.last
        /\ tracker' = [last |-> tracker'.last, frames |-> tracker'.frames,
                       evicted |-> tracker'.evicted, kept |-> tracker'.kept]
    <2>1. /\ queue # <<>> /\ queue' = Tail(queue) /\ UNCHANGED flow
          /\ tracker' = [tracker EXCEPT !.kept = Settled(accounted)]
      BY DEF Handle
    <2> HIDE DEF accounted
    <2> QED
      BY <2>1, <1>t DEF ReplayTypes
  <1>r. \/ recorded' = recorded
        \/ /\ Known(frame) = {}
           /\ recorded' = [recorded EXCEPT ![frame.session] = @ \cup {mark}]
    BY DEF Handle, Routed
  <1>2. /\ Len(queue) \in Nat \ {0} /\ frame = queue[1] /\ 1 \in 1..Len(queue)
        /\ Len(queue') = Len(queue) - 1
        /\ \A i \in 1..Len(queue') : queue'[i] = queue[i + 1] /\ i + 1 \in 1..Len(queue)
        /\ queue' \in Seq(Frames1)
    BY <1>1, <1>t DEF ReplayTypes
  <1>3. frame \in Frames1
    BY <1>2, <1>t DEF ReplayTypes
  <1> HIDE DEF frame
  <1>f. frame.session \in Adapted /\ frame.n \in Nat /\ frame.tags \in SUBSET Nat
    BY <1>3 DEF Frames1
  <1>4. ASSUME NEW g \in DOMAIN tracker.kept
        PROVE  /\ accounted[g] \in Generations
               /\ accounted[g].session = tracker.kept[g].session
               /\ accounted[g].active = tracker.kept[g].active
               /\ accounted[g].seen \subseteq tracker.kept[g].seen \cup {frame.n}
               /\ accounted[g].tagged = tracker.kept[g].tagged
    <2>1. tracker.kept[g] \in Generations
      BY <1>t DEF ReplayTypes
    <2>2. CASE g \in Known(frame)
      <3>1. accounted[g] = [tracker.kept[g] EXCEPT !.seen = @ \cup {frame.n}]
        BY <2>2
      <3> HIDE DEF accounted
      <3> QED
        BY <3>1, <2>1, <1>f DEF Generations
    <2>3. CASE g \notin Known(frame)
      <3>1. accounted[g] = tracker.kept[g]
        BY <2>3
      <3> QED
        BY <3>1, <2>1
    <2> QED
      BY <2>2, <2>3
  <1>5. DOMAIN accounted = DOMAIN tracker.kept
    OBVIOUS
  <1> HIDE DEF accounted
  <1>6. /\ DOMAIN tracker'.kept \subseteq DOMAIN tracker.kept
        /\ \A g \in DOMAIN tracker'.kept : tracker'.kept[g] = accounted[g]
        /\ \A g \in DOMAIN tracker.kept :
              accounted[g].tagged # accounted[g].seen => g \in DOMAIN tracker'.kept
        /\ tracker'.kept = [g \in DOMAIN tracker'.kept |-> tracker'.kept[g]]
    BY <1>1, <1>5, SettledKeeps
  <1>m. mark \in [session : Adapted, tags : SUBSET Nat]
    BY <1>f
  <1>7. ReplayTypes'
    <2>1. tracker'.kept \in [DOMAIN tracker'.kept -> Generations]
      BY <1>4, <1>6
    <2>2. recorded' \in [Adapted -> SUBSET [session : Adapted, tags : SUBSET Nat]]
      BY <1>r, <1>m, <1>f, <1>t DEF ReplayTypes
    <2>3. DOMAIN tracker'.kept \subseteq Nat
      BY <1>t, <1>6 DEF ReplayTypes
    <2> QED
      BY <1>t, <1>1, <1>2, <2>1, <2>2, <2>3 DEF ReplayTypes
  <1>8. OpenForRestore'
    BY <1>1, <1>4, <1>6 DEF ReplayInv, OpenForRestore
  <1>9. InSequence'
    <2>1. \A i, j \in 1..Len(queue') : i < j => queue'[i].n < queue'[j].n
      BY SMTT(30), <1>2 DEF ReplayInv, InSequence
    <2>2. \A i \in 1..Len(queue') : queue'[i].n <= tracker'.frames
      BY <1>1, <1>2 DEF ReplayInv, InSequence
    <2>3. frame.n <= tracker.frames
      BY <1>2 DEF ReplayInv, InSequence
    <2>4. \A g \in DOMAIN tracker'.kept : \A m \in tracker'.kept[g].seen : m <= tracker'.frames
      BY <2>3, <1>1, <1>4, <1>6 DEF ReplayInv, InSequence
    <2> QED
      BY <2>1, <2>2, <2>4 DEF InSequence
  <1>10. Awaited'
    <2> SUFFICES ASSUME NEW i \in 1..Len(queue'), NEW g \in queue'[i].tags
                 PROVE  \/ g \in tracker'.evicted
                        \/ /\ g \in DOMAIN tracker'.kept
                           /\ queue'[i].n \in tracker'.kept[g].tagged \ tracker'.kept[g].seen
      BY DEF Awaited
    <2>1. queue'[i] = queue[i + 1] /\ i + 1 \in 1..Len(queue) /\ 1 < i + 1
      BY <1>2
    <2>2. queue[i + 1] \in Frames1
      BY <2>1, <1>t DEF ReplayTypes
    <2>3. queue[i + 1].n # frame.n
      <3>1. queue[1].n < queue[i + 1].n
        BY <2>1, <1>2 DEF ReplayInv, InSequence
      <3>2. queue[i + 1].n \in Nat
        BY <2>2 DEF Frames1
      <3> QED
        BY <3>1, <3>2, <1>2, <1>f
    <2>4. CASE g \in tracker.evicted
      BY <2>4, <1>1
    <2>5. CASE g \in DOMAIN tracker.kept
               /\ queue[i + 1].n \in tracker.kept[g].tagged \ tracker.kept[g].seen
      <3>1. queue[i + 1].n \in accounted[g].tagged \ accounted[g].seen
        BY <2>3, <2>5, <1>4
      <3>2. g \in DOMAIN tracker'.kept
        BY <2>5, <3>1, <1>6
      <3> QED
        BY <2>1, <3>1, <3>2, <1>6
    <2> QED
      BY <2>1, <2>4, <2>5 DEF ReplayInv, Awaited
  <1>11. RecordedIsLive'
    <2>1. Known(frame) = {} => frame.tags \subseteq tracker.evicted
      BY <1>2 DEF ReplayInv, Awaited, Known
    <2>2. CASE recorded' = recorded
      BY <2>2, <1>1 DEF ReplayInv, RecordedIsLive
    <2>3. CASE Known(frame) = {}
               /\ recorded' = [recorded EXCEPT ![frame.session] = @ \cup {mark}]
      <3> SUFFICES ASSUME NEW s \in Adapted, NEW f \in recorded'[s]
                   PROVE  f.session = s /\ (f.tags = {} \/ f.tags \subseteq tracker'.evicted)
        BY DEF RecordedIsLive
      <3>1. f \in recorded[s] \/ (s = frame.session /\ f = mark)
        BY <2>3, <1>t DEF ReplayTypes
      <3>2. CASE f \in recorded[s]
        BY <3>2, <1>1 DEF ReplayInv, RecordedIsLive
      <3>3. CASE s = frame.session /\ f = mark
        BY <3>3, <2>1, <2>3, <1>1
      <3> QED
        BY <3>1, <3>2, <3>3
    <2> QED
      BY <1>r, <2>2, <2>3
  <1>12. LiveUntagged'
    BY <1>2 DEF ReplayInv, LiveUntagged
  <1> QED
    BY <1>7, <1>8, <1>9, <1>10, <1>11, <1>12 DEF ReplayInv

LEMMA ReplayBegins == ReplayInit => ReplayInv
  <1> SUFFICES ASSUME ReplayInit PROVE ReplayInv
    OBVIOUS
  <1>1. /\ queue = <<>> /\ recorded = [s \in Adapted |-> {}]
        /\ tracker = [last |-> 0, frames |-> 0, evicted |-> {}, kept |-> [g \in {} |-> Idle4]]
    BY DEF ReplayInit
  <1>2. /\ tracker.last = 0 /\ tracker.frames = 0 /\ tracker.evicted = {}
        /\ tracker.kept = [g \in {} |-> Idle4] /\ DOMAIN tracker.kept = {}
    BY <1>1
  <1>3. Len(queue) = 0 /\ queue \in Seq(Frames1)
    BY <1>1
  <1>4. flow \in [Adapted -> [pc : FlowPlaces]]
    BY DEF ReplayInit, Idle4, FlowPlaces
  <1>5. ReplayTypes
    BY <1>1, <1>2, <1>3, <1>4 DEF ReplayTypes
  <1>6. OpenForRestore /\ InSequence /\ Awaited /\ RecordedIsLive /\ LiveUntagged
    BY <1>1, <1>2, <1>3 DEF OpenForRestore, InSequence, Awaited, RecordedIsLive, LiveUntagged
  <1> QED
    BY <1>5, <1>6 DEF ReplayInv

\* The other steps move one session that is not being restored.
LEMMA ReplayStep == ReplayInv /\ [ReplayNext]_rvars => ReplayInv'
  <1> SUFFICES ASSUME ReplayInv, [ReplayNext]_rvars PROVE ReplayInv'
    OBVIOUS
  <1>t. ReplayTypes
    BY DEF ReplayInv
  <1>1. ASSUME NEW s \in Adapted, NEW pc \in FlowPlaces, flow[s].pc # "restoring",
               flow' = [flow EXCEPT ![s].pc = pc], UNCHANGED <<queue, tracker>>,
               recorded' = recorded \/ recorded' = [recorded EXCEPT ![s] = {}]
        PROVE  ReplayInv'
    <2>1. ReplayTypes'
      BY <1>t, <1>1 DEF ReplayTypes
    <2>2. OpenForRestore'
      <3>1. \A z \in Adapted : flow[z].pc = "restoring" => flow'[z] = flow[z]
        BY <1>1
      <3>2. \A g \in DOMAIN tracker.kept : tracker.kept[g].session \in Adapted
        BY <1>t DEF ReplayTypes, Generations
      <3> QED
        BY <3>1, <3>2, <1>1 DEF ReplayInv, OpenForRestore
    <2>3. RecordedIsLive'
      <3>1. \A z \in Adapted : recorded'[z] \subseteq recorded[z]
        BY <1>1, <1>t DEF ReplayTypes
      <3> QED
        BY <3>1, <1>1 DEF ReplayInv, RecordedIsLive
    <2>4. InSequence' /\ Awaited' /\ LiveUntagged'
      BY <1>1 DEF ReplayInv, InSequence, Awaited, LiveUntagged
    <2> QED
      BY <2>1, <2>2, <2>3, <2>4 DEF ReplayInv
  <1>2. ASSUME NEW s \in Adapted, BindClient(s) PROVE ReplayInv'
    BY <1>1, <1>2 DEF BindClient, Goes1, FlowPlaces
  <1>3. ASSUME NEW s \in Adapted, Settle(s) PROVE ReplayInv'
    BY <1>1, <1>3 DEF Settle, Goes1, FlowPlaces
  <1>4. ASSUME NEW s \in Adapted, Prompt1(s) PROVE ReplayInv'
    BY <1>1, <1>4 DEF Prompt1, Goes1, FlowPlaces
  <1>5. ASSUME NEW s \in Adapted, ReleaseClient(s) PROVE ReplayInv'
    BY <1>1, <1>5 DEF ReleaseClient, Goes1, FlowPlaces
  <1>6. ASSUME NEW s \in Adapted, Restore(s) PROVE ReplayInv'
    BY <1>6, RestoreKeeps
  <1>7. ASSUME NEW s \in Adapted, CloseGeneration(s) PROVE ReplayInv'
    BY <1>7, CloseKeeps
  <1>8. ASSUME NEW s \in Adapted, SendReplay(s) PROVE ReplayInv'
    BY <1>8, ReceiveKeeps DEF SendReplay
  <1>9. ASSUME NEW s \in Adapted, SendLive(s) PROVE ReplayInv'
    BY <1>9, ReceiveKeeps DEF SendLive
  <1>10. CASE Handle
    BY <1>10, HandleKeeps
  <1>11. CASE UNCHANGED <<flow, queue, tracker, recorded>>
    BY <1>t, <1>11 DEF ReplayInv, ReplayTypes, OpenForRestore, InSequence, Awaited,
                       RecordedIsLive, LiveUntagged
  <1> QED
    BY <1>2, <1>3, <1>4, <1>5, <1>6, <1>7, <1>8, <1>9, <1>10, <1>11
       DEF ReplayNext, AnswerLoad, rvars

\* For any number of sessions on a connection, any number of restores and
\* frames, and any retention limit: what was received during a restore is in no
\* turn, unless its generation was evicted, and no live update is taken for
\* history (ReplayTracker, _MultiplexClient).
THEOREM RestoresStayOut == ReplaySpec => []HistoryStaysOut
  <1>1. ReplayInv => HistoryStaysOut
    <2> SUFFICES ASSUME ReplayInv PROVE HistoryStaysOut
      OBVIOUS
    <2>1. DOMAIN queue = 1..Len(queue)
      BY DEF ReplayInv, ReplayTypes
    <2> QED
      BY <2>1 DEF ReplayInv, RecordedIsLive, LiveUntagged, HistoryStaysOut
  <1> QED
    BY <1>1, ReplayBegins, ReplayStep, PTL DEF ReplaySpec

----------------------------------------------------------------------------
(* Usage.                                                                   *)

Codex == profile = "codex_usage_updates"
Turns1 == [pc : {"none", "sending", "rejected", "answered"}, used : Seq(0..2),
           oversize : BOOLEAN, active : Nat, gaps : Nat, known : BOOLEAN,
           response : {"none", "usage", "bare"}, total : Nat, parts : BOOLEAN]
Spent1 == [tokens : Nat, turns : Nat, sends : Nat, limited : Nat]
\* The total of a codex session is a sum over its readings, and is left open.
UsageTypes ==
    /\ profile \in Profiles
    /\ prompted \in Turns1 /\ spent \in Spent1
    /\ usage = [gaps |-> usage.gaps, total |-> usage.total, parts |-> usage.parts,
                models |-> usage.models, unaccounted |-> usage.unaccounted,
                drift |-> usage.drift]
    /\ usage.gaps \in Nat \cup {-1} /\ usage.unaccounted \in Nat
    /\ ~Codex => usage.total \in Nat

\* Before the first turn there is nothing to account for.
NothingYet ==
    /\ spent.turns = 0 => usage = NoUsage /\ prompted = NoClient /\ spent.tokens = 0
                           /\ spent.limited = 0
    /\ prompted.pc = "none" => prompted = NoClient

\* What the earlier turns consumed is what the usage says, as far as it says it
\* knows it, and this turn adds what its last send was at: an earlier send that
\* was at work is a gap of this turn, or, for codex, counts as limited.
AtWork == IF prompted.pc \in {"sending", "answered"} THEN prompted.active ELSE 0
EarlierTurns ==
    /\ ~Codex => spent.limited = 0
    /\ usage.gaps < 0 =>
        /\ usage = NoUsage
        /\ ~Codex /\ prompted.gaps = 0 => spent.tokens = prompted.active
        /\ Codex => spent.tokens = spent.limited + AtWork
    /\ Codex => (usage.models => ~usage.parts)
    /\ ~Codex /\ usage.gaps = 0 /\ usage.unaccounted = 0 /\ prompted.gaps = 0 =>
          spent.tokens = usage.total + prompted.active

\* The tally of a response covers the last send.
ThisTurn ==
    ~Codex /\ prompted.pc # "none" =>
        /\ prompted.pc = "rejected" /\ prompted.gaps = 0 => prompted.active = 0
        /\ prompted.pc = "answered" => prompted.total = prompted.active
Responded ==
    /\ prompted.response # "none" => prompted.pc = "answered"
    /\ prompted.pc # "none" /\ prompted.known => prompted.pc \in {"rejected", "answered"}
    /\ prompted.pc = "answered" => prompted.response # "none"

UsageInv == UsageTypes /\ NothingYet /\ EarlierTurns /\ ThisTurn /\ Responded

LEMMA NoUsageFields ==
    /\ NoUsage.gaps = -1 /\ NoUsage.total = 0 /\ ~NoUsage.models /\ ~NoUsage.parts
    /\ NoUsage.unaccounted = 0 /\ ~NoUsage.drift
  BY DEF NoUsage

LEMMA NoClientFields ==
    /\ NoClient \in Turns1 /\ NoClient.pc = "none" /\ NoClient.used = <<>>
    /\ NoClient.gaps = 0 /\ NoClient.active = 0 /\ NoClient.response = "none"
    /\ ~NoClient.known /\ Len(NoClient.used) = 0
  BY DEF NoClient, Turns1

LEMMA DropsCounted ==
    ASSUME prompted \in Turns1
    PROVE  Cardinality(Drops) \in Nat
  <1>1. prompted.used \in Seq(0..2)
    BY DEF Turns1
  <1>2. Drops \subseteq 1..Len(prompted.used) /\ Len(prompted.used) \in Nat
    BY <1>1 DEF Drops
  <1>3. IsFiniteSet(1..Len(prompted.used))
    BY <1>2, FS_Interval
  <1> QED
    BY <1>2, <1>3, FS_Subset, FS_CardinalityType

LEMMA PreviousFields ==
    ASSUME UsageTypes
    PROVE  /\ Previous.gaps = IF usage.gaps < 0 THEN 0 ELSE usage.gaps
           /\ Previous = [gaps |-> Previous.gaps, total |-> Previous.total,
                          parts |-> Previous.parts, models |-> Previous.models,
                          unaccounted |-> Previous.unaccounted, drift |-> Previous.drift]
           /\ Previous.gaps \in Nat
           /\ usage.gaps >= 0 => Previous = usage
           /\ usage.gaps < 0 => /\ Previous.total = 0 /\ Previous.unaccounted = 0
                                /\ ~Previous.models
  <1>1. CASE usage.gaps < 0
    <2>1. Previous = [gaps |-> 0, total |-> 0, parts |-> FALSE, models |-> FALSE,
                      unaccounted |-> 0, drift |-> FALSE]
      BY <1>1 DEF Previous, NoUsage
    <2> QED
      BY <1>1, <2>1 DEF UsageTypes
  <1>2. CASE ~(usage.gaps < 0)
    <2>1. Previous = usage /\ usage.gaps \in Nat
      BY <1>2 DEF Previous, UsageTypes
    <2> QED
      BY <1>2, <2>1 DEF UsageTypes
  <1> QED
    BY <1>1, <1>2

LEMMA UsageBegins == UsageInit => UsageInv
  <1> SUFFICES ASSUME UsageInit PROVE UsageInv
    OBVIOUS
  <1>1. /\ profile = "claude_model_usage" /\ usage = NoUsage /\ prompted = NoClient
        /\ spent = [tokens |-> 0, turns |-> 0, sends |-> 0, limited |-> 0]
    BY DEF UsageInit
  <1>2. spent \in Spent1 /\ spent.tokens = 0 /\ spent.limited = 0
    BY <1>1 DEF Spent1
  <1>3. UsageTypes
    BY <1>1, <1>2, NoClientFields, NoUsageFields DEF UsageTypes, Profiles, NoUsage
  <1> QED
    BY <1>1, <1>2, <1>3, NoClientFields, NoUsageFields
       DEF UsageInv, NothingYet, EarlierTurns, AtWork, ThisTurn, Responded, Codex

\* The end of a turn, with or without a response.
LEMMA EndKeeps == ASSUME UsageInv, EndTurn PROVE UsageInv'
  <1> DEFINE added == IF Observed
                      THEN [Previous EXCEPT
                              !.total = @ + (IF Codex THEN Counted ELSE prompted.total),
                              !.models = TRUE,
                              !.parts = ~Codex /\ prompted.parts /\ (Previous.models => @)]
                      ELSE Previous
             drops == IF profile # "claude_model_usage" \/ Gap THEN Cardinality(Drops) ELSE 0
             gap == IF TurnGap THEN 1 ELSE 0
  <1>t. UsageTypes
    BY DEF UsageInv
  <1>1. /\ prompted.pc # "none" /\ usage' = Recorded /\ prompted' = NoClient
        /\ profile' = profile /\ spent' = spent
    BY DEF EndTurn
  <1>2. /\ prompted.used \in Seq(0..2) /\ Len(prompted.used) \in Nat
        /\ prompted.gaps \in Nat /\ prompted.total \in Nat /\ prompted.active \in Nat
        /\ spent.tokens \in Nat /\ spent.limited \in Nat
    BY <1>t DEF UsageTypes, Turns1, Spent1
  <1>3. Cardinality(Drops) \in Nat
    BY <1>t, DropsCounted DEF UsageTypes
  <1>4. drops \in Nat /\ gap \in Nat
    BY <1>3
  <1>5. Added = added
    BY DEF Added, Codex
  <1>6. Accumulated = [added EXCEPT !.gaps = @ + prompted.gaps + gap,
                                    !.unaccounted = @ + drops,
                                    !.drift = @ \/ prompted.oversize]
    BY <1>5 DEF Accumulated
  <1>p. /\ Previous.gaps = (IF usage.gaps < 0 THEN 0 ELSE usage.gaps)
        /\ Previous.gaps \in Nat
        /\ Previous = [gaps |-> Previous.gaps, total |-> Previous.total,
                       parts |-> Previous.parts, models |-> Previous.models,
                       unaccounted |-> Previous.unaccounted, drift |-> Previous.drift]
        /\ usage.gaps >= 0 => Previous = usage
        /\ usage.gaps < 0 => /\ Previous.total = 0 /\ Previous.unaccounted = 0
                             /\ ~Previous.models
    BY <1>t, PreviousFields
  <1>7. /\ added = [gaps |-> added.gaps, total |-> added.total, parts |-> added.parts,
                    models |-> added.models, unaccounted |-> added.unaccounted,
                    drift |-> added.drift]
        /\ added.gaps = Previous.gaps /\ added.unaccounted = Previous.unaccounted
        /\ ~Observed => added = Previous
        /\ Observed => /\ added.models
                       /\ Codex => ~added.parts
                       /\ ~Codex => added.total = Previous.total + prompted.total
    <2>1. CASE Observed
      BY <1>p, <2>1
    <2>2. CASE ~Observed
      BY <1>p, <2>2
    <2> QED
      BY <2>1, <2>2
  <1> HIDE DEF added, drops, gap
  <1>8. /\ Accumulated = [gaps |-> Accumulated.gaps, total |-> Accumulated.total,
                          parts |-> Accumulated.parts, models |-> Accumulated.models,
                          unaccounted |-> Accumulated.unaccounted,
                          drift |-> Accumulated.drift]
        /\ Accumulated.gaps = Previous.gaps + prompted.gaps + gap
        /\ Accumulated.unaccounted = Previous.unaccounted + drops
        /\ Accumulated.total = added.total /\ Accumulated.models = added.models
        /\ Accumulated.parts = added.parts
    BY <1>6, <1>7
  <1>9. CASE Recorded = Accumulated
    <2>1. usage' = Accumulated
      BY <1>1, <1>9
    <2>2. Previous.unaccounted \in Nat
      BY <1>p, <1>t DEF UsageTypes
    <2>3. usage'.gaps \in Nat /\ usage'.unaccounted \in Nat
      BY <2>1, <2>2, <1>2, <1>4, <1>8, <1>p
    <2>4. ~Codex => Previous.total \in Nat
      BY <1>p, <1>t DEF UsageTypes
    <2>5. ~Codex => usage'.total \in Nat
      BY <2>1, <2>4, <1>2, <1>7, <1>8
    <2>6. UsageTypes'
      BY <1>1, <1>8, <1>t, <2>1, <2>3, <2>5, NoClientFields DEF UsageTypes, Codex
    <2>7. NothingYet'
      BY <1>1, NoClientFields DEF UsageInv, NothingYet
    <2>8. Codex /\ usage'.models => ~usage'.parts
      <3>1. CASE Observed
        BY <3>1, <2>1, <1>7, <1>8
      <3>2. CASE ~Observed
        BY <3>2, <2>1, <1>7, <1>8, <1>p, <1>t DEF UsageInv, EarlierTurns, UsageTypes
      <3> QED
        BY <3>1, <3>2
    <2>9. ASSUME ~Codex, usage'.gaps = 0, usage'.unaccounted = 0
          PROVE  spent.tokens = usage'.total
      <3>1. Previous.gaps = 0 /\ prompted.gaps = 0 /\ gap = 0 /\ Previous.unaccounted = 0
        BY <2>1, <2>2, <2>9, <1>2, <1>4, <1>8, <1>p
      <3>2. spent.tokens = Previous.total + prompted.active /\ Previous.total \in Nat
        <4>1. CASE usage.gaps < 0
          BY <4>1, <3>1, <2>9, <1>1, <1>2, <1>p DEF UsageInv, EarlierTurns, Codex
        <4>2. CASE ~(usage.gaps < 0)
          <5>1. usage.gaps >= 0
            BY <4>2, <1>t DEF UsageTypes
          <5> QED
            BY <4>2, <5>1, <3>1, <2>4, <2>9, <1>p DEF UsageInv, EarlierTurns
        <4> QED
          BY <4>1, <4>2
      <3>4. CASE Observed
        <4>1. prompted.pc = "answered"
          BY <3>4, <2>9 DEF Observed, Codex, UsageInv, Responded
        <4>2. prompted.total = prompted.active
          BY <4>1, <2>9 DEF UsageInv, ThisTurn
        <4> QED
          BY <4>2, <3>2, <3>4, <2>1, <2>9, <1>7, <1>8
      <3>5. CASE ~Observed
        <4>1. ~TurnGap
          BY <3>1 DEF gap
        <4>2. prompted.response = "none" /\ prompted.known
          BY <4>1, <3>5 DEF TurnGap
        <4>3. prompted.pc = "rejected"
          BY <4>2, <1>1 DEF UsageInv, Responded
        <4>4. prompted.active = 0
          BY <4>3, <3>1, <2>9 DEF UsageInv, ThisTurn
        <4> QED
          BY <4>4, <3>2, <3>5, <2>1, <1>2, <1>7, <1>8
      <3> QED
        BY <3>4, <3>5
    <2>10. EarlierTurns'
      <3>1. ~(usage'.gaps < 0)
        BY <2>3
      <3>2. ~Codex /\ usage'.gaps = 0 /\ usage'.unaccounted = 0 =>
                spent.tokens = usage'.total + 0
        BY <2>5, <2>9
      <3>3. ~Codex => spent.limited = 0
        BY DEF UsageInv, EarlierTurns
      <3> QED
        BY <3>1, <3>2, <3>3, <2>8, <1>1, NoClientFields DEF EarlierTurns, Codex
    <2> QED
      BY <2>6, <2>7, <2>10, <1>1, NoClientFields DEF UsageInv, ThisTurn, Responded
  <1>10. CASE Recorded # Accumulated
    <2>1. usage.gaps < 0 /\ ~Observed /\ Accumulated.gaps = 0 /\ Recorded = NoUsage
      BY <1>10 DEF Recorded
    <2>2. prompted.gaps = 0 /\ gap = 0
      BY <2>1, <1>2, <1>4, <1>8, <1>p
    <2>3. prompted.pc = "rejected"
      <3>1. ~TurnGap
        BY <2>2 DEF gap
      <3>2. prompted.response = "none" /\ prompted.known
        BY <3>1, <2>1 DEF TurnGap
      <3> QED
        BY <3>2, <1>1 DEF UsageInv, Responded
    <2>4. usage' = NoUsage /\ usage = NoUsage /\ (~Codex => spent.limited = 0)
      BY <2>1, <1>1 DEF UsageInv, EarlierTurns
    <2>5. spent.tokens = spent.limited
      <3>1. CASE Codex
        BY <3>1, <2>1, <2>3, <1>2 DEF UsageInv, EarlierTurns, AtWork
      <3>2. CASE ~Codex
        BY <3>2, <2>1, <2>2, <2>3, <2>4, <1>1 DEF UsageInv, EarlierTurns, ThisTurn
      <3> QED
        BY <3>1, <3>2
    <2>6. EarlierTurns'
      BY <2>4, <2>5, <1>1, <1>2, NoClientFields, NoUsageFields DEF EarlierTurns, AtWork, Codex
    <2> QED
      BY <2>4, <2>6, <1>1, <1>t, NoClientFields, NoUsageFields
         DEF UsageInv, UsageTypes, NothingYet, ThisTurn, Responded, Codex
  <1> QED
    BY <1>9, <1>10

\* Work of a send counts for the send and for what is spent.
LEMMA WorkCounts ==
    ASSUME UsageInv, prompted.pc = "sending", prompted'.pc = "sending",
           UNCHANGED <<profile, usage>>,
           spent.tokens \in Nat, spent.limited \in Nat, prompted.active \in Nat,
           spent'.tokens = spent.tokens + 1, spent'.limited = spent.limited,
           prompted'.active = prompted.active + 1, prompted'.gaps = prompted.gaps
    PROVE  EarlierTurns'
  <1>1. usage.gaps < 0 =>
            /\ usage = NoUsage
            /\ ~Codex /\ prompted.gaps = 0 => spent'.tokens = prompted.active + 1
            /\ Codex => spent'.tokens = spent.limited + (prompted.active + 1)
    BY DEF UsageInv, EarlierTurns, AtWork
  <1>2. ASSUME ~Codex, usage.gaps = 0, usage.unaccounted = 0, prompted.gaps = 0
        PROVE  spent'.tokens = usage.total + (prompted.active + 1)
    <2>1. spent.tokens = usage.total + prompted.active /\ usage.total \in Nat
      BY <1>2 DEF UsageInv, EarlierTurns, UsageTypes
    <2> QED
      BY <2>1
  <1> QED
    BY <1>1, <1>2 DEF UsageInv, EarlierTurns, AtWork, Codex

LEMMA UsageStep == UsageInv /\ [UsageNext]_uvars => UsageInv'
  <1> SUFFICES ASSUME UsageInv, [UsageNext]_uvars PROVE UsageInv'
    OBVIOUS
  <1>t. UsageTypes
    BY DEF UsageInv
  <1>c. prompted \in Turns1 /\ prompted.used \in Seq(0..2) /\ Len(prompted.used) \in Nat
        /\ spent \in Spent1 /\ spent.tokens \in Nat
        /\ prompted.active \in Nat /\ prompted.gaps \in Nat /\ spent.limited \in Nat
        /\ spent.turns \in Nat /\ spent.sends \in Nat
    BY <1>t DEF UsageTypes, Turns1, Spent1
  <1>1. CASE ChooseProfile
    <2>1. /\ usage = NoUsage /\ prompted = NoClient /\ spent.tokens = 0 /\ spent.limited = 0
          /\ spent.turns = 0 /\ profile' \in Profiles
          /\ usage' = usage /\ prompted' = prompted /\ spent' = spent
      BY <1>1 DEF ChooseProfile, UsageInv, NothingYet
    <2>2. UsageTypes'
      BY <2>1, <1>t, NoClientFields, NoUsageFields DEF UsageTypes, NoUsage
    <2> QED
      BY <2>1, <2>2, NoClientFields, NoUsageFields
         DEF UsageInv, NothingYet, EarlierTurns, AtWork, ThisTurn, Responded
  <1>2. CASE SendPrompt
    <2>1. UNCHANGED <<profile, usage>> /\ spent'.tokens = spent.tokens
          /\ spent'.limited = spent.limited /\ spent' \in Spent1
      <3>1. UNCHANGED <<profile, usage>>
        BY <1>2 DEF SendPrompt
      <3>2. \/ spent' = [spent EXCEPT !.turns = @ + 1, !.sends = @ + 1]
            \/ spent' = [spent EXCEPT !.sends = @ + 1]
        BY <1>2 DEF SendPrompt
      <3>3. spent.turns \in Nat /\ spent.sends \in Nat
        BY <1>c
      <3>4. CASE spent' = [spent EXCEPT !.turns = @ + 1, !.sends = @ + 1]
        <4>1. spent = [tokens |-> spent.tokens, turns |-> spent.turns, sends |-> spent.sends,
                       limited |-> spent.limited]
          BY <1>c DEF Spent1
        <4>2. spent' = [tokens |-> spent.tokens, turns |-> spent.turns + 1,
                        sends |-> spent.sends + 1, limited |-> spent.limited]
          BY <4>1, <3>4
        <4> QED
          BY <4>2, <3>1, <3>3, <1>c DEF Spent1
      <3>5. CASE spent' = [spent EXCEPT !.sends = @ + 1]
        BY <3>1, <3>3, <3>5, <1>c DEF Spent1
      <3> QED
        BY <3>2, <3>4, <3>5
    <2>2. CASE prompted.pc = "none" /\ prompted' = [NoClient EXCEPT !.pc = "sending"]
                /\ spent'.turns = spent.turns + 1
      <3>1. /\ prompted' \in Turns1 /\ prompted'.pc = "sending" /\ prompted'.used = <<>>
            /\ prompted'.gaps = 0 /\ prompted'.active = 0 /\ prompted'.response = "none"
            /\ ~prompted'.known /\ Len(prompted'.used) = 0
        BY <2>2, NoClientFields DEF NoClient, Turns1
      <3>2. prompted = NoClient /\ Len(prompted.used) = 0
        BY <2>2, NoClientFields DEF UsageInv, NothingYet
      <3>3. UsageTypes'
        BY <1>t, <2>1, <3>1 DEF UsageTypes, Codex
      <3>4. NothingYet'
        BY <2>1, <2>2, <3>1, <1>c DEF NothingYet
      <3>5. EarlierTurns'
        BY <2>1, <3>1, <3>2, <1>c, NoClientFields DEF UsageInv, EarlierTurns, AtWork, Codex
      <3>6. ThisTurn' /\ Responded'
        BY <2>1, <3>1 DEF ThisTurn, Responded
      <3> QED
        BY <3>3, <3>4, <3>5, <3>6 DEF UsageInv
    <2>3. CASE Resending /\ prompted' = BeginSend /\ spent'.turns = spent.turns
      <3>1. /\ prompted.pc = "rejected"
            /\ prompted' = [prompted EXCEPT !.pc = "sending", !.active = 0, !.known = FALSE]
        BY <2>3 DEF Resending, BeginSend
      <3>2. /\ prompted' \in Turns1 /\ prompted'.pc = "sending"
            /\ prompted'.used = prompted.used /\ prompted'.gaps = prompted.gaps
            /\ prompted'.active = 0 /\ prompted'.response = prompted.response
            /\ ~prompted'.known
        BY <3>1, <1>c DEF Turns1
      <3>3. UsageTypes'
        BY <1>t, <2>1, <3>2 DEF UsageTypes, Codex
      <3>4. NothingYet'
        BY <2>1, <2>3, <3>1, <3>2, NoClientFields DEF UsageInv, NothingYet
      <3>5. EarlierTurns'
        <4>1. ~Codex /\ prompted.gaps = 0 => prompted.active = 0
          BY <3>1 DEF UsageInv, ThisTurn
        <4> QED
          BY <4>1, <2>1, <3>1, <3>2, <1>c DEF UsageInv, EarlierTurns, AtWork, Codex
      <3>6. ThisTurn'
        BY <2>1, <3>1, <3>2 DEF UsageInv, ThisTurn, Codex
      <3>7. Responded'
        BY <3>1, <3>2 DEF UsageInv, Responded
      <3> QED
        BY <3>3, <3>4, <3>5, <3>6, <3>7 DEF UsageInv
    <2> QED
      BY <1>2, <1>c, <2>2, <2>3 DEF SendPrompt, Spent1
  <1>3. CASE Work
    <2>1. /\ prompted.pc = "sending" /\ UNCHANGED <<profile, usage>>
          /\ prompted' = [prompted EXCEPT !.active = @ + 1]
          /\ spent' = [spent EXCEPT !.tokens = @ + 1]
      BY <1>3 DEF Work
    <2>2. spent' \in Spent1 /\ spent'.tokens = spent.tokens + 1
          /\ spent'.turns = spent.turns /\ spent'.limited = spent.limited
      BY <2>1, <1>c DEF Spent1
    <2>3. /\ prompted' \in Turns1 /\ prompted'.pc = "sending"
          /\ prompted'.gaps = prompted.gaps /\ prompted'.active = prompted.active + 1
          /\ prompted'.response = prompted.response /\ prompted'.known = prompted.known
      <3>1. prompted.active + 1 \in Nat
        BY <1>c
      <3>2. prompted' \in Turns1
        BY <3>1, <2>1, <1>c DEF Turns1
      <3> QED
        BY <3>2, <2>1, <1>c DEF Turns1
    <2>4. UsageTypes'
      BY <1>t, <2>1, <2>2, <2>3 DEF UsageTypes, Codex
    <2>5. NothingYet'
      BY <2>1, <2>2, <2>3, NoClientFields DEF UsageInv, NothingYet
    <2>6. EarlierTurns'
      BY <2>1, <2>2, <2>3, <1>c, WorkCounts
    <2>7. ThisTurn' /\ Responded'
      BY <2>1, <2>3, <1>c DEF UsageInv, ThisTurn, Responded, Codex
    <2> QED
      BY <2>4, <2>5, <2>6, <2>7 DEF UsageInv
  <1>4. CASE RejectSend
    <2>1. /\ prompted.pc = "sending" /\ UNCHANGED <<profile, usage>>
          /\ spent' = [spent EXCEPT !.limited = IF Codex THEN @ + prompted.active ELSE @]
      BY <1>4 DEF RejectSend, Codex
    <2>s. /\ spent' \in Spent1 /\ spent'.tokens = spent.tokens /\ spent'.turns = spent.turns
          /\ spent'.limited = IF Codex THEN spent.limited + prompted.active ELSE spent.limited
      BY <2>1, <1>c DEF Spent1
    <2>2. /\ prompted' \in Turns1 /\ prompted'.pc = "rejected"
          /\ prompted'.used = prompted.used /\ prompted'.active = prompted.active
          /\ prompted'.response = prompted.response
          /\ prompted'.gaps = IF prompted.active > 0 /\ ~Codex
                              THEN prompted.gaps + 1 ELSE prompted.gaps
      <3> DEFINE lost == IF prompted.active > 0 /\ ~Codex
                         THEN prompted.gaps + 1 ELSE prompted.gaps
      <3>1. prompted' = [prompted EXCEPT !.pc = "rejected", !.known = TRUE, !.gaps = lost]
        BY <1>4 DEF RejectSend, Codex
      <3>2. lost \in Nat
        BY <1>c DEF Turns1
      <3> HIDE DEF lost
      <3>3. /\ prompted' \in Turns1 /\ prompted'.pc = "rejected"
            /\ prompted'.used = prompted.used /\ prompted'.active = prompted.active
            /\ prompted'.response = prompted.response /\ prompted'.gaps = lost
        BY <3>1, <3>2, <1>c DEF Turns1
      <3> QED
        BY <3>3 DEF lost
    <2>3. UsageTypes'
      BY <1>t, <2>1, <2>s, <2>2 DEF UsageTypes, Codex
    <2>4. NothingYet'
      BY <2>1, <2>s, <2>2, NoClientFields DEF UsageInv, NothingYet
    <2>7. EarlierTurns'
      <3>1. ~Codex /\ prompted'.gaps = 0 => prompted.gaps = 0
        BY <2>2, <1>c
      <3>2. Codex /\ usage.gaps < 0 => spent'.tokens = spent'.limited + 0
        BY <2>1, <2>s, <1>c DEF UsageInv, EarlierTurns, AtWork
      <3> QED
        BY <3>1, <3>2, <2>1, <2>s, <2>2 DEF UsageInv, EarlierTurns, AtWork, Codex
    <2>5. ThisTurn'
      <3>1. prompted.gaps \in Nat
        BY <1>c DEF Turns1
      <3>2. ~Codex /\ prompted'.gaps = 0 => prompted.active = 0 /\ prompted.gaps = 0
        BY <3>1, <2>2, <1>c
      <3> QED
        BY <3>2, <2>1, <2>2 DEF UsageInv, ThisTurn, Codex
    <2>6. Responded'
      BY <2>1, <2>2 DEF UsageInv, Responded
    <2> QED
      BY <2>3, <2>4, <2>5, <2>6, <2>7 DEF UsageInv
  <1>5. CASE RespondTo
    <2>1. prompted.pc = "sending" /\ UNCHANGED <<profile, usage, spent>>
      BY <1>5 DEF RespondTo
    <2>2. /\ prompted' \in Turns1 /\ prompted'.pc = "answered"
          /\ prompted'.used = prompted.used /\ prompted'.active = prompted.active
          /\ prompted'.response # "none" /\ prompted'.gaps = prompted.gaps
          /\ prompted'.total = prompted.active
      BY <1>5, <1>c DEF RespondTo, Turns1
    <2>3. UsageTypes'
      BY <1>t, <2>1, <2>2 DEF UsageTypes, Codex
    <2>4. NothingYet' /\ EarlierTurns'
      BY <2>1, <2>2, NoClientFields DEF UsageInv, NothingYet, EarlierTurns, AtWork, Codex
    <2>5. ThisTurn' /\ Responded'
      BY <2>1, <2>2 DEF UsageInv, ThisTurn, Responded, Codex
    <2> QED
      BY <2>3, <2>4, <2>5 DEF UsageInv
  <1>6. CASE EndTurn
    BY <1>6, EndKeeps
  <1>7. CASE MarkUnknown
    <2>1. /\ prompted.pc # "none" /\ usage' = [Previous EXCEPT !.gaps = @ + 1]
          /\ prompted' = NoClient /\ UNCHANGED <<profile, spent>>
      BY <1>7 DEF MarkUnknown
    <2>2. /\ usage'.gaps \in Nat \ {0} /\ usage'.total = Previous.total
          /\ usage'.unaccounted = Previous.unaccounted
          /\ usage'.models = Previous.models /\ usage'.parts = Previous.parts
          /\ usage' = [gaps |-> usage'.gaps, total |-> usage'.total, parts |-> usage'.parts,
                       models |-> usage'.models, unaccounted |-> usage'.unaccounted,
                       drift |-> usage'.drift]
      BY <2>1, <1>t, PreviousFields
    <2>3. Previous.unaccounted \in Nat /\ (~Codex => Previous.total \in Nat)
          /\ (Codex => (Previous.models => ~Previous.parts))
      BY <1>t, PreviousFields DEF UsageInv, UsageTypes, EarlierTurns
    <2>4. UsageTypes'
      BY <1>t, <2>1, <2>2, <2>3, NoClientFields DEF UsageTypes, Codex
    <2>5. NothingYet'
      BY <2>1, NoClientFields DEF UsageInv, NothingYet
    <2>6. EarlierTurns'
      BY <2>1, <2>2, <2>3 DEF UsageInv, EarlierTurns, Codex
    <2> QED
      BY <2>1, <2>4, <2>5, <2>6, NoClientFields DEF UsageInv, ThisTurn, Responded
  <1>8. CASE ReportUsage
    <2>1. PICK used \in 0..2, oversize \in BOOLEAN :
            prompted' = [prompted EXCEPT !.used = Append(@, used), !.active = @ + 1,
                                         !.oversize = @ \/ oversize]
      BY <1>8 DEF ReportUsage
    <2>2. prompted.pc = "sending" /\ UNCHANGED <<profile, usage>>
          /\ spent' = [spent EXCEPT !.tokens = @ + 1]
      BY <1>8 DEF ReportUsage
    <2>3. spent' \in Spent1 /\ spent'.tokens = spent.tokens + 1
          /\ spent'.turns = spent.turns /\ spent'.limited = spent.limited
      BY <2>2, <1>c DEF Spent1
    <2>4. Append(prompted.used, used) \in Seq(0..2)
          /\ Len(Append(prompted.used, used)) = Len(prompted.used) + 1
      BY <1>c
    <2>5. /\ prompted' \in Turns1 /\ prompted'.pc = "sending"
          /\ prompted'.gaps = prompted.gaps /\ prompted'.active = prompted.active + 1
          /\ prompted'.response = prompted.response /\ prompted'.known = prompted.known
      <3> DEFINE readings == Append(prompted.used, used)
                 over == prompted.oversize \/ oversize
      <3>1. prompted' = [prompted EXCEPT !.used = readings, !.active = @ + 1, !.oversize = over]
        BY <2>1
      <3>2. readings \in Seq(0..2) /\ Len(readings) = Len(prompted.used) + 1 /\ over \in BOOLEAN
        BY <2>4
      <3> HIDE DEF readings, over
      <3>3. prompted'.used = readings /\ prompted'.active = prompted.active + 1
            /\ prompted'.pc = prompted.pc /\ prompted'.gaps = prompted.gaps
            /\ prompted'.response = prompted.response /\ prompted'.known = prompted.known
        BY <3>1, <1>c DEF Turns1
      <3>4. prompted' \in Turns1
        <4>1. prompted' = [pc |-> prompted.pc, used |-> readings, oversize |-> over,
                           active |-> prompted.active + 1, gaps |-> prompted.gaps,
                           known |-> prompted.known, response |-> prompted.response,
                           total |-> prompted.total, parts |-> prompted.parts]
          BY <3>1, <1>c DEF Turns1
        <4>2. /\ prompted.pc \in {"none", "sending", "rejected", "answered"}
              /\ prompted.gaps \in Nat /\ prompted.known \in BOOLEAN
              /\ prompted.response \in {"none", "usage", "bare"}
              /\ prompted.total \in Nat /\ prompted.parts \in BOOLEAN
              /\ prompted.active + 1 \in Nat
          BY <1>c DEF Turns1
        <4> QED
          BY <4>1, <4>2, <3>2 DEF Turns1
      <3> QED
        BY <3>2, <3>3, <3>4, <2>2
    <2>6. UsageTypes'
      BY <1>t, <2>2, <2>3, <2>5 DEF UsageTypes, Codex
    <2>7. NothingYet'
      BY <2>2, <2>3, <2>5, NoClientFields DEF UsageInv, NothingYet
    <2>8. EarlierTurns'
      BY <2>2, <2>3, <2>5, <1>c, WorkCounts
    <2>9. ThisTurn' /\ Responded'
      BY <2>2, <2>5, <1>c DEF UsageInv, ThisTurn, Responded, Codex
    <2> QED
      BY <2>6, <2>7, <2>8, <2>9 DEF UsageInv
  <1>9. CASE UNCHANGED uvars
    BY <1>t, <1>9 DEF uvars, UsageInv, UsageTypes, NothingYet, EarlierTurns, ThisTurn,
                      AtWork, Responded, Codex
  <1> QED
    BY <1>1, <1>2, <1>3, <1>4, <1>5, <1>6, <1>7, <1>8, <1>9 DEF UsageNext

\* For any number of turns and sends: a usage that calls itself exact is what
\* the adapter consumed, and no usage means that nothing was but in limited sends
\* of a codex adapter (accumulate_turn, record_limit_rejection, _turn_has_gap).
THEOREM ExactTellsAll == UsageSpec => []ExactIsAll
  <1>1. UsageInv => ExactIsAll
    <2> SUFFICES ASSUME UsageInv, prompted.pc = "none"
                 PROVE  /\ Exact(usage) => usage.total = spent.tokens
                        /\ usage.gaps < 0 => spent.tokens = spent.limited
      BY DEF ExactIsAll
    <2>1. /\ prompted.active = 0 /\ prompted.gaps = 0 /\ AtWork = 0
          /\ spent.tokens \in Nat /\ spent.limited \in Nat
      BY NoClientFields DEF UsageInv, NothingYet, AtWork, UsageTypes, Spent1
    <2>2. usage.gaps < 0 => spent.tokens = spent.limited
      BY <2>1 DEF UsageInv, EarlierTurns
    <2>3. Exact(usage) => usage.total = spent.tokens
      <3> SUFFICES ASSUME Exact(usage) PROVE usage.total = spent.tokens
        OBVIOUS
      <3>1. usage.gaps = 0 /\ usage.unaccounted = 0 /\ usage.models /\ usage.parts
        BY DEF Exact
      <3>2. ~Codex
        BY <3>1 DEF UsageInv, EarlierTurns
      <3>3. usage.total \in Nat
        BY <3>2 DEF UsageInv, UsageTypes
      <3> QED
        BY <3>1, <3>2, <3>3, <2>1 DEF UsageInv, EarlierTurns
    <2> QED
      BY <2>2, <2>3
  <1> QED
    BY <1>1, UsageBegins, UsageStep, PTL DEF UsageSpec

----------------------------------------------------------------------------
(* Transcript.                                                              *)

Files == [header : {"none", "empty", "written"}, events : Seq(Nat),
          tail : {"clean", "fragment", "bare"}, damaged : BOOLEAN]
Writers == [pc : {"idle", "heading", "hosting", "writing", "failed"}, last : Nat,
            truncate : BOOLEAN, separator : BOOLEAN]
Followers == [pc : {"idle", "reading", "looked", "ended", "cut", "error"}, start : Nat,
              cursor : Nat, shown : Seq(Nat), finished : BOOLEAN, end : Nat]
TranscriptTypes ==
    /\ file \in Files /\ disturbed \in BOOLEAN
    /\ writer \in [Hosts -> Writers] /\ follower \in [Readers -> Followers]

\* The events c + 1, c + 2, ... c + n.
Run(c, n) == [k \in 1..n |-> c + k]

\* An undamaged file numbers its events without a gap; only a disturbance
\* damages it.
FileOk(f, d) ==
    /\ ~f.damaged => f.events = Run(0, Len(f.events))
    /\ f.damaged => d
    /\ f.header = "none" => f.events = <<>> /\ f.tail = "clean"

\* What a writer k remembers of the file f is true of it, as long as nothing
\* disturbs it: the number of the last event, and what is behind it.
WriterOk(k, f, d) ==
    /\ k.pc \in {"idle", "heading"} => k.last = 0 /\ ~k.truncate /\ ~k.separator
    /\ k.pc = "heading" => f.header = "empty" /\ f.events = <<>> /\ f.tail = "clean"
    /\ k.pc \in {"hosting", "writing"} => f.header = "written"
    /\ k.pc \in {"hosting", "writing"} /\ ~f.damaged => k.last = Len(f.events)
    /\ k.pc = "hosting" /\ ~d => f.tail # "fragment" /\ (f.tail = "bare" => k.separator)
    /\ k.pc = "writing" /\ ~d => f.tail = "fragment"

\* One host at a time, and then the turn is active.
Busy == {"heading", "hosting", "writing"}
OneWriter == \A w \in Hosts : writer[w].pc \in Busy => turnState = <<"active", w>>

\* A follower has shown what there is from where it began to its cursor.
FollowerOk(v, f) ==
    /\ v.shown = Run(v.start, Len(v.shown)) /\ v.cursor = v.start + Len(v.shown)
    /\ v.cursor <= Len(f.events)
    /\ ~f.damaged => v.end <= Len(f.events)
    /\ v.pc = "ended" => v.cursor >= v.end
    /\ v.pc = "idle" => v.shown = <<>>

TranscriptInv ==
    /\ TranscriptTypes /\ OneWriter /\ FileOk(file, disturbed)
    /\ \A w \in Hosts : WriterOk(writer[w], file, disturbed)
    /\ \A r \in Readers : FollowerOk(follower[r], file)

\* A run of events is a sequence, and goes on with the next event or with the
\* beginning of the run that follows it.
LEMMA RunIsSeq ==
  ASSUME NEW c \in Nat, NEW n \in Nat
  PROVE  Run(c, n) \in Seq(Nat) /\ Len(Run(c, n)) = n
  BY DEF Run
LEMMA RunAppend ==
  \A c, n, e, m \in Nat :
      e = c + n + 1 /\ m = n + 1 => Append(Run(c, n), e) = Run(c, m)
  <1> SUFFICES ASSUME NEW c \in Nat, NEW n \in Nat, NEW e \in Nat, NEW m \in Nat,
                      e = c + n + 1, m = n + 1
               PROVE  Append(Run(c, n), e) = Run(c, m)
    BY ZenonT(30)
  <1>1. Run(c, n) \in Seq(Nat) /\ Len(Run(c, n)) = n
    BY RunIsSeq
  <1>2. Run(c, m) \in Seq(Nat) /\ Len(Run(c, m)) = m
    BY RunIsSeq
  <1>3. /\ Append(Run(c, n), e) \in Seq(Nat)
        /\ Len(Append(Run(c, n), e)) = m
    BY <1>1
  <1>4. \A i \in 1..m : Append(Run(c, n), e)[i] = Run(c, m)[i]
    <2> SUFFICES ASSUME NEW i \in 1..m
                 PROVE  Append(Run(c, n), e)[i] = Run(c, m)[i]
      OBVIOUS
    <2>1. Run(c, m)[i] = c + i
      BY DEF Run
    <2>2. CASE i <= n
      <3>1. Append(Run(c, n), e)[i] = Run(c, n)[i]
        BY <1>1, <2>2
      <3> QED
        BY <3>1, <2>1, <2>2 DEF Run
    <2>3. CASE i = n + 1
      BY <1>1, <2>1, <2>3
    <2>4. i <= n \/ i = n + 1
      OBVIOUS
    <2> QED
      BY <2>2, <2>3, <2>4
  <1> QED
    BY <1>2, <1>3, <1>4, SeqEqual
LEMMA RunGoesOn ==
  ASSUME NEW c \in Nat, NEW k \in Nat, k - 1 - c \in Nat
  PROVE  Append(Run(c, k - 1 - c), k) = Run(c, k - c)
  <1>1. PICK i \in Nat : i = k - 1 - c
    OBVIOUS
  <1>2. k = c + i + 1 /\ k - c = i + 1 /\ i + 1 \in Nat
    BY <1>1
  <1>3. Append(Run(c, i), k) = Run(c, i + 1)
    BY <1>2, RunAppend
  <1> QED
    BY <1>1, <1>2, <1>3
LEMMA RunConcat ==
  ASSUME NEW c \in Nat, NEW n \in Nat, NEW m \in Nat, NEW j \in 1..m
  PROVE  Run(c, n) \o SubSeq(Run(c + n, m), 1, j) = Run(c, n + j)
  <1> DEFINE part == SubSeq(Run(c + n, m), 1, j)
  <1>1. /\ Run(c, n) \in Seq(Nat) /\ Len(Run(c, n)) = n
        /\ Run(c + n, m) \in Seq(Nat) /\ Len(Run(c + n, m)) = m
        /\ Run(c, n + j) \in Seq(Nat) /\ Len(Run(c, n + j)) = n + j
    <2>1. c + n \in Nat /\ n + j \in Nat
      OBVIOUS
    <2> QED
      BY <2>1, RunIsSeq
  <1>2. /\ part \in Seq(Nat) /\ Len(part) = j
        /\ \A i \in 1..j : part[i] = Run(c + n, m)[i]
    <2>1. \A i \in 1..j : Run(c + n, m)[i] \in Nat
      BY DEF Run
    <2>2. /\ part \in Seq(Nat) /\ Len(part) = IF 1 <= j THEN j - 1 + 1 ELSE 0
          /\ \A i \in 1..(j - 1 + 1) : part[i] = Run(c + n, m)[1 + i - 1]
      BY <2>1, SubSeqProperties
    <2> QED
      BY <2>2
  <1> HIDE DEF part
  <1>3. /\ Run(c, n) \o part \in Seq(Nat) /\ Len(Run(c, n) \o part) = n + j
        /\ \A i \in 1..(n + j) : (Run(c, n) \o part)[i] =
                IF i <= n THEN Run(c, n)[i] ELSE part[i - n]
    <2> DEFINE s == Run(c, n)
    <2>1. s \in Seq(Nat) /\ Len(s) = n
      BY <1>1
    <2> HIDE DEF s
    <2>2. /\ s \o part \in Seq(Nat) /\ Len(s \o part) = Len(s) + Len(part)
          /\ \A i \in 1..(Len(s) + Len(part)) : (s \o part)[i] =
                IF i <= Len(s) THEN s[i] ELSE part[i - Len(s)]
      BY <1>2, <2>1, ConcatProperties
    <2> QED
      BY <1>2, <2>1, <2>2 DEF s
  <1>4. \A i \in 1..(n + j) : (Run(c, n) \o part)[i] = Run(c, n + j)[i]
    <2> SUFFICES ASSUME NEW i \in 1..(n + j)
                 PROVE  (Run(c, n) \o part)[i] = Run(c, n + j)[i]
      OBVIOUS
    <2>1. Run(c, n + j)[i] = c + i
      BY DEF Run
    <2>2. CASE i <= n
      BY <1>3, <2>1, <2>2 DEF Run
    <2>3. CASE ~(i <= n)
      <3>1. i - n \in 1..j /\ i - n \in 1..m
        BY <2>3
      <3>2. part[i - n] = c + n + (i - n)
        BY <1>2, <3>1 DEF Run
      <3> QED
        BY <1>3, <2>1, <2>3, <3>2
    <2> QED
      BY <2>2, <2>3
  <1>5. Run(c, n) \o part = Run(c, n + j)
    BY <1>1, <1>3, <1>4, SeqEqual
  <1> QED
    BY <1>5 DEF part

\* A set of numbers that is not empty has a least one.
LEMMA LeastNumber ==
  ASSUME NEW T \in SUBSET Nat, T # {}
  PROVE  \E t \in T : \A u \in T : t <= u
  <1>1. PICK t \in T : \A u \in T : ~(<<u, t>> \in OpToRel(<, Nat))
    BY WFMin, NatLessThanWellFounded
  <1>2. ASSUME NEW u \in T PROVE t <= u
    <2>1. u < t => <<u, t>> \in OpToRel(<, Nat)
      BY DEF OpToRel
    <2>2. u \in Nat /\ t \in Nat
      OBVIOUS
    <2>3. ~(u < t)
      BY <1>1, <2>1, Zenon
    <2> QED
      BY <2>2, <2>3
  <1> QED
    BY <1>2

\* Reading on from c shows the run behind it.
LEMMA PageOfRun ==
  ASSUME NEW n \in Nat, file.events = Run(0, n), NEW c \in 0..n
  PROVE  Page(c) = Run(c, n - c)
  <1> DEFINE Kept(f) == [k \in 0..n |->
                          IF k = 0 THEN <<>>
                          ELSE IF file.events[k] > c THEN Append(f[k - 1], file.events[k])
                          ELSE f[k - 1]]
             g == [k \in 0..n |-> IF k <= c THEN <<>> ELSE Run(c, k - c)]
             f == CHOOSE h : h = Kept(h)
  <1>1. Len(file.events) = n /\ \A k \in 1..n : file.events[k] = k
    BY RunIsSeq DEF Run
  <1>2. Page(c) = f[n]
    BY <1>1 DEF Page, Count
  <1>3. g = Kept(g)
    <2> SUFFICES ASSUME NEW k \in 0..n PROVE g[k] = Kept(g)[k]
      OBVIOUS
    <2>1. CASE k = 0
      BY <2>1
    <2>2. CASE k # 0 /\ k <= c
      <3>1. k - 1 \in 0..n /\ k - 1 <= c /\ file.events[k] = k
        BY <1>1, <2>2
      <3> QED
        BY <3>1, <2>2
    <2>3. CASE k > c /\ k - 1 <= c
      <3>1. k - 1 \in 0..n /\ file.events[k] = k /\ k = c + 1 /\ k # 0
        BY <1>1, <2>3
      <3>2. Kept(g)[k] = Append(<<>>, c + 1)
        BY SMTT(30), <3>1
      <3>3. g[k] = Run(c, 1)
        BY <3>1
      <3>4. Run(c, 0) = <<>>
        BY DEF Run
      <3>5. Append(Run(c, 0), c + 1) = Run(c, 1)
        <4>1. c \in Nat /\ c + 1 \in Nat /\ c + 1 = c + 0 + 1 /\ 1 = 0 + 1
          OBVIOUS
        <4> QED
          BY <4>1, RunAppend
      <3> QED
        BY <3>2, <3>3, <3>4, <3>5
    <2>4. CASE k > c /\ k - 1 > c
      <3>1. k - 1 \in 0..n /\ file.events[k] = k /\ k # 0 /\ k - 1 - c \in Nat
        BY <1>1, <2>4
      <3>2. Kept(g)[k] = Append(Run(c, k - 1 - c), k)
        BY <3>1, <2>4
      <3>3. Append(Run(c, k - 1 - c), k) = Run(c, k - c)
        <4>1. c \in Nat /\ k \in Nat
          OBVIOUS
        <4> QED
          BY <3>1, <4>1, RunGoesOn
      <3>5. g[k] = Run(c, k - c)
        BY <2>4
      <3> QED
        BY <3>2, <3>3, <3>5
    <2> QED
      BY <2>1, <2>2, <2>3, <2>4
  <1>4. f = Kept(f)
    BY <1>3
  <1> HIDE DEF f
  <1>5. \A k \in 0..n : f[k] = g[k]
    <2> SUFFICES ASSUME {k \in 0..n : f[k] # g[k]} # {} PROVE FALSE
      OBVIOUS
    <2>1. PICK k \in {k \in 0..n : f[k] # g[k]} :
              \A j \in {j \in 0..n : f[j] # g[j]} : k <= j
      <3>1. {k \in 0..n : f[k] # g[k]} \in SUBSET Nat
        OBVIOUS
      <3> QED
        BY <3>1, LeastNumber
    <2>2. k \in 0..n /\ f[k] # g[k]
      OBVIOUS
    <2>3. f[k] = Kept(f)[k] /\ g[k] = Kept(g)[k]
      BY <1>3, <1>4
    <2>4. k # 0 => k - 1 \in 0..n /\ f[k - 1] = g[k - 1]
      BY <2>1, <2>2
    <2> HIDE DEF g
    <2>5. CASE k = 0
      BY <2>2, <2>3, <2>5
    <2>6. CASE k # 0
      BY <2>2, <2>3, <2>4, <2>6
    <2> QED
      BY <2>5, <2>6
  <1>6. g[n] = Run(c, n - c)
    <2>1. n <= c => n - c = 0
      OBVIOUS
    <2>2. Run(c, 0) = <<>>
      BY DEF Run
    <2> QED
      BY <2>1, <2>2
  <1> QED
    BY <1>2, <1>5, <1>6


\* While the file only grows, what a follower has shown stays right.
LEMMA FollowersStay ==
  ASSUME NEW f \in Files, NEW g \in Files, NEW v \in Followers, FollowerOk(v, f),
         Len(f.events) <= Len(g.events), f.damaged => g.damaged
  PROVE  FollowerOk(v, g)
  <1>1. Len(f.events) \in Nat /\ Len(g.events) \in Nat
    BY DEF Files
  <1>2. v.cursor \in Nat /\ v.end \in Nat
    BY DEF Followers
  <1>3. /\ v.shown = Run(v.start, Len(v.shown)) /\ v.cursor = v.start + Len(v.shown)
        /\ v.cursor <= Len(f.events) /\ (~f.damaged => v.end <= Len(f.events))
        /\ (v.pc = "ended" => v.cursor >= v.end) /\ (v.pc = "idle" => v.shown = <<>>)
    BY DEF FollowerOk
  <1>4. v.cursor <= Len(g.events) /\ (~g.damaged => v.end <= Len(g.events))
    BY <1>1, <1>2, <1>3
  <1> QED
    BY <1>3, <1>4 DEF FollowerOk

\* The host that is busy is the only one, and with no turn active there is none.
LEMMA Alone ==
  ASSUME OneWriter, NEW w \in Hosts,
         writer[w].pc \in Busy \/ turnState[1] # "active"
  PROVE  \A x \in Hosts : x # w => writer[x].pc \notin Busy
  BY DEF OneWriter

\* A host acts: what has to be shown of the file and of what it remembers.
LEMMA HostActs ==
  ASSUME TranscriptInv, NEW w \in Hosts, NEW k \in Writers, file' \in Files,
         writer' = [writer EXCEPT ![w] = k], follower' = follower, disturbed' \in BOOLEAN,
         writer[w].pc \in Busy \/ turnState[1] # "active",
         k.pc \in Busy => turnState' = <<"active", w>>,
         FileOk(file', disturbed'), WriterOk(k, file', disturbed'),
         Len(file.events) <= Len(file'.events), file.damaged => file'.damaged
  PROVE  TranscriptInv'
  <1>1. TranscriptTypes'
    BY DEF TranscriptInv, TranscriptTypes
  <1>2. \A x \in Hosts : x # w => writer[x].pc \notin Busy
    BY Alone DEF TranscriptInv
  <1>3. \A x \in Hosts : writer'[x] = IF x = w THEN k ELSE writer[x]
    BY DEF TranscriptInv, TranscriptTypes
  <1>4. OneWriter'
    BY <1>2, <1>3 DEF OneWriter
  <1>5. \A x \in Hosts : WriterOk(writer'[x], file', disturbed')
    <2> SUFFICES ASSUME NEW x \in Hosts, x # w
                 PROVE  WriterOk(writer[x], file', disturbed')
      BY <1>3
    <2>1. writer[x].pc \notin Busy /\ WriterOk(writer[x], file, disturbed)
      BY <1>2 DEF TranscriptInv
    <2> QED
      BY <2>1 DEF WriterOk, Busy
  <1>6. \A r \in Readers : FollowerOk(follower'[r], file')
    <2> SUFFICES ASSUME NEW r \in Readers PROVE FollowerOk(follower[r], file')
      OBVIOUS
    <2>1. follower[r] \in Followers /\ FollowerOk(follower[r], file) /\ file \in Files
      BY DEF TranscriptInv, TranscriptTypes
    <2> QED
      BY <2>1, FollowersStay
  <1> QED
    BY <1>1, <1>4, <1>5, <1>6 DEF TranscriptInv

\* A follower acts and leaves the rest alone.
LEMMA FollowerActs ==
  ASSUME TranscriptInv, NEW r \in Readers, NEW v \in Followers,
         follower' = [follower EXCEPT ![r] = v],
         UNCHANGED <<file, writer, turnState, disturbed>>, FollowerOk(v, file)
  PROVE  TranscriptInv'
  <1>1. TranscriptTypes'
    BY DEF TranscriptInv, TranscriptTypes
  <1>2. \A x \in Readers : FollowerOk(follower'[x], file')
    <2> SUFFICES ASSUME NEW x \in Readers PROVE FollowerOk(follower'[x], file)
      OBVIOUS
    <2>1. follower'[x] = IF x = r THEN v ELSE follower[x]
      BY DEF TranscriptInv, TranscriptTypes
    <2> QED
      BY <2>1 DEF TranscriptInv
  <1> QED
    BY <1>1, <1>2 DEF TranscriptInv, OneWriter

\* Cutting off a piece of an event leaves the events alone.
LEMMA RepairKeeps ==
  ASSUME file \in Files
  PROVE  /\ Repaired \in Files /\ Repaired.header = file.header
         /\ Repaired.events = file.events /\ Repaired.damaged = file.damaged
         /\ Repaired.tail # "fragment"
         /\ file.tail # "fragment" => Repaired.tail = file.tail
         /\ Repaired.tail = "bare" => file.tail = "bare"
  BY DEF Repaired, Files

\* What an append does to the file, however far it gets.
LEMMA AppendDoes ==
  ASSUME TranscriptInv, NEW w \in Hosts, writer[w].pc = "hosting",
         NEW tail \in {"clean", "fragment", "bare"}, NEW g, g = Appended(w, tail)
  PROVE  /\ g \in Files /\ g.header = "written" /\ g.tail = tail
         /\ FileOk(g, disturbed)
         /\ Len(file.events) <= Len(g.events) /\ (file.damaged => g.damaged)
         /\ ~g.damaged => Len(g.events) = writer[w].last + (IF tail = "fragment" THEN 0 ELSE 1)
  <1> DEFINE k == writer[w]
             b == Base(w)
             more == ~(tail = "fragment" \/ Glues(w))
  <1>t. file \in Files /\ k \in Writers
    BY DEF TranscriptInv, TranscriptTypes
  <1>k. WriterOk(k, file, disturbed) /\ k.pc = "hosting" /\ FileOk(file, disturbed)
    BY DEF TranscriptInv
  <1>h. k.last \in Nat
    BY <1>t DEF Writers
  <1> HIDE DEF k
  <1>b. /\ b \in Files /\ b.header = "written" /\ b.events = file.events
        /\ b.damaged = file.damaged /\ (file.tail # "fragment" => b = file)
    <2>1. file.header = "written"
      BY <1>k DEF WriterOk
    <2> QED
      BY <1>t, <2>1, RepairKeeps DEF Base
  <1>g. g = [b EXCEPT !.damaged = b.damaged \/ Glues(w),
                      !.events = IF more THEN Append(b.events, k.last + 1) ELSE b.events,
                      !.tail = tail]
    BY DEF Appended, k
  <1>n. ~disturbed => ~Glues(w)
    <2>1. ~disturbed => file.tail # "fragment" /\ (file.tail = "bare" => k.separator)
      BY <1>k DEF WriterOk
    <2> QED
      BY <2>1, <1>b DEF Glues, k
  <1>m. Glues(w) \in BOOLEAN
    BY DEF Glues
  <1> HIDE DEF b
  <1>o. more \in BOOLEAN /\ (more => tail # "fragment" /\ ~Glues(w))
        /\ (~more => tail = "fragment" \/ Glues(w))
    BY <1>m
  <1> HIDE DEF more
  <1>1. b.events \in Seq(Nat) /\ b.damaged \in BOOLEAN /\ Len(b.events) \in Nat
    BY <1>b DEF Files
  <1>2. /\ g.header = "written" /\ g.tail = tail /\ g.damaged = (b.damaged \/ Glues(w))
        /\ g.events = IF more THEN Append(b.events, k.last + 1) ELSE b.events
    BY <1>g, <1>b DEF Files
  <1>3. g.events \in Seq(Nat) /\ Len(g.events) = Len(b.events) + (IF more THEN 1 ELSE 0)
    <2>1. CASE more
      <3>1. k.last + 1 \in Nat
        BY <1>h
      <3>2. Append(b.events, k.last + 1) \in Seq(Nat)
              /\ Len(Append(b.events, k.last + 1)) = Len(b.events) + 1
        BY <1>1, <3>1
      <3> QED
        BY <1>2, <2>1, <3>2
    <2>2. CASE ~more
      BY <1>1, <1>2, <2>2
    <2> QED
      BY <2>1, <2>2
  <1>4. g \in Files
    BY <1>g, <1>b, <1>2, <1>3, <1>1, <1>m DEF Files
  <1>5. ~g.damaged => k.last = Len(b.events) /\ b.events = Run(0, Len(b.events)) /\ ~Glues(w)
    BY <1>2, <1>b, <1>k DEF WriterOk, FileOk
  <1>6. ~g.damaged => g.events = Run(0, Len(g.events))
    <2> SUFFICES ASSUME ~g.damaged PROVE g.events = Run(0, Len(g.events))
      OBVIOUS
    <2>1. CASE more
      <3>1. PICK n \in Nat : n = Len(b.events)
        BY <1>1
      <3>2. g.events = Append(Run(0, n), n + 1) /\ Len(g.events) = n + 1
        BY <1>2, <1>3, <1>5, <2>1, <3>1
      <3>3. n + 1 \in Nat /\ n + 1 = 0 + n + 1
        OBVIOUS
      <3> QED
        BY <3>2, <3>3, RunAppend
    <2>2. CASE ~more
      BY <1>2, <1>5, <2>2
    <2> QED
      BY <2>1, <2>2
  <1>7. g.damaged => disturbed
    BY <1>2, <1>b, <1>n, <1>k DEF FileOk
  <1>8. FileOk(g, disturbed)
    BY <1>2, <1>6, <1>7 DEF FileOk
  <1>9. ~g.damaged => Len(g.events) = k.last + (IF tail = "fragment" THEN 0 ELSE 1)
    BY <1>3, <1>5, <1>o, <1>1
  <1> QED
    BY <1>2, <1>3, <1>4, <1>8, <1>9, <1>b, <1>1 DEF k

LEMMA TranscriptBegins == TranscriptInit => TranscriptInv
  <1> SUFFICES ASSUME TranscriptInit PROVE TranscriptInv
    OBVIOUS
  <1>1. /\ file = [header |-> "none", events |-> <<>>, tail |-> "clean", damaged |-> FALSE]
        /\ writer = [w \in Hosts |-> NoWriter] /\ disturbed = FALSE
        /\ follower = [r \in Readers |-> NoFollower]
    BY DEF TranscriptInit
  <1>2. <<>> \in Seq(Nat) /\ Len(<<>>) = 0
    OBVIOUS
  <1>3. Run(0, 0) = <<>>
    BY DEF Run
  <1>4. NoWriter \in Writers /\ NoWriter.pc = "idle"
    BY DEF NoWriter, Writers
  <1>5. NoFollower \in Followers
    BY <1>2 DEF NoFollower, Followers
  <1>6. TranscriptTypes
    BY <1>1, <1>2, <1>4, <1>5 DEF TranscriptTypes, Files
  <1>7. OneWriter
    BY <1>1, <1>4 DEF OneWriter, Busy
  <1>8. FileOk(file, disturbed)
    BY <1>1, <1>2, <1>3 DEF FileOk
  <1>9. \A w \in Hosts : WriterOk(writer[w], file, disturbed)
    BY <1>1 DEF NoWriter, WriterOk
  <1>10. \A r \in Readers : FollowerOk(follower[r], file)
    BY <1>1, <1>2, <1>3 DEF NoFollower, FollowerOk
  <1> QED
    BY <1>6, <1>7, <1>8, <1>9, <1>10 DEF TranscriptInv

\* The last event of a file that is numbered without a gap.
LEMMA LastOfRun ==
  ASSUME file \in Files, file.events = Run(0, Len(file.events))
  PROVE  LastIndex = Len(file.events)
  <1>1. PICK n \in Nat : n = Len(file.events)
    BY DEF Files
  <1>2. n # 0 => Run(0, n)[n] = n
    BY DEF Run
  <1> QED
    BY <1>1, <1>2 DEF LastIndex, Count

\* The steps of the hosts.
LEMMA CreateFileStep ==
  ASSUME TranscriptInv, NEW w \in Hosts, CreateFile(w) PROVE TranscriptInv'
  <1> DEFINE k == [writer[w] EXCEPT !.pc = "heading"]
  <1>1. /\ writer[w] \in Writers /\ file \in Files /\ disturbed \in BOOLEAN
        /\ WriterOk(writer[w], file, disturbed) /\ FileOk(file, disturbed)
    BY DEF TranscriptInv, TranscriptTypes
  <1>2. /\ writer[w].pc = "idle" /\ turnState[1] # "active" /\ file.header = "none"
        /\ file' = [file EXCEPT !.header = "empty"]
        /\ writer' = [writer EXCEPT ![w] = k]
        /\ turnState' = <<"active", w>> /\ follower' = follower /\ disturbed' = disturbed
    BY DEF CreateFile
  <1>3. /\ k \in Writers /\ k.pc = "heading" /\ k.last = writer[w].last
        /\ k.truncate = writer[w].truncate /\ k.separator = writer[w].separator
    BY <1>1 DEF Writers
  <1> HIDE DEF k
  <1>4. /\ file' \in Files /\ file'.header = "empty" /\ file'.events = file.events
        /\ file'.tail = file.tail /\ file'.damaged = file.damaged
    BY <1>1, <1>2 DEF Files
  <1>5. FileOk(file', disturbed')
    BY <1>1, <1>2, <1>4 DEF FileOk
  <1>6. WriterOk(k, file', disturbed')
    BY <1>1, <1>2, <1>3, <1>4 DEF WriterOk, FileOk
  <1>7. Len(file.events) <= Len(file'.events)
    BY <1>1, <1>4 DEF Files
  <1> QED
    BY <1>1, <1>2, <1>3, <1>4, <1>5, <1>6, <1>7, HostActs
LEMMA WriteHeaderStep ==
  ASSUME TranscriptInv, NEW w \in Hosts, WriteHeader(w) PROVE TranscriptInv'
  <1> DEFINE k == [writer[w] EXCEPT !.pc = "hosting"]
  <1>1. /\ writer[w] \in Writers /\ file \in Files /\ disturbed \in BOOLEAN
        /\ WriterOk(writer[w], file, disturbed) /\ FileOk(file, disturbed) /\ OneWriter
    BY DEF TranscriptInv, TranscriptTypes
  <1>2. /\ writer[w].pc = "heading" /\ file' = [file EXCEPT !.header = "written"]
        /\ writer' = [writer EXCEPT ![w] = k]
        /\ turnState' = turnState /\ follower' = follower /\ disturbed' = disturbed
    BY DEF WriteHeader
  <1>u. writer[w].pc \in Busy /\ turnState = <<"active", w>>
    BY <1>1, <1>2 DEF OneWriter, Busy
  <1>3. /\ k \in Writers /\ k.pc = "hosting" /\ k.last = writer[w].last
        /\ k.truncate = writer[w].truncate /\ k.separator = writer[w].separator
    BY <1>1 DEF Writers
  <1> HIDE DEF k
  <1>4. /\ file' \in Files /\ file'.header = "written" /\ file'.events = file.events
        /\ file'.tail = file.tail /\ file'.damaged = file.damaged
    BY <1>1, <1>2 DEF Files
  <1>5. FileOk(file', disturbed')
    BY <1>1, <1>2, <1>4 DEF FileOk
  <1>6. WriterOk(k, file', disturbed')
    <2>1. Len(<<>>) = 0
      OBVIOUS
    <2> QED
      BY <1>1, <1>2, <1>3, <1>4, <2>1 DEF WriterOk
  <1>7. Len(file.events) <= Len(file'.events)
    BY <1>1, <1>4 DEF Files
  <1> QED
    BY <1>1, <1>2, <1>u, <1>3, <1>4, <1>5, <1>6, <1>7, HostActs
LEMMA HostStep ==
  ASSUME TranscriptInv, NEW w \in Hosts, Host(w) PROVE TranscriptInv'
  <1>1. /\ writer[w] \in Writers /\ file \in Files /\ disturbed \in BOOLEAN
        /\ WriterOk(writer[w], file, disturbed) /\ FileOk(file, disturbed)
        /\ Len(file.events) \in Nat
    BY DEF TranscriptInv, TranscriptTypes, Files
  <1>2. /\ writer[w].pc = "idle" /\ turnState[1] # "active"
        /\ follower' = follower /\ disturbed' = disturbed
    BY DEF Host
  <1>3. CASE Parsable
    <2> DEFINE k == [pc |-> "hosting", last |-> LastIndex, truncate |-> FALSE,
                     separator |-> NeedsSeparator]
    <2>1. /\ file' = Repaired /\ writer' = [writer EXCEPT ![w] = k]
          /\ turnState' = <<"active", w>>
      BY <1>3 DEF Host
    <2>2. /\ file' \in Files /\ file'.header = "written" /\ file'.events = file.events
          /\ file'.damaged = file.damaged /\ file'.tail # "fragment"
          /\ (file'.tail = "bare" => file.tail = "bare") /\ ~file.damaged
      BY <1>1, <1>3, <2>1, RepairKeeps DEF Parsable
    <2>3. LastIndex = Len(file.events)
      BY <1>1, <2>2, LastOfRun DEF FileOk
    <2>4. /\ k \in Writers /\ k.pc = "hosting" /\ k.last = Len(file.events)
          /\ (file.tail = "bare" => k.separator)
      BY <1>1, <2>3 DEF Writers, NeedsSeparator
    <2> HIDE DEF k
    <2>5. FileOk(file', disturbed')
      BY <1>1, <1>2, <2>2 DEF FileOk
    <2>6. WriterOk(k, file', disturbed')
      BY <2>2, <2>4 DEF WriterOk
    <2>7. Len(file.events) <= Len(file'.events)
      BY <1>1, <2>2
    <2>8. disturbed' \in BOOLEAN /\ (file.damaged => file'.damaged)
      BY <1>1, <1>2, <2>2
    <2> QED
      BY <1>2, <2>1, <2>2, <2>4, <2>5, <2>6, <2>7, <2>8, HostActs
  <1>4. CASE ~Parsable
    <2> DEFINE k == [writer[w] EXCEPT !.pc = "failed"]
    <2>1. file' = file /\ turnState' = turnState /\ writer' = [writer EXCEPT ![w] = k]
      BY <1>4 DEF Host
    <2>2. k \in Writers /\ k.pc = "failed"
      BY <1>1 DEF Writers
    <2> HIDE DEF k
    <2>3. WriterOk(k, file', disturbed') /\ k.pc \notin Busy
      BY <2>2 DEF WriterOk, Busy
    <2>4. Len(file.events) <= Len(file'.events)
      BY <1>1, <2>1
    <2> QED
      BY <1>1, <1>2, <2>1, <2>2, <2>3, <2>4, HostActs
  <1> QED
    BY <1>3, <1>4

\* What is known of a host that appends.
LEMMA HostKnows ==
  ASSUME TranscriptInv, NEW w \in Hosts, writer[w].pc \in Busy
  PROVE  /\ writer[w] \in Writers /\ file \in Files /\ disturbed \in BOOLEAN
         /\ WriterOk(writer[w], file, disturbed) /\ FileOk(file, disturbed)
         /\ turnState = <<"active", w>> /\ Len(file.events) \in Nat
  BY DEF TranscriptInv, TranscriptTypes, OneWriter, Files

LEMMA AppendEventStep ==
  ASSUME TranscriptInv, NEW w \in Hosts, AppendEvent(w) PROVE TranscriptInv'
  <1> DEFINE k == [writer[w] EXCEPT !.last = writer[w].last + 1, !.truncate = FALSE,
                                    !.separator = FALSE]
  <1>1. /\ writer[w].pc = "hosting" /\ file' = Appended(w, "clean")
        /\ writer' = [writer EXCEPT ![w] = k]
        /\ turnState' = turnState /\ follower' = follower /\ disturbed' = disturbed
    BY DEF AppendEvent
  <1>2. /\ writer[w] \in Writers /\ disturbed \in BOOLEAN
        /\ writer[w].pc \in Busy /\ turnState = <<"active", w>>
    BY <1>1, HostKnows DEF Busy
  <1>3. /\ file' \in Files /\ file'.header = "written" /\ file'.tail = "clean"
        /\ FileOk(file', disturbed) /\ Len(file.events) <= Len(file'.events)
        /\ (file.damaged => file'.damaged)
        /\ (~file'.damaged => Len(file'.events) = writer[w].last + 1)
    BY <1>1, AppendDoes
  <1>4. k \in Writers /\ k.pc = "hosting" /\ k.last = writer[w].last + 1
    <2>1. writer[w].last + 1 \in Nat
      BY <1>2 DEF Writers
    <2> QED
      BY <1>1, <1>2, <2>1 DEF Writers
  <1> HIDE DEF k
  <1>5. WriterOk(k, file', disturbed')
    BY <1>1, <1>3, <1>4 DEF WriterOk
  <1> QED
    BY <1>1, <1>2, <1>3, <1>4, <1>5, HostActs
LEMMA BeginWriteStep ==
  ASSUME TranscriptInv, NEW w \in Hosts, BeginWrite(w) PROVE TranscriptInv'
  <1> DEFINE k == [writer[w] EXCEPT !.pc = "writing"]
  <1>1. /\ writer[w].pc = "hosting" /\ file' = Appended(w, "fragment")
        /\ writer' = [writer EXCEPT ![w] = k]
        /\ turnState' = turnState /\ follower' = follower /\ disturbed' = disturbed
    BY DEF BeginWrite
  <1>2. /\ writer[w] \in Writers /\ disturbed \in BOOLEAN
        /\ writer[w].pc \in Busy /\ turnState = <<"active", w>>
    BY <1>1, HostKnows DEF Busy
  <1>3. /\ file' \in Files /\ file'.header = "written" /\ file'.tail = "fragment"
        /\ FileOk(file', disturbed) /\ Len(file.events) <= Len(file'.events)
        /\ (file.damaged => file'.damaged)
        /\ (~file'.damaged => Len(file'.events) = writer[w].last)
    <2>1. ~file'.damaged => Len(file'.events) = writer[w].last + 0
      BY <1>1, AppendDoes
    <2>2. writer[w].last + 0 = writer[w].last
      BY <1>2 DEF Writers
    <2> QED
      BY <1>1, <2>1, <2>2, AppendDoes
  <1>4. k \in Writers /\ k.pc = "writing" /\ k.last = writer[w].last
    BY <1>2 DEF Writers
  <1> HIDE DEF k
  <1>5. WriterOk(k, file', disturbed')
    BY <1>1, <1>3, <1>4 DEF WriterOk
  <1> QED
    BY <1>1, <1>2, <1>3, <1>4, <1>5, HostActs
LEMMA EndWriteStep ==
  ASSUME TranscriptInv, NEW w \in Hosts, EndWrite(w) PROVE TranscriptInv'
  <1> DEFINE k == [writer[w] EXCEPT !.pc = "hosting", !.last = writer[w].last + 1,
                                    !.truncate = FALSE, !.separator = FALSE]
             n == writer[w].last
  <1>1. /\ writer[w].pc = "writing" /\ writer' = [writer EXCEPT ![w] = k]
        /\ turnState' = turnState /\ follower' = follower /\ disturbed' = disturbed
        /\ file' = IF file.tail = "fragment" /\ ~file.damaged
                   THEN [file EXCEPT !.events = Append(file.events, n + 1), !.tail = "clean"]
                   ELSE [file EXCEPT !.damaged = TRUE, !.tail = "clean"]
    BY DEF EndWrite
  <1>2. /\ writer[w] \in Writers /\ disturbed \in BOOLEAN /\ file \in Files
        /\ writer[w].pc \in Busy /\ turnState = <<"active", w>>
        /\ WriterOk(writer[w], file, disturbed) /\ FileOk(file, disturbed)
        /\ Len(file.events) \in Nat /\ n \in Nat
    BY <1>1, HostKnows DEF Busy, Writers
  <1>3. k \in Writers /\ k.pc = "hosting" /\ k.last = n + 1
    <2>1. writer[w].last + 1 \in Nat
      BY <1>2
    <2> QED
      BY <1>2, <2>1 DEF Writers
  <1>4. /\ file.header = "written" /\ (~file.damaged => n = Len(file.events))
        /\ (~disturbed => file.tail = "fragment")
    BY <1>1, <1>2 DEF WriterOk
  <1> HIDE DEF k, n
  <1>5. CASE file.tail = "fragment" /\ ~file.damaged
    <2>1. /\ file.events = Run(0, n) /\ n = Len(file.events) /\ file.events \in Seq(Nat)
      BY <1>2, <1>4, <1>5 DEF FileOk, Files
    <2>2. Append(file.events, n + 1) = Run(0, n + 1)
      <3>1. n + 1 \in Nat /\ n + 1 = 0 + n + 1
        BY <1>2
      <3>2. Append(Run(0, n), n + 1) = Run(0, n + 1)
        BY <1>2, <3>1, RunAppend
      <3> QED
        BY <2>1, <3>2
    <2>3. Run(0, n + 1) \in Seq(Nat) /\ Len(Run(0, n + 1)) = n + 1
      <3>1. 0 \in Nat /\ n + 1 \in Nat
        BY <1>2
      <3> QED
        BY <3>1, RunIsSeq
    <2>4. /\ file'.header = "written" /\ file'.tail = "clean" /\ ~file'.damaged
          /\ file'.events = Run(0, n + 1)
      BY <1>1, <1>2, <1>4, <1>5, <2>2 DEF Files
    <2>5. file' \in Files
      BY <1>1, <1>2, <1>5, <2>2, <2>3 DEF Files
    <2>6. FileOk(file', disturbed')
      BY <2>3, <2>4 DEF FileOk
    <2>7. WriterOk(k, file', disturbed')
      BY <1>3, <2>3, <2>4 DEF WriterOk
    <2>8. Len(file.events) <= Len(file'.events)
      BY <1>2, <2>1, <2>3, <2>4
    <2> QED
      BY <1>1, <1>2, <1>3, <1>5, <2>5, <2>6, <2>7, <2>8, HostActs
  <1>6. CASE ~(file.tail = "fragment" /\ ~file.damaged)
    <2>1. /\ file' \in Files /\ file'.header = "written" /\ file'.tail = "clean"
          /\ file'.damaged /\ file'.events = file.events
      BY <1>1, <1>2, <1>4, <1>6 DEF Files
    <2>2. disturbed
      BY <1>2, <1>4, <1>6 DEF FileOk
    <2>3. FileOk(file', disturbed') /\ WriterOk(k, file', disturbed')
      BY <1>1, <1>3, <2>1, <2>2 DEF FileOk, WriterOk
    <2>4. Len(file.events) <= Len(file'.events)
      BY <1>2, <2>1
    <2> QED
      BY <1>1, <1>2, <1>3, <2>1, <2>3, <2>4, HostActs
  <1> QED
    BY <1>5, <1>6
LEMMA AppendFailsStep ==
  ASSUME TranscriptInv, NEW w \in Hosts, AppendFails(w) PROVE TranscriptInv'
  <1>1. /\ writer[w].pc = "hosting" /\ file' = Appended(w, "fragment") /\ disturbed' = TRUE
        /\ writer' = writer /\ turnState' = turnState /\ follower' = follower
    BY DEF AppendFails
  <1>2. /\ writer[w] \in Writers /\ writer[w].pc \in Busy /\ turnState = <<"active", w>>
        /\ WriterOk(writer[w], file, disturbed)
    BY <1>1, HostKnows DEF Busy
  <1>w. writer' = [writer EXCEPT ![w] = writer[w]]
    BY <1>1 DEF TranscriptInv, TranscriptTypes
  <1>3. /\ file' \in Files /\ file'.header = "written" /\ file'.tail = "fragment"
        /\ FileOk(file', disturbed) /\ Len(file.events) <= Len(file'.events)
        /\ (file.damaged => file'.damaged)
        /\ (~file'.damaged => Len(file'.events) = writer[w].last)
    <2>1. ~file'.damaged => Len(file'.events) = writer[w].last + 0
      BY <1>1, AppendDoes
    <2>2. writer[w].last + 0 = writer[w].last
      BY <1>2 DEF Writers
    <2> QED
      BY <1>1, <2>1, <2>2, AppendDoes
  <1>4. FileOk(file', disturbed') /\ WriterOk(writer[w], file', disturbed')
    BY <1>1, <1>3 DEF FileOk, WriterOk
  <1>5. disturbed' \in BOOLEAN /\ (writer[w].pc \in Busy => turnState' = <<"active", w>>)
    BY <1>1, <1>2
  <1> QED
    BY <1>1, <1>2, <1>w, <1>3, <1>4, <1>5, HostActs
LEMMA ReadOwnStep ==
  ASSUME TranscriptInv, NEW w \in Hosts, ReadOwn(w) PROVE TranscriptInv'
  <1> DEFINE k == [writer[w] EXCEPT !.last = LastIndex, !.truncate = (file.tail = "fragment"),
                                    !.separator = NeedsSeparator]
  <1>1. /\ writer[w].pc = "hosting" /\ Parsable /\ writer' = [writer EXCEPT ![w] = k]
        /\ file' = file /\ turnState' = turnState /\ follower' = follower
        /\ disturbed' = disturbed
    BY DEF ReadOwn
  <1>2. /\ writer[w] \in Writers /\ disturbed \in BOOLEAN /\ file \in Files
        /\ writer[w].pc \in Busy /\ turnState = <<"active", w>>
        /\ WriterOk(writer[w], file, disturbed) /\ FileOk(file, disturbed)
        /\ Len(file.events) \in Nat
    BY <1>1, HostKnows DEF Busy
  <1>3. LastIndex = Len(file.events) /\ file.header = "written"
    BY <1>1, <1>2, LastOfRun DEF FileOk, Parsable
  <1>4. /\ k \in Writers /\ k.pc = "hosting" /\ k.last = Len(file.events)
        /\ (file.tail = "bare" => k.separator)
    BY <1>1, <1>2, <1>3 DEF Writers, NeedsSeparator
  <1>5. ~disturbed => file.tail # "fragment"
    BY <1>1, <1>2 DEF WriterOk
  <1> HIDE DEF k
  <1>6. WriterOk(k, file', disturbed')
    BY <1>1, <1>3, <1>4, <1>5 DEF WriterOk
  <1>7. FileOk(file', disturbed') /\ Len(file.events) <= Len(file'.events)
    BY <1>1, <1>2
  <1> QED
    BY <1>1, <1>2, <1>4, <1>6, <1>7, HostActs

\* A host that is over, whether it recorded that or was killed.
LEMMA NoWriterOk ==
  ASSUME NEW f, NEW d PROVE NoWriter \in Writers /\ WriterOk(NoWriter, f, d) /\ NoWriter.pc \notin Busy
  BY DEF NoWriter, Writers, WriterOk, Busy
LEMMA FinalizeStep ==
  ASSUME TranscriptInv, NEW w \in Hosts, Finalize1(w) PROVE TranscriptInv'
  <1>1. /\ writer[w].pc = "hosting" /\ writer' = [writer EXCEPT ![w] = NoWriter]
        /\ file' = file /\ follower' = follower /\ disturbed' = disturbed
    BY DEF Finalize1
  <1>2. /\ disturbed \in BOOLEAN /\ file \in Files /\ writer[w].pc \in Busy
        /\ FileOk(file, disturbed) /\ Len(file.events) \in Nat
    BY <1>1, HostKnows DEF Busy
  <1>3. FileOk(file', disturbed') /\ Len(file.events) <= Len(file'.events)
    BY <1>1, <1>2
  <1> QED
    BY <1>1, <1>2, <1>3, NoWriterOk, HostActs
LEMMA KillHostStep ==
  ASSUME TranscriptInv, NEW w \in Hosts, KillHost(w) PROVE TranscriptInv'
  <1>1. /\ writer[w].pc \in Busy /\ writer' = [writer EXCEPT ![w] = NoWriter]
        /\ follower' = follower /\ disturbed' = disturbed
        /\ \/ file' = file
           \/ /\ writer[w].pc = "hosting"
              /\ file' = Appended(w, "fragment") \/ file' = Appended(w, "bare")
    BY DEF KillHost, Busy
  <1>2. /\ disturbed \in BOOLEAN /\ file \in Files
        /\ FileOk(file, disturbed) /\ Len(file.events) \in Nat
    BY <1>1, HostKnows
  <1>3. /\ file' \in Files /\ FileOk(file', disturbed')
        /\ Len(file.events) <= Len(file'.events) /\ (file.damaged => file'.damaged)
    <2>1. CASE file' = file
      BY <1>1, <1>2, <2>1
    <2>2. CASE writer[w].pc = "hosting" /\ file' = Appended(w, "fragment")
      BY <1>1, <2>2, AppendDoes
    <2>3. CASE writer[w].pc = "hosting" /\ file' = Appended(w, "bare")
      BY <1>1, <2>3, AppendDoes
    <2> QED
      BY <1>1, <2>1, <2>2, <2>3
  <1> QED
    BY <1>1, <1>2, <1>3, NoWriterOk, HostActs

\* _persist_unknown, when no host is there any more.
LEMMA PersistStep ==
  ASSUME TranscriptInv, PersistUnknown1 PROVE TranscriptInv'
  <1>1. /\ file \in Files /\ disturbed \in BOOLEAN /\ FileOk(file, disturbed)
        /\ Len(file.events) \in Nat /\ file.events \in Seq(Nat)
    BY DEF TranscriptInv, TranscriptTypes, Files
  <1>2. /\ turnState[1] = "unknown" /\ turnState' = <<"finished", turnState[2]>>
        /\ writer' = writer /\ follower' = follower /\ disturbed' = disturbed
    BY DEF PersistUnknown1
  <1>3. \A w \in Hosts : writer[w].pc \notin Busy
    BY <1>2 DEF TranscriptInv, OneWriter
  <1>4. /\ file' \in Files /\ FileOk(file', disturbed)
        /\ Len(file.events) <= Len(file'.events) /\ (file.damaged => file'.damaged)
    <2>1. CASE Parsable /\ LastIndex < MaxEvents
      <3> DEFINE n == Len(file.events)
      <3>1. file.events = Run(0, n) /\ ~file.damaged /\ file.header = "written"
        BY <1>1, <2>1 DEF Parsable, FileOk
      <3>2. LastIndex = n
        BY <1>1, <3>1, LastOfRun
      <3>3. n \in Nat /\ n + 1 \in Nat /\ n + 1 = 0 + n + 1
        BY <1>1
      <3>4. ~(file.tail = "bare" /\ ~NeedsSeparator)
        BY DEF NeedsSeparator
      <3>5. file' = [Repaired EXCEPT !.events = Append(Repaired.events, n + 1),
                                     !.tail = "clean", !.damaged = FALSE]
        BY <2>1, <3>2, <3>4 DEF PersistUnknown1
      <3> HIDE DEF n
      <3>6. Append(file.events, n + 1) = Run(0, n + 1)
        <4>1. Append(Run(0, n), n + 1) = Run(0, n + 1)
          BY <3>3, RunAppend
        <4> QED
          BY <3>1, <4>1
      <3>7. Run(0, n + 1) \in Seq(Nat) /\ Len(Run(0, n + 1)) = n + 1
        BY <3>3, RunIsSeq
      <3>8. /\ Repaired \in Files /\ Repaired.header = "written"
            /\ Repaired.events = file.events
        BY <1>1, <3>1, RepairKeeps
      <3>9. /\ file'.header = "written" /\ file'.tail = "clean" /\ ~file'.damaged
            /\ file'.events = Run(0, n + 1)
        BY <3>5, <3>6, <3>8 DEF Files
      <3>10. file' \in Files
        BY <3>5, <3>6, <3>7, <3>8 DEF Files
      <3>11. Len(file.events) <= Len(file'.events)
        BY <3>3, <3>7, <3>9 DEF n
      <3> QED
        BY <3>1, <3>7, <3>9, <3>10, <3>11 DEF FileOk
    <2>2. CASE ~(Parsable /\ LastIndex < MaxEvents)
      <3>1. file' = file
        BY <2>2 DEF PersistUnknown1
      <3> QED
        BY <1>1, <3>1
    <2> QED
      BY <2>1, <2>2
  <1>5. TranscriptTypes' /\ OneWriter'
    BY <1>2, <1>3, <1>4 DEF TranscriptInv, TranscriptTypes, OneWriter
  <1>6. \A w \in Hosts : WriterOk(writer[w], file', disturbed)
    <2> SUFFICES ASSUME NEW w \in Hosts PROVE WriterOk(writer[w], file', disturbed)
      OBVIOUS
    <2>1. writer[w].pc \notin Busy /\ WriterOk(writer[w], file, disturbed)
      BY <1>3 DEF TranscriptInv
    <2> QED
      BY <2>1 DEF WriterOk, Busy
  <1>7. \A r \in Readers : FollowerOk(follower[r], file')
    <2> SUFFICES ASSUME NEW r \in Readers PROVE FollowerOk(follower[r], file')
      OBVIOUS
    <2>1. follower[r] \in Followers /\ FollowerOk(follower[r], file)
      BY DEF TranscriptInv, TranscriptTypes
    <2> QED
      BY <1>1, <1>4, <2>1, FollowersStay
  <1> QED
    BY <1>2, <1>4, <1>5, <1>6, <1>7 DEF TranscriptInv

\* The steps of the followers.
LEMMA FollowerKnows ==
  ASSUME TranscriptInv, NEW r \in Readers
  PROVE  /\ follower[r] \in Followers /\ FollowerOk(follower[r], file)
         /\ file \in Files /\ FileOk(file, disturbed) /\ disturbed \in BOOLEAN
         /\ Len(file.events) \in Nat
  BY DEF TranscriptInv, TranscriptTypes, Files
\* A follower that only moves on, to a place that is not the end.
LEMMA FollowerMoves ==
  ASSUME TranscriptInv, NEW r \in Readers,
         NEW pc \in {"reading", "looked", "cut", "error"},
         follower' = [follower EXCEPT ![r].pc = pc],
         UNCHANGED <<file, writer, turnState, disturbed>>
  PROVE  TranscriptInv'
  <1> DEFINE v == [follower[r] EXCEPT !.pc = pc]
  <1>1. follower[r] \in Followers /\ FollowerOk(follower[r], file)
    BY FollowerKnows
  <1>2. /\ v \in Followers /\ v.pc = pc /\ v.start = follower[r].start
        /\ v.cursor = follower[r].cursor /\ v.shown = follower[r].shown
        /\ v.end = follower[r].end
    BY <1>1 DEF Followers
  <1>3. follower' = [follower EXCEPT ![r] = v]
    OBVIOUS
  <1> HIDE DEF v
  <1>4. FollowerOk(v, file)
    BY <1>1, <1>2 DEF FollowerOk
  <1> QED
    BY <1>2, <1>3, <1>4, FollowerActs
LEMMA OpenLogStep ==
  ASSUME TranscriptInv, NEW r \in Readers, OpenLog(r) PROVE TranscriptInv'
  <1>1. /\ follower[r] \in Followers /\ FollowerOk(follower[r], file)
        /\ file \in Files /\ FileOk(file, disturbed) /\ disturbed \in BOOLEAN
        /\ Len(file.events) \in Nat
    BY FollowerKnows
  <1>2. follower[r].pc = "idle" /\ writer' = writer /\ turnState' = turnState
    BY DEF OpenLog
  <1>3. CASE ~Parsable
    <2>1. /\ file' = file /\ follower' = [follower EXCEPT ![r].pc = "error"]
          /\ disturbed' = disturbed
      BY <1>1, <1>3 DEF OpenLog, Fails1
    <2> QED
      BY <1>2, <2>1, FollowerMoves
  <1>4. CASE Parsable
    <2>1. PICK start \in 0..LastIndex :
              /\ file' = Repaired
              /\ follower' = [follower EXCEPT ![r].pc = "reading", ![r].start = start,
                                              ![r].cursor = start]
      BY <1>4 DEF OpenLog
    <2>d. disturbed' = (disturbed \/ \E w \in Hosts : writer[w].pc = "writing")
      BY <1>4 DEF OpenLog
    <2>2. LastIndex = Len(file.events) /\ ~file.damaged /\ file.header = "written"
      BY <1>1, <1>4, LastOfRun DEF FileOk, Parsable
    <2>3. /\ file' \in Files /\ file'.header = "written" /\ file'.events = file.events
          /\ ~file'.damaged /\ file'.tail # "fragment"
          /\ (file'.tail = "bare" => file.tail = "bare")
      BY <1>1, <2>1, <2>2, RepairKeeps
    <2>4. start \in Nat /\ start <= Len(file.events)
      BY <1>1, <2>2
    <2>5. PICK v \in Followers :
              /\ follower' = [follower EXCEPT ![r] = v] /\ v.pc = "reading"
              /\ v.start = start /\ v.cursor = start
              /\ v.shown = follower[r].shown /\ v.end = follower[r].end
      <3> DEFINE v == [follower[r] EXCEPT !.pc = "reading", !.start = start, !.cursor = start]
      <3>1. follower' = [follower EXCEPT ![r] = v]
        BY <2>1
      <3>2. v \in Followers
        BY <1>1, <2>4 DEF Followers
      <3>3. /\ v.pc = "reading" /\ v.start = start /\ v.cursor = start
            /\ v.shown = follower[r].shown /\ v.end = follower[r].end
        BY <1>1 DEF Followers
      <3> QED
        BY <3>1, <3>2, <3>3
    <2>6. FollowerOk(v, file')
      <3>1. v.shown = <<>>
        BY <1>1, <1>2, <2>5 DEF FollowerOk
      <3>2. Len(<<>>) = 0 /\ Run(start, 0) = <<>>
        BY DEF Run
      <3>3. v.end <= Len(file.events)
        BY <1>1, <2>2, <2>5 DEF FollowerOk
      <3>4. start + 0 = start
        BY <2>4
      <3> QED
        BY <2>3, <2>4, <2>5, <3>1, <3>2, <3>3, <3>4 DEF FollowerOk
    <2>7. TranscriptTypes'
      <3>1. disturbed' \in BOOLEAN
        BY <1>1, <2>d
      <3> QED
        BY <1>2, <2>3, <2>5, <3>1 DEF TranscriptInv, TranscriptTypes
    <2>8. OneWriter'
      BY <1>2 DEF TranscriptInv, OneWriter
    <2>9. FileOk(file', disturbed')
      BY <1>1, <2>2, <2>3 DEF FileOk
    <2>10. \A w \in Hosts : WriterOk(writer'[w], file', disturbed')
      <3> SUFFICES ASSUME NEW w \in Hosts PROVE WriterOk(writer[w], file', disturbed')
        BY <1>2
      <3>1. WriterOk(writer[w], file, disturbed)
        BY DEF TranscriptInv
      <3>2. ~disturbed' => ~disturbed /\ writer[w].pc # "writing"
        BY <1>1, <2>d
      <3> QED
        BY <2>2, <2>3, <3>1, <3>2 DEF WriterOk
    <2>11. \A x \in Readers : FollowerOk(follower'[x], file')
      <3> SUFFICES ASSUME NEW x \in Readers PROVE FollowerOk(follower'[x], file')
        OBVIOUS
      <3>1. follower'[x] = IF x = r THEN v ELSE follower[x]
        BY <2>5 DEF TranscriptInv, TranscriptTypes
      <3>2. FollowerOk(follower[x], file) /\ follower[x] \in Followers
        BY FollowerKnows
      <3>3. Len(file.events) <= Len(file'.events) /\ (file.damaged => file'.damaged)
        BY <1>1, <2>2, <2>3
      <3>4. FollowerOk(follower[x], file')
        BY <1>1, <2>3, <3>2, <3>3, FollowersStay
      <3> QED
        BY <2>6, <3>1, <3>4
    <2> QED
      BY <2>7, <2>8, <2>9, <2>10, <2>11 DEF TranscriptInv
  <1> QED
    BY <1>3, <1>4
LEMMA ShowPageStep ==
  ASSUME TranscriptInv, NEW r \in Readers, ShowPage(r) PROVE TranscriptInv'
  <1>1. /\ follower[r] \in Followers /\ FollowerOk(follower[r], file)
        /\ file \in Files /\ FileOk(file, disturbed) /\ Len(file.events) \in Nat
    BY FollowerKnows
  <1>2. follower[r].pc = "reading" /\ UNCHANGED <<file, writer, turnState, disturbed>>
    BY DEF ShowPage
  <1>3. CASE ~Parsable
    <2>1. follower' = [follower EXCEPT ![r].pc = "error"]
      BY <1>3 DEF ShowPage, Fails1
    <2> QED
      BY <1>2, <2>1, FollowerMoves
  <1>4. CASE Parsable
    <2> DEFINE page == Page(follower[r].cursor)
               start == follower[r].start
               shown == follower[r].shown
               cursor == follower[r].cursor
    <2>1. PICK n \in 1..Len(page) :
              follower' = [follower EXCEPT ![r].shown = shown \o SubSeq(page, 1, n),
                              ![r].cursor = page[n], ![r].finished = FALSE,
                              ![r].pc = IF n = Len(page) THEN follower[r].pc ELSE "cut"]
      BY <1>4 DEF ShowPage
    <2>t. start \in Nat /\ cursor \in Nat /\ shown \in Seq(Nat) /\ Len(shown) \in Nat
      BY <1>1 DEF Followers
    <2>2. PICK m \in Nat : m = Len(file.events)
      BY <1>1
    <2>3. file.events = Run(0, m) /\ ~file.damaged
      BY <1>1, <1>4, <2>2 DEF Parsable, FileOk
    <2>4. /\ cursor = start + Len(shown) /\ cursor \in 0..m
          /\ shown = Run(start, Len(shown)) /\ follower[r].end <= m
      BY <1>1, <2>2, <2>3, <2>t DEF FollowerOk
    <2>5. page = Run(cursor, m - cursor)
      BY <2>3, <2>4, PageOfRun
    <2>6. PICK l \in Nat : l = m - cursor
      BY <2>4, <2>2
    <2>7. n \in 1..l /\ page[n] = cursor + n
      <3>1. Len(Run(cursor, l)) = l
        BY <2>t, RunIsSeq
      <3> QED
        BY <2>1, <2>5, <2>6, <3>1 DEF Run
    <2>8. shown \o SubSeq(page, 1, n) = Run(start, Len(shown) + n)
      <3> DEFINE k == Len(shown)
      <3>1. k \in Nat
        BY <2>t
      <3>2. shown = Run(start, k) /\ page = Run(start + k, l)
        BY <2>4, <2>5, <2>6
      <3> HIDE DEF k, page, start, shown
      <3>3. Run(start, k) \o SubSeq(Run(start + k, l), 1, n) = Run(start, k + n)
        BY ZenonT(30), <2>t, <2>7, <3>1, RunConcat
      <3> QED
        BY <3>2, <3>3 DEF k
    <2>9. PICK v \in Followers :
              /\ follower' = [follower EXCEPT ![r] = v] /\ v.pc \in {"reading", "cut"}
              /\ v.start = start /\ v.cursor = cursor + n
              /\ v.shown = Run(start, Len(shown) + n) /\ v.end = follower[r].end
      <3> DEFINE pc == IF n = Len(page) THEN follower[r].pc ELSE "cut"
                 v == [follower[r] EXCEPT !.shown = Run(start, Len(shown) + n),
                           !.cursor = cursor + n, !.finished = FALSE, !.pc = pc]
      <3>1. pc \in {"reading", "cut"}
        BY <1>2
      <3>2. follower' = [follower EXCEPT ![r] = v]
        BY <2>1, <2>7, <2>8
      <3> HIDE DEF pc
      <3>3. cursor + n \in Nat /\ Len(shown) + n \in Nat
        BY <2>t, <2>7
      <3>4. Run(start, Len(shown) + n) \in Seq(Nat)
        BY <2>t, <3>3, RunIsSeq
      <3>5. v \in Followers
        BY <1>1, <3>1, <3>3, <3>4 DEF Followers
      <3>6. /\ v.pc = pc /\ v.start = start /\ v.cursor = cursor + n
            /\ v.shown = Run(start, Len(shown) + n) /\ v.end = follower[r].end
        BY <1>1 DEF Followers
      <3> QED
        BY <3>1, <3>2, <3>5, <3>6
    <2>10. FollowerOk(v, file)
      <3>k. PICK k \in Nat : k = Len(shown) + n
        BY <2>t, <2>7
      <3>1. Len(v.shown) = Len(shown) + n
        <4>1. v.shown = Run(start, k)
          BY <2>9, <3>k
        <4>2. Len(Run(start, k)) = k
          BY <2>t, RunIsSeq
        <4> QED
          BY <3>k, <4>1, <4>2
      <3> HIDE DEF page, start, shown, cursor
      <3>2. v.cursor = v.start + Len(v.shown)
        <4>1. v.cursor = cursor + n /\ v.start = start
          BY <2>9
        <4>2. PICK i \in Nat : i = Len(shown)
          BY <2>t
        <4>3. cursor = start + i /\ start \in Nat /\ n \in Nat
          BY <2>4, <2>t, <2>7, <4>2
        <4>4. cursor + n = start + (i + n)
          BY <4>3
        <4> QED
          BY <3>1, <4>1, <4>2, <4>4
      <3>3. v.cursor <= m
        BY <2>9, <2>t, <2>6, <2>7
      <3> QED
        BY <2>9, <2>2, <2>4, <3>1, <3>2, <3>3 DEF FollowerOk
    <2> QED
      BY <1>2, <2>9, <2>10, FollowerActs
  <1> QED
    BY <1>3, <1>4
LEMMA SeeStateStep ==
  ASSUME TranscriptInv, NEW r \in Readers, SeeState(r) PROVE TranscriptInv'
  <1>1. /\ follower[r] \in Followers /\ FollowerOk(follower[r], file)
        /\ file \in Files /\ FileOk(file, disturbed) /\ Len(file.events) \in Nat
    BY FollowerKnows
  <1>2. follower[r].pc = "looked" /\ UNCHANGED <<file, writer, turnState, disturbed>>
    BY DEF SeeState
  <1>3. CASE turnState[1] # "finished"
    <2>1. follower' = [follower EXCEPT ![r].pc = "reading"]
      BY <1>3 DEF SeeState
    <2> QED
      BY <1>2, <2>1, FollowerMoves
  <1>4. CASE turnState[1] = "finished"
    <2> DEFINE v == [follower[r] EXCEPT !.pc = "reading", !.finished = TRUE, !.end = LastIndex]
    <2>1. follower' = [follower EXCEPT ![r] = v]
      BY <1>4 DEF SeeState
    <2>2. LastIndex \in Nat
      <3>1. file.events \in Seq(Nat)
        BY <1>1 DEF Files
      <3> QED
        BY <1>1, <3>1 DEF LastIndex, Count
    <2>3. ~file.damaged => LastIndex = Len(file.events)
      BY <1>1, LastOfRun DEF FileOk
    <2>4. v \in Followers
      BY <1>1, <2>2 DEF Followers
    <2>5. /\ v.pc = "reading" /\ v.start = follower[r].start
          /\ v.cursor = follower[r].cursor /\ v.shown = follower[r].shown
          /\ v.end = LastIndex
      BY <1>1 DEF Followers
    <2> HIDE DEF v
    <2>6. FollowerOk(v, file)
      BY <1>1, <2>3, <2>5 DEF FollowerOk
    <2> QED
      BY <1>2, <2>1, <2>4, <2>6, FollowerActs
  <1> QED
    BY <1>3, <1>4
LEMMA EndFollowStep ==
  ASSUME TranscriptInv, NEW r \in Readers, EndFollow(r) PROVE TranscriptInv'
  <1>1. /\ follower[r] \in Followers /\ FollowerOk(follower[r], file)
        /\ file \in Files /\ FileOk(file, disturbed) /\ Len(file.events) \in Nat
    BY FollowerKnows
  <1> DEFINE v == [follower[r] EXCEPT !.pc = "ended"]
             cursor == follower[r].cursor
  <1>2. /\ follower' = [follower EXCEPT ![r] = v] /\ Parsable /\ Page(cursor) = <<>>
        /\ UNCHANGED <<file, writer, turnState, disturbed>>
    BY DEF EndFollow, Remainder
  <1>3. /\ v \in Followers /\ v.pc = "ended" /\ v.start = follower[r].start
        /\ v.cursor = cursor /\ v.shown = follower[r].shown
        /\ v.end = follower[r].end /\ cursor \in Nat /\ v.end \in Nat
    BY <1>1 DEF Followers
  <1>4. PICK m \in Nat : m = Len(file.events)
    BY <1>1
  <1>5. file.events = Run(0, m) /\ cursor \in 0..m /\ v.end <= m
    BY <1>1, <1>2, <1>3, <1>4 DEF Parsable, FileOk, FollowerOk
  <1> HIDE DEF v, cursor
  <1>6. cursor = m
    <2>1. PICK l \in Nat : l = m - cursor
      BY <1>4, <1>5
    <2>2. Run(cursor, l) = <<>>
      BY <1>2, <1>5, <2>1, PageOfRun
    <2>3. Len(Run(cursor, l)) = l
      BY <1>3, RunIsSeq
    <2>4. l = 0
      BY <2>2, <2>3
    <2> QED
      BY <1>3, <1>4, <2>1, <2>4
  <1>7. FollowerOk(v, file)
    BY <1>1, <1>3, <1>5, <1>6 DEF FollowerOk, cursor
  <1> QED
    BY <1>2, <1>3, <1>7, FollowerActs

LEMMA TranscriptStep ==
  ASSUME TranscriptInv, [TranscriptNext]_tvars PROVE TranscriptInv'
  <1>1. ASSUME NEW w \in Hosts,
               \/ CreateFile(w) \/ WriteHeader(w) \/ Host(w) \/ AppendEvent(w)
               \/ AppendFails(w) \/ BeginWrite(w) \/ EndWrite(w) \/ ReadOwn(w)
               \/ Finalize1(w) \/ KillHost(w)
        PROVE  TranscriptInv'
    BY <1>1, CreateFileStep, WriteHeaderStep, HostStep, AppendEventStep, AppendFailsStep,
       BeginWriteStep, EndWriteStep, ReadOwnStep, FinalizeStep, KillHostStep
  <1>2. ASSUME PersistUnknown1 PROVE TranscriptInv'
    BY <1>2, PersistStep
  <1>3. ASSUME NEW r \in Readers, OpenLog(r) \/ ShowPage(r) \/ SeeState(r) \/ EndFollow(r)
        PROVE  TranscriptInv'
    BY <1>3, OpenLogStep, ShowPageStep, SeeStateStep, EndFollowStep
  <1>4. ASSUME NEW r \in Readers, LookAtState(r) PROVE TranscriptInv'
    <2>1. /\ follower' = [follower EXCEPT ![r].pc = "looked"]
          /\ UNCHANGED <<file, writer, turnState, disturbed>>
      BY <1>4 DEF LookAtState
    <2> QED
      BY <2>1, FollowerMoves
  <1>5. ASSUME NEW r \in Readers, TimeOut1(r) PROVE TranscriptInv'
    <2>1. /\ follower' = [follower EXCEPT ![r].pc = "cut"]
          /\ UNCHANGED <<file, writer, turnState, disturbed>>
      BY <1>5 DEF TimeOut1
    <2> QED
      BY <2>1, FollowerMoves
  <1>6. CASE UNCHANGED tvars
    BY <1>6 DEF tvars, TranscriptInv, TranscriptTypes, OneWriter
  <1> QED
    BY <1>1, <1>2, <1>3, <1>4, <1>5, <1>6 DEF TranscriptNext

\* The transcript stays readable: for any number of hosts, readers and events,
\* only a write that failed under a host that went on, or that a reader cut in
\* two, damages it, and its events are numbered without a gap.
THEOREM TranscriptsStayReadable == TranscriptSpec => []StaysReadable
  <1>1. TranscriptInv => StaysReadable
    <2> SUFFICES ASSUME TranscriptInv PROVE StaysReadable
      OBVIOUS
    <2>1. FileOk(file, disturbed) /\ Len(file.events) \in Nat
      BY DEF TranscriptInv, TranscriptTypes, Files
    <2>2. PICK n \in Nat : n = Len(file.events)
      BY <2>1
    <2>3. Run(0, n) = [i \in 1..n |-> i]
      BY DEF Run
    <2> QED
      BY <2>1, <2>2, <2>3 DEF FileOk, StaysReadable
  <1> QED
    BY <1>1, TranscriptBegins, TranscriptStep, PTL DEF TranscriptSpec
\* A follower shows every event once and in order, and has shown all there was
\* when the session had finished before it ends.
THEOREM FollowsAreComplete == TranscriptSpec => []FollowComplete
  <1>1. TranscriptInv => FollowComplete
    BY DEF TranscriptInv, FollowerOk, FollowComplete, Run
  <1> QED
    BY <1>1, TranscriptBegins, TranscriptStep, PTL DEF TranscriptSpec

----------------------------------------------------------------------------
(* Answer.                                                                  *)

Types == {"msg", "thought", "usage", "external", "tool", "permission"}
Events == [type : Types, parts : Seq(Nat)]
Tellings == [text : Seq(Nat), broken : BOOLEAN]
AnswerTypes ==
    /\ answer \in Seq(Nat) /\ told \in Seq(Events)
    /\ pending \in [type : {"none", "msg", "thought"}, parts : Seq(Nat)]
    /\ boundary \in [answer : BOOLEAN, transcript : BOOLEAN]
    /\ consulted \in [asking : BOOLEAN, spoken : BOOLEAN]

\* The transcript, with what is pending, tells the answer, and each boundary
\* behind its last text once: by an event that breaks the text, or by the
\* separator the next text is going to bring.  While a person is asked, the
\* event that will say so is still missing.
Tells(telling) ==
    ~consulted.spoken =>
        /\ telling.text = answer
        /\ boundary.transcript => boundary.answer /\ ~telling.broken
        /\ ~boundary.answer => ~telling.broken
        /\ boundary.answer /\ ~boundary.transcript /\ ~consulted.asking => telling.broken
        /\ consulted.asking =>
              pending.type # "msg" /\ boundary.answer /\ ~boundary.transcript
Now == Retold(Flushed)
AnswerInv == AnswerTypes /\ Tells(Now)

\* The function Retold is defined by, for one sequence of events.
Nothing == [text |-> <<>>, broken |-> FALSE]
RetellingOf(f, events) ==
    f = [n \in 0..Len(events) |-> IF n = 0 THEN Nothing ELSE Joined(f[n - 1], events[n])]

LEMMA RetellingExtends ==
  ASSUME NEW events \in Seq(Events), NEW e \in Events, NEW f, RetellingOf(f, events)
  PROVE  \E g : /\ RetellingOf(g, Append(events, e))
                /\ g[Len(events) + 1] = Joined(f[Len(events)], e)
  <1>1. PICK l \in Nat : l = Len(events)
    OBVIOUS
  <1> DEFINE more == Append(events, e)
             g == [n \in 0..(l + 1) |-> IF n <= l THEN f[n] ELSE Joined(f[l], e)]
  <1>2. /\ Len(more) = l + 1 /\ more[l + 1] = e
        /\ \A n \in 1..l : more[n] = events[n]
    BY <1>1
  <1>3. /\ f[0] = Nothing
        /\ \A n \in 1..l : f[n] = Joined(f[n - 1], events[n])
    BY <1>1 DEF RetellingOf
  <1> HIDE DEF more
  <1>4. ASSUME NEW n \in 0..(l + 1)
        PROVE  g[n] = IF n = 0 THEN Nothing ELSE Joined(g[n - 1], more[n])
    <2>1. CASE n = 0
      BY <1>3, <2>1
    <2>2. CASE n \in 1..l
      <3>1. g[n] = f[n] /\ g[n - 1] = f[n - 1] /\ n # 0
        BY <2>2
      <3> QED
        BY <1>2, <1>3, <2>2, <3>1
    <2>3. CASE n = l + 1
      <3>1. g[n] = Joined(f[l], e) /\ g[n - 1] = f[l] /\ n # 0
        BY <2>3
      <3> QED
        BY <1>2, <2>3, <3>1
    <2>4. n = 0 \/ n \in 1..l \/ n = l + 1
      OBVIOUS
    <2> QED
      BY <2>1, <2>2, <2>3, <2>4
  <1>5. RetellingOf(g, more)
    <2>1. g = [n \in 0..(l + 1) |-> g[n]]
      OBVIOUS
    <2> HIDE DEF g
    <2> QED
      BY <1>2, <1>4, <2>1 DEF RetellingOf
  <1>6. g[l + 1] = Joined(f[l], e)
    OBVIOUS
  <1> HIDE DEF g
  <1> QED
    BY <1>1, <1>5, <1>6 DEF more

\* Every sequence of events has one: a shortest that had none could not be
\* empty, and is one event longer than one that has.
LEMMA RetellingExists ==
  ASSUME NEW events \in Seq(Events) PROVE \E f : RetellingOf(f, events)
  <1> DEFINE T == {n \in Nat : \E s \in Seq(Events) :
                                  Len(s) = n /\ ~\E f : RetellingOf(f, s)}
  <1>1. SUFFICES ASSUME T # {} PROVE FALSE
    <2>1. Len(events) \in Nat
      OBVIOUS
    <2> QED
      BY <2>1
  <1>2. PICK l \in T : \A n \in T : l <= n
    <2>1. T \in SUBSET Nat
      OBVIOUS
    <2> HIDE DEF T
    <2> QED
      BY <1>1, <2>1, LeastNumber
  <1>3. PICK s \in Seq(Events) : Len(s) = l /\ ~\E f : RetellingOf(f, s)
    BY <1>2
  <1>4. CASE l = 0
    <2> DEFINE f == [n \in 0..0 |-> Nothing]
    <2>1. f = [n \in 0..Len(s) |-> IF n = 0 THEN Nothing ELSE Joined(f[n - 1], s[n])]
      BY <1>3, <1>4
    <2> HIDE DEF f
    <2> QED
      BY <1>3, <2>1 DEF RetellingOf
  <1>5. CASE l # 0
    <2>1. l \in Nat /\ l - 1 \in Nat /\ l \in 1..l /\ ~(l <= l - 1)
      BY <1>5
    <2> DEFINE before == SubSeq(s, 1, l - 1)
               e == s[l]
    <2>2. /\ before \in Seq(Events) /\ Len(before) = l - 1 /\ e \in Events
          /\ s = Append(before, e)
      BY <1>3, <2>1
    <2> HIDE DEF before, e
    <2>3. l - 1 \notin T
      BY <1>2, <2>1
    <2>4. PICK f : RetellingOf(f, before)
      BY <2>1, <2>2, <2>3
    <2>5. \E g : RetellingOf(g, s)
      BY <2>2, <2>4, RetellingExtends
    <2> QED
      BY <1>3, <2>5
  <1> QED
    BY <1>4, <1>5

\* There is only one, and it ends in what Retold says.
LEMMA RetellingUnique ==
  ASSUME NEW events \in Seq(Events), NEW f, NEW g,
         RetellingOf(f, events), RetellingOf(g, events)
  PROVE  f[Len(events)] = g[Len(events)]
  <1>1. PICK l \in Nat : l = Len(events)
    OBVIOUS
  <1> DEFINE T == {n \in 0..l : f[n] # g[n]}
  <1>2. \A n \in 0..l : /\ f[n] = IF n = 0 THEN Nothing ELSE Joined(f[n - 1], events[n])
                        /\ g[n] = IF n = 0 THEN Nothing ELSE Joined(g[n - 1], events[n])
    BY <1>1 DEF RetellingOf
  <1>3. SUFFICES ASSUME T # {} PROVE FALSE
    BY <1>1
  <1>4. PICK n \in T : \A m \in T : n <= m
    <2>1. T \in SUBSET Nat
      OBVIOUS
    <2> HIDE DEF T
    <2> QED
      BY <1>3, <2>1, LeastNumber
  <1>5. n \in 0..l /\ f[n] # g[n]
    OBVIOUS
  <1>6. n # 0 => f[n - 1] = g[n - 1]
    <2> SUFFICES ASSUME n # 0, f[n - 1] # g[n - 1] PROVE FALSE
      OBVIOUS
    <2>1. n - 1 \in 0..l /\ ~(n <= n - 1)
      BY <1>5
    <2> QED
      BY <1>4, <2>1
  <1> QED
    BY <1>2, <1>5, <1>6
LEMMA RetoldIs ==
  ASSUME NEW events \in Seq(Events), NEW f, RetellingOf(f, events)
  PROVE  Retold(events) = f[Len(events)]
  <1> DEFINE g == CHOOSE h : RetellingOf(h, events)
  <1>1. Retold(events) = g[Len(events)]
    BY DEF Retold, RetellingOf, Nothing
  <1>2. RetellingOf(g, events)
    OBVIOUS
  <1> HIDE DEF g
  <1> QED
    BY <1>1, <1>2, RetellingUnique

\* So Retold goes through the events one by one.
LEMMA RetoldEmpty == Retold(<<>>) = Nothing
  <1>1. <<>> \in Seq(Events) /\ Len(<<>>) = 0
    OBVIOUS
  <1>2. PICK f : RetellingOf(f, <<>>)
    BY <1>1, RetellingExists
  <1>3. f[0] = Nothing
    BY <1>1, <1>2 DEF RetellingOf
  <1> QED
    BY <1>1, <1>2, <1>3, RetoldIs
LEMMA RetoldAppend ==
  ASSUME NEW events \in Seq(Events), NEW e \in Events
  PROVE  Retold(Append(events, e)) = Joined(Retold(events), e)
  <1>1. PICK f : RetellingOf(f, events)
    BY RetellingExists
  <1>2. PICK g : /\ RetellingOf(g, Append(events, e))
                 /\ g[Len(events) + 1] = Joined(f[Len(events)], e)
    BY <1>1, RetellingExtends
  <1>3. Append(events, e) \in Seq(Events) /\ Len(Append(events, e)) = Len(events) + 1
    OBVIOUS
  <1>4. Retold(Append(events, e)) = g[Len(events) + 1]
    BY <1>2, <1>3, RetoldIs
  <1> QED
    BY <1>1, <1>2, <1>4, RetoldIs

\* What is retold of one more event.
LEMMA JoinedType ==
  ASSUME NEW t \in Tellings, NEW e \in Events
  PROVE  Joined(t, e) \in Tellings
  <1>1. t.text \in Seq(Nat) /\ t.broken \in BOOLEAN /\ e.parts \in Seq(Nat)
    BY DEF Tellings, Events
  <1>2. CASE e.type = "msg"
    <2> DEFINE sep == IF t.broken /\ t.text # <<>> THEN <<Separator>> ELSE <<>>
    <2>1. sep \in Seq(Nat)
      BY DEF Separator
    <2>2. Joined(t, e) = [text |-> t.text \o sep \o e.parts, broken |-> FALSE]
      BY <1>2 DEF Joined
    <2> HIDE DEF sep
    <2>3. t.text \o sep \in Seq(Nat)
      BY <1>1, <2>1
    <2>4. (t.text \o sep) \o e.parts \in Seq(Nat)
      BY <1>1, <2>3
    <2> QED
      BY <2>2, <2>4 DEF Tellings
  <1>3. CASE e.type # "msg"
    BY <1>1, <1>3 DEF Joined, Tellings
  <1> QED
    BY <1>2, <1>3
LEMMA RetoldType ==
  ASSUME NEW events \in Seq(Events) PROVE Retold(events) \in Tellings
  <1>1. PICK f : RetellingOf(f, events)
    BY RetellingExists
  <1>2. PICK l \in Nat : l = Len(events)
    OBVIOUS
  <1> DEFINE T == {n \in 0..l : f[n] \notin Tellings}
  <1>3. \A n \in 0..l : f[n] = IF n = 0 THEN Nothing ELSE Joined(f[n - 1], events[n])
    BY <1>1, <1>2 DEF RetellingOf
  <1>4. T = {}
    <2> SUFFICES ASSUME T # {} PROVE FALSE
      OBVIOUS
    <2>1. PICK n \in T : \A m \in T : n <= m
      <3>1. T \in SUBSET Nat
        OBVIOUS
      <3> HIDE DEF T
      <3> QED
        BY <3>1, LeastNumber
    <2>2. n \in 0..l /\ f[n] \notin Tellings
      OBVIOUS
    <2>3. CASE n = 0
      <3>1. Nothing \in Tellings
        BY DEF Nothing, Tellings
      <3> QED
        BY <1>3, <2>2, <2>3, <3>1
    <2>4. CASE n # 0
      <3>1. n - 1 \in 0..l /\ ~(n <= n - 1) /\ n \in 1..l
        BY <2>2, <2>4
      <3>2. f[n - 1] \in Tellings
        BY <2>1, <3>1
      <3>3. events[n] \in Events
        BY <1>2, <3>1
      <3>4. f[n] = Joined(f[n - 1], events[n])
        BY <1>3, <2>2, <2>4
      <3> QED
        BY <2>2, <3>2, <3>3, <3>4, JoinedType
    <2> QED
      BY <2>3, <2>4
  <1>5. f[l] \in Tellings
    BY <1>4
  <1> QED
    BY <1>1, <1>2, <1>5, RetoldIs


\* What is retold before and after a step.
LEMMA FlushedType ==
  ASSUME AnswerTypes PROVE Flushed \in Seq(Events) /\ Now \in Tellings
  <1>1. told \in Seq(Events)
    BY DEF AnswerTypes
  <1>2. pending.type # "none" => pending \in Events
    BY DEF AnswerTypes, Events, Types
  <1>3. Flushed \in Seq(Events)
    BY <1>1, <1>2 DEF Flushed
  <1> QED
    BY <1>3, RetoldType DEF Now
LEMMA Telling ==
  ASSUME AnswerTypes, NEW e \in Events, told' = Append(Flushed, e), pending' = NothingPending
  PROVE  Now' = Joined(Now, e) /\ told' \in Seq(Events)
  <1>1. Flushed \in Seq(Events)
    BY FlushedType
  <1>2. Flushed' = told'
    BY DEF Flushed, NothingPending
  <1>3. Retold(Append(Flushed, e)) = Joined(Retold(Flushed), e)
    BY <1>1, RetoldAppend
  <1> QED
    BY <1>1, <1>2, <1>3 DEF Now
LEMMA Flushing ==
  ASSUME AnswerTypes, told' = Flushed, pending' = NothingPending
  PROVE  Now' = Now /\ told' \in Seq(Events)
  <1>1. Flushed' = told'
    BY DEF Flushed, NothingPending
  <1> QED
    BY <1>1, FlushedType DEF Now
LEMMA NothingPendingType ==
  NothingPending \in [type : {"none", "msg", "thought"}, parts : Seq(Nat)]
  BY DEF NothingPending
LEMMA Buffering ==
  ASSUME AnswerTypes, NEW type \in {"msg", "thought"}, NEW parts \in Seq(Nat),
         Buffer(type, parts)
  PROVE  /\ told' \in Seq(Events)
         /\ pending' \in [type : {"none", "msg", "thought"}, parts : Seq(Nat)]
         /\ \/ Now' = Joined(Now, [type |-> type, parts |-> parts])
            \/ /\ pending.type = type /\ told \in Seq(Events) /\ pending.parts \in Seq(Nat)
               /\ Now = Joined(Retold(told), [type |-> type, parts |-> pending.parts])
               /\ Now' = Joined(Retold(told), [type |-> type, parts |-> pending.parts \o parts])
  <1> DEFINE e == [type |-> type, parts |-> parts]
  <1>e. e \in Events
    BY DEF Events, Types
  <1>f. Flushed \in Seq(Events) /\ told \in Seq(Events)
    BY FlushedType DEF AnswerTypes
  <1>p. pending \in [type : {"none", "msg", "thought"}, parts : Seq(Nat)]
    BY DEF AnswerTypes
  <1>1. CASE pending.type = type /\ pending' = [pending EXCEPT !.parts = pending.parts \o parts]
             /\ told' = told
    <2>1. pending = [type |-> type, parts |-> pending.parts] /\ pending.parts \in Seq(Nat)
      BY <1>1, <1>p
    <2>2. pending' = [type |-> type, parts |-> pending.parts \o parts]
      BY <1>1, <1>p
    <2>3. pending.parts \o parts \in Seq(Nat)
      BY <2>1
    <2>4. pending \in Events /\ pending' \in Events
      BY <2>1, <2>2, <2>3 DEF Events, Types
    <2>5. Flushed = Append(told, pending) /\ Flushed' = Append(told, pending')
      BY <1>1, <2>1, <2>2 DEF Flushed
    <2>6. Now = Joined(Retold(told), pending) /\ Now' = Joined(Retold(told), pending')
      BY <1>f, <2>4, <2>5, RetoldAppend DEF Now
    <2>7. pending' \in [type : {"none", "msg", "thought"}, parts : Seq(Nat)]
      BY <2>2, <2>3
    <2> QED
      BY <1>1, <1>f, <2>1, <2>2, <2>6, <2>7
  <1>2. CASE told' = Flushed /\ pending' = e
    <2>1. Flushed' = Append(Flushed, e)
      BY <1>2 DEF Flushed
    <2>2. Now' = Joined(Now, e)
      BY <1>e, <1>f, <2>1, RetoldAppend DEF Now
    <2> QED
      BY <1>2, <1>f, <2>2
  <1>3. CASE told' = Append(Flushed, e) /\ pending' = NothingPending
    BY <1>3, <1>e, Telling, NothingPendingType
  <1> QED
    BY <1>1, <1>2, <1>3 DEF Buffer

LEMMA Regrouped ==
  ASSUME NEW s \in Seq(Nat), NEW u \in Seq(Nat), NEW v \in Seq(Nat)
  PROVE  (s \o u) \o v = s \o (u \o v)
  BY SMTT(30), ConcatAssociative

\* A text that is buffered goes on the text, in a new paragraph after a break.
LEMMA BufferedText ==
  ASSUME AnswerTypes, NEW parts \in Seq(Nat), Buffer("msg", parts)
  PROVE  /\ ~Now'.broken
         /\ Now.broken /\ Now.text # <<>> => Now'.text = (Now.text \o <<Separator>>) \o parts
         /\ ~(Now.broken /\ Now.text # <<>>) => Now'.text = Now.text \o parts
  <1>n. Now \in Tellings /\ Now.text \in Seq(Nat)
    BY FlushedType DEF Tellings
  <1>1. CASE Now' = Joined(Now, [type |-> "msg", parts |-> parts])
    <2>1. /\ Now'.broken = FALSE
          /\ Now'.text = (Now.text \o (IF Now.broken /\ Now.text # <<>>
                                        THEN <<Separator>> ELSE <<>>)) \o parts
      BY <1>1 DEF Joined
    <2>2. Now.text \o <<>> = Now.text
      BY <1>n, ConcatEmptySeq
    <2> QED
      BY <2>1, <2>2
  <1>2. CASE /\ told \in Seq(Events) /\ pending.parts \in Seq(Nat)
             /\ Now = Joined(Retold(told), [type |-> "msg", parts |-> pending.parts])
             /\ Now' = Joined(Retold(told), [type |-> "msg", parts |-> pending.parts \o parts])
    <2> DEFINE t == Retold(told)
               sep == IF t.broken /\ t.text # <<>> THEN <<Separator>> ELSE <<>>
               p == pending.parts
    <2>1. /\ Now.broken = FALSE /\ Now'.broken = FALSE
          /\ Now.text = (t.text \o sep) \o p /\ Now'.text = (t.text \o sep) \o (p \o parts)
      BY <1>2 DEF Joined
    <2>2. t.text \in Seq(Nat)
      BY <1>2, RetoldType DEF Tellings
    <2>3. sep \in Seq(Nat)
      BY DEF Separator
    <2> HIDE DEF t, sep
    <2>4. t.text \o sep \in Seq(Nat)
      BY <2>2, <2>3
    <2>5. ((t.text \o sep) \o p) \o parts = (t.text \o sep) \o (p \o parts)
      <3> DEFINE a == t.text \o sep
      <3>1. a \in Seq(Nat) /\ p \in Seq(Nat)
        BY <1>2, <2>4
      <3> HIDE DEF a, p
      <3>2. (a \o p) \o parts = a \o (p \o parts)
        BY <3>1, Regrouped
      <3> QED
        BY <3>2 DEF a
    <2> QED
      BY <2>1, <2>5
  <1> QED
    BY <1>1, <1>2, Buffering
\* A thought leaves the text and breaks it.
LEMMA BufferedThought ==
  ASSUME AnswerTypes, Buffer("thought", <<>>)
  PROVE  Now'.broken /\ Now'.text = Now.text
  <1>1. <<>> \in Seq(Nat)
    OBVIOUS
  <1>2. CASE Now' = Joined(Now, [type |-> "thought", parts |-> <<>>])
    BY <1>2 DEF Joined, Breaks
  <1>3. CASE /\ Now = Joined(Retold(told), [type |-> "thought", parts |-> pending.parts])
             /\ Now' = Joined(Retold(told), [type |-> "thought", parts |-> pending.parts \o <<>>])
    BY <1>3 DEF Joined, Breaks
  <1> QED
    BY <1>1, <1>2, <1>3, Buffering
\* Another event leaves the text.
LEMMA JoinedEvent ==
  ASSUME NEW t \in Tellings, NEW e, e.type # "msg"
  PROVE  /\ Joined(t, e).text = t.text
         /\ Joined(t, e).broken = (t.broken \/ e.type \in Breaks)
  BY DEF Joined
LEMMA EventType ==
  ASSUME NEW type \in Types PROVE Event(type) \in Events /\ Event(type).type = type
  BY DEF Event, Events

LEMMA AnswerBegins == AnswerInit => AnswerInv
  <1> SUFFICES ASSUME AnswerInit PROVE AnswerInv
    OBVIOUS
  <1>1. AnswerTypes
    BY NothingPendingType DEF AnswerInit, AnswerTypes
  <1>2. Flushed = <<>>
    BY DEF AnswerInit, Flushed, NothingPending
  <1>3. Now = Nothing
    BY <1>2, RetoldEmpty DEF Now
  <1>4. Tells(Nothing)
    BY DEF Tells, Nothing, AnswerInit
  <1> QED
    BY <1>1, <1>3, <1>4 DEF AnswerInv

\* A step that marks a boundary and has the event for it written.
LEMMA Breaking ==
  ASSUME AnswerInv, Now'.broken, Now'.text = Now.text, boundary' = Marked(TRUE),
         answer' = answer, consulted' = consulted, pending'.type # "msg"
  PROVE  Tells(Now)'
  BY DEF AnswerInv, Tells, Now, Marked
\* A step that marks one without: the next text brings the separator, unless
\* an event told of the boundary before.
LEMMA Marking ==
  ASSUME AnswerInv, Now' = Now, boundary' = Marked(FALSE),
         answer' = answer, consulted' = consulted, pending'.type # "msg" \/ pending' = pending
  PROVE  Tells(Now)'
  BY DEF AnswerInv, AnswerTypes, Tells, Now, Marked

LEMMA MarkedType ==
  ASSUME AnswerTypes, NEW recorded1 \in BOOLEAN
  PROVE  Marked(recorded1) \in [answer : BOOLEAN, transcript : BOOLEAN]
  BY DEF AnswerTypes, Marked

\* A boundary that no event tells of, with nothing else.
LEMMA MarkedOnly ==
  ASSUME AnswerInv, boundary' = Marked(FALSE), told' = told, pending' = pending,
         answer' = answer, consulted' = consulted
  PROVE  AnswerInv'
  <1>1. AnswerTypes' /\ Now' = Now
    BY MarkedType DEF AnswerInv, AnswerTypes, Now, Flushed
  <1> QED
    BY <1>1, Marking DEF AnswerInv
\* An event that breaks the text.
LEMMA EventTold ==
  ASSUME AnswerInv, NEW type \in Types \cap Breaks,
         told' = Append(Flushed, Event(type)), pending' = NothingPending,
         boundary' = Marked(TRUE), answer' = answer, consulted' = consulted
  PROVE  AnswerInv'
  <1>t. AnswerTypes /\ Now \in Tellings
    BY FlushedType DEF AnswerInv
  <1>1. Event(type) \in Events /\ Event(type).type = type /\ type # "msg"
    BY EventType DEF Breaks
  <1>2. Now' = Joined(Now, Event(type)) /\ told' \in Seq(Events)
    BY <1>1, <1>t, Telling
  <1>3. Now'.text = Now.text /\ Now'.broken
    <2> DEFINE e == Event(type)
    <2>1. e.type = type /\ e.type # "msg" /\ e.type \in Breaks
      BY <1>1
    <2>2. Now' = Joined(Now, e)
      BY <1>2
    <2> HIDE DEF e
    <2> QED
      BY <1>t, <2>1, <2>2, JoinedEvent
  <1>4. AnswerTypes'
    BY <1>2, <1>t, MarkedType, NothingPendingType DEF AnswerTypes
  <1>5. pending'.type # "msg"
    BY DEF NothingPending
  <1> QED
    BY <1>3, <1>4, <1>5, Breaking DEF AnswerInv

LEMMA TextsType == ASSUME AnswerTypes PROVE Texts \in Nat
  <1>1. Len(answer) \in Nat
    BY DEF AnswerTypes
  <1>2. IsFiniteSet(1..Len(answer))
    BY <1>1, FS_Interval
  <1>3. IsFiniteSet({i \in 1..Len(answer) : answer[i] # Separator})
    BY <1>2, FS_Subset
  <1> QED
    BY <1>3, FS_CardinalityType DEF Texts

\* The steps of one turn.
LEMMA MessageStep ==
  ASSUME AnswerInv, Message PROVE AnswerInv'
  <1>t. AnswerTypes
    BY DEF AnswerInv
  <1> DEFINE text == <<Texts + 1>>
             separated == boundary.answer /\ answer # <<>>
             parts == IF separated THEN <<Separator>> \o text ELSE text
             given == IF boundary.transcript THEN parts ELSE text
  <1>1. /\ answer' = answer \o parts /\ Buffer("msg", given)
        /\ boundary' = [answer |-> FALSE, transcript |-> FALSE]
        /\ consulted' = [consulted EXCEPT !.spoken = @ \/ consulted.asking]
    BY DEF Message
  <1>2. text \in Seq(Nat) /\ <<Separator>> \in Seq(Nat)
    <2>1. Texts \in Nat
      BY <1>t, TextsType
    <2> QED
      BY <2>1 DEF Separator
  <1> HIDE DEF text
  <1>3. parts \in Seq(Nat) /\ given \in Seq(Nat) /\ answer \in Seq(Nat)
    BY <1>2, <1>t DEF AnswerTypes
  <1>4. AnswerTypes'
    <2>1. answer' \in Seq(Nat)
      BY <1>1, <1>3
    <2>2. /\ told' \in Seq(Events)
          /\ pending' \in [type : {"none", "msg", "thought"}, parts : Seq(Nat)]
      BY <1>1, <1>3, <1>t, Buffering
    <2>3. consulted' \in [asking : BOOLEAN, spoken : BOOLEAN]
      BY <1>1, <1>t DEF AnswerTypes
    <2> HIDE DEF parts, given, separated
    <2> QED
      BY <1>1, <2>1, <2>2, <2>3 DEF AnswerTypes
  <1>5. ASSUME ~consulted'.spoken PROVE ~Now'.broken /\ Now'.text = answer'
    <2>1. ~consulted.spoken /\ ~consulted.asking
      BY <1>1, <1>5, <1>t DEF AnswerTypes
    <2>2. /\ Now.text = answer /\ (boundary.transcript => boundary.answer /\ ~Now.broken)
          /\ (~boundary.answer => ~Now.broken)
          /\ (boundary.answer /\ ~boundary.transcript => Now.broken)
      BY <2>1 DEF AnswerInv, Tells
    <2>3. /\ ~Now'.broken
          /\ Now.broken /\ Now.text # <<>> => Now'.text = (Now.text \o <<Separator>>) \o given
          /\ ~(Now.broken /\ Now.text # <<>>) => Now'.text = Now.text \o given
      BY <1>1, <1>3, <1>t, BufferedText
    <2>4. CASE Now.broken /\ answer # <<>>
      <3>1. given = text /\ parts = <<Separator>> \o text
        BY <2>2, <2>4
      <3>2. (answer \o <<Separator>>) \o text = answer \o (<<Separator>> \o text)
        <4>1. answer \in Seq(Nat) /\ text \in Seq(Nat) /\ <<Separator>> \in Seq(Nat)
          BY <1>2, <1>3 DEF Separator
        <4> QED
          BY <4>1, Regrouped
      <3> QED
        BY <1>1, <2>2, <2>3, <2>4, <3>1, <3>2
    <2>5. CASE ~(Now.broken /\ answer # <<>>)
      <3>1. given = parts
        BY <2>2, <2>5
      <3> QED
        BY <1>1, <2>2, <2>3, <2>5, <3>1
    <2> QED
      BY <2>3, <2>4, <2>5
  <1>6. ~consulted'.spoken => ~consulted'.asking
    BY <1>1, <1>t DEF AnswerTypes
  <1>7. Tells(Now)'
    BY <1>1, <1>5, <1>6 DEF Tells
  <1> QED
    BY <1>4, <1>7 DEF AnswerInv
LEMMA ThoughtStep ==
  ASSUME AnswerInv, Thought PROVE AnswerInv'
  <1>t. AnswerTypes
    BY DEF AnswerInv
  <1>1. answer' = answer /\ consulted' = consulted
    BY DEF Thought
  <1>2. CASE boundary' = Marked(TRUE) /\ Buffer("thought", <<>>)
    <2>1. <<>> \in Seq(Nat)
      OBVIOUS
    <2>2. pending'.type # "msg"
      <3>1. CASE pending.type = "thought" /\ pending' = [pending EXCEPT !.parts = @ \o <<>>]
        BY <1>t, <3>1 DEF AnswerTypes
      <3>2. CASE \/ pending' = [type |-> "thought", parts |-> <<>>]
                 \/ pending' = NothingPending
        BY <3>2 DEF NothingPending
      <3> QED
        BY <1>2, <3>1, <3>2 DEF Buffer
    <2>3. AnswerTypes'
      <3>1. /\ told' \in Seq(Events)
            /\ pending' \in [type : {"none", "msg", "thought"}, parts : Seq(Nat)]
        BY <1>2, <1>t, <2>1, Buffering
      <3> QED
        BY <1>1, <1>2, <1>t, <3>1, MarkedType DEF AnswerTypes
    <2>4. Now'.broken /\ Now'.text = Now.text
      BY <1>2, <1>t, BufferedThought
    <2> QED
      BY <1>1, <1>2, <2>2, <2>3, <2>4, Breaking DEF AnswerInv
  <1>3. CASE boundary' = Marked(FALSE) /\ told' = told /\ pending' = pending
    BY <1>1, <1>3, MarkedOnly
  <1> QED
    BY <1>2, <1>3 DEF Thought
LEMMA UsageReportStep ==
  ASSUME AnswerInv, UsageReport PROVE AnswerInv'
  <1>t. AnswerTypes /\ Now \in Tellings
    BY FlushedType DEF AnswerInv
  <1>1. /\ told' = Append(Flushed, Event("usage")) /\ pending' = NothingPending
        /\ answer' = answer /\ boundary' = boundary /\ consulted' = consulted
    BY DEF UsageReport
  <1>2. Event("usage") \in Events /\ Event("usage").type = "usage"
    BY EventType DEF Types
  <1>3. Now' = Joined(Now, Event("usage")) /\ told' \in Seq(Events)
    BY <1>1, <1>2, <1>t, Telling
  <1>4. Now'.text = Now.text /\ Now'.broken = Now.broken
    <2>1. "usage" \notin Breaks
      BY DEF Breaks
    <2>2. Now'.text = Now.text /\ Now'.broken = (Now.broken \/ "usage" \in Breaks)
      BY <1>2, <1>3, <1>t, JoinedEvent
    <2> QED
      BY <1>t, <2>1, <2>2 DEF Tellings
  <1>5. AnswerTypes'
    BY <1>1, <1>3, <1>t, NothingPendingType DEF AnswerTypes
  <1>6. Tells(Now)'
    BY <1>1, <1>4 DEF AnswerInv, Tells, NothingPending
  <1> QED
    BY <1>5, <1>6 DEF AnswerInv
LEMMA ExternalStep ==
  ASSUME AnswerInv, External PROVE AnswerInv'
  <1>1. "external" \in Types \cap Breaks
    BY DEF Types, Breaks
  <1> QED
    BY <1>1, EventTold DEF External
LEMMA ToolCallStep ==
  ASSUME AnswerInv, NEW t \in Tools, ToolCall(t) PROVE AnswerInv'
  <1>1. answer' = answer /\ consulted' = consulted
    BY DEF ToolCall
  <1>2. CASE FinishTool(t)
    <2>1. "tool" \in Types \cap Breaks
      BY DEF Types, Breaks
    <2> QED
      BY <1>1, <1>2, <2>1, EventTold DEF FinishTool
  <1>3. CASE told' = Flushed /\ pending' = NothingPending /\ boundary' = Marked(FALSE)
    <2>t. AnswerTypes
      BY DEF AnswerInv
    <2>1. Now' = Now /\ told' \in Seq(Events)
      BY <1>3, <2>t, Flushing
    <2>2. AnswerTypes'
      BY <1>1, <1>3, <2>1, <2>t, MarkedType, NothingPendingType DEF AnswerTypes
    <2>3. pending'.type # "msg"
      BY <1>3 DEF NothingPending
    <2> QED
      BY <1>1, <1>3, <2>1, <2>2, <2>3, Marking DEF AnswerInv
  <1> QED
    BY <1>2, <1>3 DEF ToolCall
LEMMA ToolUpdateStep ==
  ASSUME AnswerInv, NEW t \in Tools, ToolUpdate(t) PROVE AnswerInv'
  <1>1. answer' = answer /\ consulted' = consulted
    BY DEF ToolUpdate
  <1>2. CASE FinishTool(t)
    <2>1. "tool" \in Types \cap Breaks
      BY DEF Types, Breaks
    <2> QED
      BY <1>1, <1>2, <2>1, EventTold DEF FinishTool
  <1>3. CASE boundary' = Marked(FALSE) /\ told' = told /\ pending' = pending
    BY <1>1, <1>3, MarkedOnly
  <1> QED
    BY <1>2, <1>3 DEF ToolUpdate
LEMMA AskStep ==
  ASSUME AnswerInv, AskForPermission PROVE AnswerInv'
  <1>t. AnswerTypes
    BY DEF AnswerInv
  <1>1. /\ boundary' = Marked(TRUE) /\ told' = Flushed /\ pending' = NothingPending
        /\ consulted' = [consulted EXCEPT !.asking = TRUE] /\ answer' = answer
    BY DEF AskForPermission
  <1>2. Now' = Now /\ told' \in Seq(Events)
    BY <1>1, <1>t, Flushing
  <1>3. AnswerTypes'
    BY <1>1, <1>2, <1>t, MarkedType, NothingPendingType DEF AnswerTypes
  <1>4. /\ boundary'.answer /\ ~boundary'.transcript /\ consulted'.asking
        /\ consulted'.spoken = consulted.spoken /\ pending'.type # "msg"
    BY <1>1, <1>t DEF Marked, AnswerTypes, NothingPending
  <1>5. Tells(Now)'
    BY <1>1, <1>2, <1>4 DEF AnswerInv, Tells
  <1> QED
    BY <1>3, <1>5 DEF AnswerInv
LEMMA DecideStep ==
  ASSUME AnswerInv, Decide1 PROVE AnswerInv'
  <1>t. AnswerTypes /\ told \in Seq(Events) /\ Retold(told) \in Tellings
    BY RetoldType DEF AnswerInv, AnswerTypes
  <1>1. /\ consulted.asking /\ told' = Append(told, Event("permission")) /\ answer' = answer
        /\ consulted' = [consulted EXCEPT !.asking = FALSE]
        /\ pending' = pending /\ boundary' = boundary
    BY DEF Decide1
  <1>2. Event("permission") \in Events /\ Event("permission").type = "permission"
    BY EventType DEF Types
  <1>3. told' \in Seq(Events)
    BY <1>1, <1>2, <1>t
  <1>4. AnswerTypes'
    BY <1>1, <1>3, <1>t DEF AnswerTypes
  <1>5. /\ Retold(told') \in Tellings /\ Retold(told').text = Retold(told).text
        /\ Retold(told').broken
    <2>1. Retold(told') = Joined(Retold(told), Event("permission"))
      BY <1>1, <1>2, <1>t, RetoldAppend
    <2>2. Retold(told') \in Tellings
      BY <1>2, <1>t, <2>1, JoinedType
    <2> DEFINE e == Event("permission")
    <2>3. e.type \in Breaks /\ e.type # "msg"
      BY <1>2 DEF Breaks
    <2>4. Retold(told') = Joined(Retold(told), e)
      BY <2>1
    <2> HIDE DEF e
    <2> QED
      BY <1>t, <2>2, <2>3, <2>4, JoinedEvent
  <1>6. ASSUME pending.type # "msg" PROVE Now'.broken /\ Now'.text = Now.text
    <2>1. CASE pending.type = "none"
      BY <1>1, <1>5, <2>1 DEF Now, Flushed
    <2>2. CASE pending.type # "none"
      <3>1. pending \in Events
        BY <1>t, <2>2 DEF AnswerTypes, Events, Types
      <3>2. Now = Joined(Retold(told), pending) /\ Now' = Joined(Retold(told'), pending)
        BY <1>1, <1>3, <1>t, <2>2, <3>1, RetoldAppend DEF Now, Flushed
      <3> QED
        BY <1>5, <1>6, <1>t, <3>2, JoinedEvent
    <2> QED
      BY <2>1, <2>2
  <1>7. ~consulted.spoken => pending.type # "msg" /\ boundary.answer /\ ~boundary.transcript
                              /\ Now.text = answer
    BY <1>1 DEF AnswerInv, Tells
  <1>8. consulted'.spoken = consulted.spoken /\ ~consulted'.asking
    BY <1>1, <1>t DEF AnswerTypes
  <1>9. Tells(Now)'
    BY <1>1, <1>6, <1>7, <1>8 DEF Tells
  <1> QED
    BY <1>4, <1>9 DEF AnswerInv

LEMMA AnswerStep ==
  ASSUME AnswerInv, [AnswerNext]_avars PROVE AnswerInv'
  <1>1. ASSUME OtherUpdate PROVE AnswerInv'
    BY <1>1, MarkedOnly DEF OtherUpdate
  <1>2. CASE UNCHANGED avars
    BY <1>2 DEF avars, AnswerInv, AnswerTypes, Tells, Now, Flushed
  <1> QED
    BY <1>1, <1>2, MessageStep, ThoughtStep, UsageReportStep, ExternalStep, ToolCallStep,
       ToolUpdateStep, AskStep, DecideStep DEF AnswerNext

\* The transcript tells the answer: joined by the events between them its
\* messages are the answer, each paragraph separated once, for any number of
\* texts, events and tools, unless text came while a person was asked.
THEOREM TranscriptsTellAnswers == AnswerSpec => []TranscriptTellsAnswer
  <1>1. AnswerInv => TranscriptTellsAnswer
    BY DEF AnswerInv, Tells, Now, TranscriptTellsAnswer
  <1> QED
    BY <1>1, AnswerBegins, AnswerStep, PTL DEF AnswerSpec
====
