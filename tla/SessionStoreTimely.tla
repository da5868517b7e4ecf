------------------------- MODULE SessionStoreTimely -------------------------
(***************************************************************************)
(* What a session promises in a timely environment, for any number of      *)
(* processes and turns: nobody is taken for gone who is not, one process   *)
(* drives the session at a time, every text is of the turn it stands for,  *)
(* and the answer of a succeeded turn is not lost.                         *)
(***************************************************************************)
EXTENDS SessionStoreProofs

DeletePc == {"delFiles", "delMeta", "delRest", "delTomb"}

\* A verdict reached without the lock is still true when it is acted on.
Verdicts ==
    /\ status \in {"none", "starting"} => pid = NoProc
    /\ \A p \in Proc :
        /\ pc[p] = "finalize" => arg[p] # "unknown" /\ phase[p] # "none"
        /\ pc[p] \in {"unknown", "cancel"} => status # "none"
    /\ timely => \A p \in Proc :
        /\ pc[p] = "unknown" /\ Active => HostGone
        /\ pc[p] = "cancel" /\ Active => pid = NoProc
        /\ pc[p] \in RotatePc => \A q \in Proc : pc[q] \notin {"unknown", "cancel"}
        /\ pc[p] \in FinishPc => HostGone \/ pid = NoProc \/ phase[p] # "none"
        /\ pc[p] \in FinishPc /\ arg[p] = "unknown" => HostGone

\* A host acts as nothing else meanwhile.
HostsOnly ==
    /\ status = "none" => \A p \in Proc : phase[p] = "none"
    /\ \A p \in Proc :
        /\ p \in deletes => phase[p] = "none" /\ pc[p] \in FinishPc \cup DeletePc
        /\ phase[p] # "none" => pc[p] \in {"idle", "finalize"} \cup FinishPc

\* The session has one living host at most, and meta.json says what it does.
OneHost ==
    timely =>
        /\ \A p, q \in alive : phase[p] # "none" /\ phase[q] # "none" => p = q
        /\ \A p \in Proc : pc[p] \in RotatePc => \A q \in alive : phase[q] = "none"
        /\ \A p \in alive :
            /\ phase[p] = "driving" => status = "running" /\ pid = p /\ owns[p] = turns
            /\ phase[p] = "holding" => status = "waiting" /\ pid = p /\ owns[p] = turns
            /\ phase[p] = "setup" => owns[p] = turns /\ (status = "starting" \/ Over)
            /\ phase[p] = "broken" => Over

\* An answer is parked with its turn over, and moved rather than copied.
ParkedAnswers ==
    /\ status = "none" => answer = NoAnswer
    /\ status # "gone" => \A n \in Turn :
        /\ n > turns => parkedAnswer[n] = NoAnswer
        /\ n = turns /\ parkedAnswer[n] # NoAnswer => Finished /\ answer = NoAnswer
    /\ \A p \in Proc : pc[p] \in {"rotWrite", "rotMeta"} => answer = NoAnswer
    /\ timely => AnswerOfItsTurn

\* The answer of a succeeded turn: being published, pending, or parked.
Succeeded ==
    timely /\ Exists =>
        /\ \A n \in Turn : n < turns /\ parkedMeta[n] = "succeeded" =>
              parkedAnswer[n] = [turn |-> n, real |-> TRUE]
        /\ status = "succeeded" /\ emitted = {} =>
              [turn |-> turns, real |-> TRUE] \in {answer, parkedAnswer[turns]}
        /\ \A p \in Proc : pc[p] \in FinishPc /\ arg[p] = "succeeded" =>
              answer = [turn |-> turns, real |-> TRUE]

\* The inductive invariant.
TInv == SInv /\ Verdicts /\ HostsOnly /\ OneHost /\ ParkedAnswers /\ Succeeded

-----------------------------------------------------------------------------
(* PROOFS                                                                  *)

\* The living host of an active session hosts its current turn.
LEMMA HostOwnsTurn ==
  ASSUME IInv, OneHost, timely, Active, NEW p \in alive, phase[p] # "none"
  PROVE  owns[p] = turns
BY DEF IInv, TypeOK, ProcTypeOK, OneHost, Phase, Over, Finished, Active, ActiveState,
  FinishedState

\* Nobody disturbs what a reader decided without the lock.
LEMMA VerdictsStep ==
  ASSUME IInv, Verdicts, HostsOnly, OneHost, Next PROVE Verdicts'
<1> USE NoProcAssumption, MaxTurnAssumption DEF IInv, TypeOK, ProcTypeOK, Exists,
      Active, Finished, LockHeld, SectionState, RotatePc, FinishPc, LockedPc, OpenPc,
      ActiveState, FinishedState, MissingState, meta, parked, disk, transcript, env, procs, aside, Verdicts,
      HostsOnly, DeletePc, OneHost, Over, Phase, HostGone
<1>1. ASSUME GraceLapses PROVE Verdicts'
  BY <1>1 DEF GraceLapses
<1>2. ASSUME NEW p \in Proc, CreateBegin(p) PROVE Verdicts'
  BY <1>2 DEF CreateBegin, Client, At, Goto, Free
<1>3. ASSUME NEW p \in Proc, CreatePublish(p) PROVE Verdicts'
  BY <1>3 DEF CreatePublish, Client, At, Goto, Leave
<1>4. ASSUME NEW p \in Proc, MarkRunning(p) PROVE Verdicts'
  BY <1>4 DEF MarkRunning, Moves, At, Free, Allowed, Undisturbed
<1>5. ASSUME NEW p \in Proc, HoldForLimit(p) PROVE Verdicts'
  BY <1>5 DEF HoldForLimit, Moves, At, Free, Allowed
<1>6. ASSUME NEW p \in Proc, ResumeAfterLimit(p) PROVE Verdicts'
  BY <1>6 DEF ResumeAfterLimit, Moves, At, Free, Allowed
<1>7. ASSUME NEW p \in Proc, NEW to \in FinishedState, FinalizeRead(p, to)
     PROVE  Verdicts'
  BY <1>7 DEF FinalizeRead, EndTurn, Outcomes, Stale, Goto, At
<1>8. ASSUME NEW p \in Proc, FinalizeAnswer(p) PROVE Verdicts'
  BY <1>8 DEF FinalizeAnswer, Refused, Stale, Allowed, EndTurn, Goto, At, Free
<1>9. ASSUME NEW p \in Proc, FinalizeEvent(p) PROVE Verdicts'
  BY <1>9 DEF FinalizeEvent, Reduces, Goto, At
<1>10. ASSUME NEW p \in Proc, FinalizeDrop(p) PROVE Verdicts'
  BY <1>10 DEF FinalizeDrop, Goto, At, UnparkAll
<1>11. ASSUME NEW p \in Proc, FinalizeMeta(p) PROVE Verdicts'
  BY <1>11 DEF FinalizeMeta, EndTurn, Reduces, Goto, At
<1>12. ASSUME NEW p \in Proc, LoadRead(p) PROVE Verdicts'
  BY <1>12 DEF LoadRead, Client, At, Goto, HostGone
<1>13. ASSUME NEW p \in Proc, PersistUnknown(p) PROVE Verdicts'
  BY <1>13 DEF PersistUnknown, WritePlaceholder, Reduces, Goto, At, Free
<1>14. ASSUME NEW p \in Proc, CancelRead(p) PROVE Verdicts'
  BY <1>14 DEF CancelRead, CancelableLocally, HostGone, Client, At, Goto
<1>15. ASSUME NEW p \in Proc, CancelLocal(p) PROVE Verdicts'
  BY <1>15 DEF CancelLocal, Reduces, Goto, At, Free, Allowed
<1>16. ASSUME NEW p \in Proc, Reserve(p) PROVE Verdicts'
  BY <1>16 DEF Reserve, Reservable, Undisturbed, Client, At, Goto
<1>17. ASSUME NEW p \in Proc, AbandonReservation(p) PROVE Verdicts'
  BY <1>17 DEF AbandonReservation, Goto, At
<1>18. ASSUME NEW p \in Proc, RotateParkMeta(p) PROVE Verdicts'
  BY <1>18 DEF RotateParkMeta, Goto, At
<1>19. ASSUME NEW p \in Proc, RotateParkPrompt(p) PROVE Verdicts'
  BY <1>19 DEF RotateParkPrompt, Goto, At
<1>20. ASSUME NEW p \in Proc, RotateParkAnswer(p) PROVE Verdicts'
  BY <1>20 DEF RotateParkAnswer, Parkable, Goto, At
<1>21. ASSUME NEW p \in Proc, RotateWritePrompt(p) PROVE Verdicts'
  BY <1>21 DEF RotateWritePrompt, Goto, At
<1>22. ASSUME NEW p \in Proc, NEW direct \in BOOLEAN, RotatePublish(p, direct)
     PROVE  Verdicts'
  BY <1>22 DEF RotatePublish, Goto, At
<1>23. ASSUME NEW p \in Proc, DeliverOpen(p) PROVE Verdicts'
  BY <1>23 DEF DeliverOpen, Client, At, Goto
<1>24. ASSUME NEW p \in Proc, DeliverLock(p) PROVE Verdicts'
  BY <1>24 DEF DeliverLock, Pending, Goto, At
<1>25. ASSUME NEW p \in Proc, DeliverEmit(p) PROVE Verdicts'
  BY <1>25 DEF DeliverEmit, Goto, At
<1>26. ASSUME NEW p \in Proc, DeliverDrop(p) PROVE Verdicts'
  BY <1>26 DEF DeliverDrop, Goto, At, Free
<1>27. ASSUME NEW p \in Proc, DeleteBegin(p) PROVE Verdicts'
  BY <1>27 DEF DeleteBegin, WritePlaceholder, Reduces, Goto, Client, At, Free, HostGone
<1>28. ASSUME NEW p \in Proc, DeleteFiles(p) PROVE Verdicts'
  BY <1>28 DEF DeleteFiles, Goto, At
<1>29. ASSUME NEW p \in Proc, DeleteMeta(p) PROVE Verdicts'
  BY <1>29 DEF DeleteMeta, Goto, At
<1>30. ASSUME NEW p \in Proc, DeleteRest(p) PROVE Verdicts'
  BY <1>30 DEF DeleteRest, Goto, At, UnparkAll
<1>31. ASSUME NEW p \in Proc, WriteTombstone(p) PROVE Verdicts'
  BY <1>31 DEF WriteTombstone, Goto, At, Leave
<1>32. ASSUME NEW p \in Proc, Crash(p) PROVE Verdicts'
  BY <1>32 DEF Crash, Goto
<1>33. ASSUME NEW p \in Proc, AppendEvent(p) \/ SendSteer(p) \/ RecordSteer(p) \/ DropSteer(p)
      PROVE  Verdicts'
  BY <1>33 DEF AppendEvent, SendSteer, RecordSteer, DropSteer, At
<1>34. ASSUME NEW p \in Proc, FollowUpRead(p) PROVE Verdicts'
  BY <1>34 DEF FollowUpRead, Client, At, Goto
<1>35. ASSUME NEW p \in Proc, FollowUpOpen(p) PROVE Verdicts'
  BY <1>35 DEF FollowUpOpen, At, Goto
<1>p. (\E p \in Proc : Proceed(p)) => Verdicts'
  BY <1>3, <1>8, <1>9, <1>10, <1>11, <1>13, <1>15, <1>18, <1>19, <1>20, <1>21,
     <1>22, <1>24, <1>25, <1>26, <1>28, <1>29, <1>30, <1>31, <1>35 DEF Proceed
<1> QED
  BY <1>p, <1>1, <1>2, <1>4, <1>5, <1>6, <1>7, <1>12, <1>14, <1>16, <1>17, <1>23,
     <1>27, <1>32, <1>33, <1>34 DEF Next

\* A process that hosts a turn begins no other operation.
LEMMA HostsOnlyStep ==
  ASSUME IInv, Verdicts, HostsOnly, Next PROVE HostsOnly'
<1> USE NoProcAssumption, MaxTurnAssumption DEF IInv, TypeOK, ProcTypeOK, Exists,
      Active, Finished, LockHeld, SectionState, RotatePc, FinishPc, LockedPc, OpenPc,
      ActiveState, FinishedState, MissingState, meta, parked, disk, transcript, env, procs, aside, Verdicts,
      HostsOnly, DeletePc, Phase
<1>1. ASSUME GraceLapses PROVE HostsOnly'
  BY <1>1 DEF GraceLapses
<1>2. ASSUME NEW p \in Proc, CreateBegin(p) PROVE HostsOnly'
  BY <1>2 DEF CreateBegin, Client, At, Goto, Free
<1>3. ASSUME NEW p \in Proc, CreatePublish(p) PROVE HostsOnly'
  BY <1>3 DEF CreatePublish, Client, At, Goto, Leave
<1>4. ASSUME NEW p \in Proc, MarkRunning(p) PROVE HostsOnly'
  BY <1>4 DEF MarkRunning, Moves, At, Free, Allowed, Undisturbed
<1>5. ASSUME NEW p \in Proc, HoldForLimit(p) PROVE HostsOnly'
  BY <1>5 DEF HoldForLimit, Moves, At, Free, Allowed
<1>6. ASSUME NEW p \in Proc, ResumeAfterLimit(p) PROVE HostsOnly'
  BY <1>6 DEF ResumeAfterLimit, Moves, At, Free, Allowed
<1>7. ASSUME NEW p \in Proc, NEW to \in FinishedState, FinalizeRead(p, to)
     PROVE  HostsOnly'
  BY <1>7 DEF FinalizeRead, EndTurn, Outcomes, Stale, Goto, At
<1>8. ASSUME NEW p \in Proc, FinalizeAnswer(p) PROVE HostsOnly'
  BY <1>8 DEF FinalizeAnswer, Refused, Stale, Allowed, EndTurn, Goto, At, Free
<1>9. ASSUME NEW p \in Proc, FinalizeEvent(p) PROVE HostsOnly'
  BY <1>9 DEF FinalizeEvent, Reduces, Goto, At
<1>10. ASSUME NEW p \in Proc, FinalizeDrop(p) PROVE HostsOnly'
  BY <1>10 DEF FinalizeDrop, Goto, At, UnparkAll
<1>11. ASSUME NEW p \in Proc, FinalizeMeta(p) PROVE HostsOnly'
  BY <1>11 DEF FinalizeMeta, EndTurn, Reduces, Goto, At
<1>12. ASSUME NEW p \in Proc, LoadRead(p) PROVE HostsOnly'
  BY <1>12 DEF LoadRead, Client, At, Goto, HostGone
<1>13. ASSUME NEW p \in Proc, PersistUnknown(p) PROVE HostsOnly'
  BY <1>13 DEF PersistUnknown, WritePlaceholder, Reduces, Goto, At, Free
<1>14. ASSUME NEW p \in Proc, CancelRead(p) PROVE HostsOnly'
  BY <1>14 DEF CancelRead, CancelableLocally, HostGone, Client, At, Goto
<1>15. ASSUME NEW p \in Proc, CancelLocal(p) PROVE HostsOnly'
  BY <1>15 DEF CancelLocal, Reduces, Goto, At, Free, Allowed
<1>16. ASSUME NEW p \in Proc, Reserve(p) PROVE HostsOnly'
  BY <1>16 DEF Reserve, Reservable, Undisturbed, Client, At, Goto
<1>17. ASSUME NEW p \in Proc, AbandonReservation(p) PROVE HostsOnly'
  BY <1>17 DEF AbandonReservation, Goto, At
<1>18. ASSUME NEW p \in Proc, RotateParkMeta(p) PROVE HostsOnly'
  BY <1>18 DEF RotateParkMeta, Goto, At
<1>19. ASSUME NEW p \in Proc, RotateParkPrompt(p) PROVE HostsOnly'
  BY <1>19 DEF RotateParkPrompt, Goto, At
<1>20. ASSUME NEW p \in Proc, RotateParkAnswer(p) PROVE HostsOnly'
  BY <1>20 DEF RotateParkAnswer, Parkable, Goto, At
<1>21. ASSUME NEW p \in Proc, RotateWritePrompt(p) PROVE HostsOnly'
  BY <1>21 DEF RotateWritePrompt, Goto, At
<1>22. ASSUME NEW p \in Proc, NEW direct \in BOOLEAN, RotatePublish(p, direct)
     PROVE  HostsOnly'
  BY <1>22 DEF RotatePublish, Goto, At
<1>23. ASSUME NEW p \in Proc, DeliverOpen(p) PROVE HostsOnly'
  BY <1>23 DEF DeliverOpen, Client, At, Goto
<1>24. ASSUME NEW p \in Proc, DeliverLock(p) PROVE HostsOnly'
  BY <1>24 DEF DeliverLock, Pending, Goto, At
<1>25. ASSUME NEW p \in Proc, DeliverEmit(p) PROVE HostsOnly'
  BY <1>25 DEF DeliverEmit, Goto, At
<1>26. ASSUME NEW p \in Proc, DeliverDrop(p) PROVE HostsOnly'
  BY <1>26 DEF DeliverDrop, Goto, At, Free
<1>27. ASSUME NEW p \in Proc, DeleteBegin(p) PROVE HostsOnly'
  BY <1>27 DEF DeleteBegin, WritePlaceholder, Reduces, Goto, Client, At, Free, HostGone
<1>28. ASSUME NEW p \in Proc, DeleteFiles(p) PROVE HostsOnly'
  BY <1>28 DEF DeleteFiles, Goto, At
<1>29. ASSUME NEW p \in Proc, DeleteMeta(p) PROVE HostsOnly'
  BY <1>29 DEF DeleteMeta, Goto, At
<1>30. ASSUME NEW p \in Proc, DeleteRest(p) PROVE HostsOnly'
  BY <1>30 DEF DeleteRest, Goto, At, UnparkAll
<1>31. ASSUME NEW p \in Proc, WriteTombstone(p) PROVE HostsOnly'
  BY <1>31 DEF WriteTombstone, Goto, At, Leave
<1>32. ASSUME NEW p \in Proc, Crash(p) PROVE HostsOnly'
  BY <1>32 DEF Crash, Goto
<1>33. ASSUME NEW p \in Proc, AppendEvent(p) \/ SendSteer(p) \/ RecordSteer(p) \/ DropSteer(p)
      PROVE  HostsOnly'
  BY <1>33 DEF AppendEvent, SendSteer, RecordSteer, DropSteer, At
<1>34. ASSUME NEW p \in Proc, FollowUpRead(p) PROVE HostsOnly'
  BY <1>34 DEF FollowUpRead, Client, At, Goto
<1>35. ASSUME NEW p \in Proc, FollowUpOpen(p) PROVE HostsOnly'
  BY <1>35 DEF FollowUpOpen, At, Goto
<1>p. (\E p \in Proc : Proceed(p)) => HostsOnly'
  BY <1>3, <1>8, <1>9, <1>10, <1>11, <1>13, <1>15, <1>18, <1>19, <1>20, <1>21,
     <1>22, <1>24, <1>25, <1>26, <1>28, <1>29, <1>30, <1>31, <1>35 DEF Proceed
<1> QED
  BY <1>p, <1>1, <1>2, <1>4, <1>5, <1>6, <1>7, <1>12, <1>14, <1>16, <1>17, <1>23,
     <1>27, <1>32, <1>33, <1>34 DEF Next

\* No turn is opened while an earlier host is left.
LEMMA OneHostStep ==
  ASSUME IInv, Verdicts, HostsOnly, OneHost, Next PROVE OneHost'
<1> USE NoProcAssumption, MaxTurnAssumption DEF IInv, TypeOK, ProcTypeOK, Exists,
      Active, Finished, LockHeld, SectionState, RotatePc, FinishPc, LockedPc, OpenPc,
      ActiveState, FinishedState, MissingState, meta, parked, disk, transcript, env, procs, aside, Verdicts,
      HostsOnly, DeletePc, OneHost, Over, Phase, HostGone
<1>1. ASSUME GraceLapses PROVE OneHost'
  BY <1>1 DEF GraceLapses
<1>2. ASSUME NEW p \in Proc, CreateBegin(p) PROVE OneHost'
  BY <1>2 DEF CreateBegin, Client, At, Goto, Free
<1>3. ASSUME NEW p \in Proc, CreatePublish(p) PROVE OneHost'
  BY <1>3 DEF CreatePublish, Client, At, Goto, Leave
<1>4. ASSUME NEW p \in Proc, MarkRunning(p) PROVE OneHost'
  BY <1>4 DEF MarkRunning, Moves, At, Free, Allowed, Undisturbed
<1>5. ASSUME NEW p \in Proc, HoldForLimit(p) PROVE OneHost'
  BY <1>5 DEF HoldForLimit, Moves, At, Free, Allowed
<1>6. ASSUME NEW p \in Proc, ResumeAfterLimit(p) PROVE OneHost'
  BY <1>6 DEF ResumeAfterLimit, Moves, At, Free, Allowed
<1>7. ASSUME NEW p \in Proc, NEW to \in FinishedState, FinalizeRead(p, to)
     PROVE  OneHost'
  BY <1>7 DEF FinalizeRead, EndTurn, Outcomes, Stale, Goto, At
<1>8. ASSUME NEW p \in Proc, FinalizeAnswer(p) PROVE OneHost'
  BY <1>8 DEF FinalizeAnswer, Refused, Stale, Allowed, EndTurn, Goto, At, Free
<1>9. ASSUME NEW p \in Proc, FinalizeEvent(p) PROVE OneHost'
  BY <1>9 DEF FinalizeEvent, Reduces, Goto, At
<1>10. ASSUME NEW p \in Proc, FinalizeDrop(p) PROVE OneHost'
  BY <1>10 DEF FinalizeDrop, Goto, At, UnparkAll
<1>11. ASSUME NEW p \in Proc, FinalizeMeta(p) PROVE OneHost'
  BY <1>11 DEF FinalizeMeta, EndTurn, Reduces, Goto, At
<1>12. ASSUME NEW p \in Proc, LoadRead(p) PROVE OneHost'
  BY <1>12 DEF LoadRead, Client, At, Goto, HostGone
<1>13. ASSUME NEW p \in Proc, PersistUnknown(p) PROVE OneHost'
  BY <1>13 DEF PersistUnknown, WritePlaceholder, Reduces, Goto, At, Free
<1>14. ASSUME NEW p \in Proc, CancelRead(p) PROVE OneHost'
  BY <1>14 DEF CancelRead, CancelableLocally, HostGone, Client, At, Goto
<1>15. ASSUME NEW p \in Proc, CancelLocal(p) PROVE OneHost'
  BY <1>15 DEF CancelLocal, Reduces, Goto, At, Free, Allowed
<1>16. ASSUME NEW p \in Proc, Reserve(p) PROVE OneHost'
  BY <1>16 DEF Reserve, Reservable, Undisturbed, Client, At, Goto
<1>17. ASSUME NEW p \in Proc, AbandonReservation(p) PROVE OneHost'
  BY <1>17 DEF AbandonReservation, Goto, At
<1>18. ASSUME NEW p \in Proc, RotateParkMeta(p) PROVE OneHost'
  BY <1>18 DEF RotateParkMeta, Goto, At
<1>19. ASSUME NEW p \in Proc, RotateParkPrompt(p) PROVE OneHost'
  BY <1>19 DEF RotateParkPrompt, Goto, At
<1>20. ASSUME NEW p \in Proc, RotateParkAnswer(p) PROVE OneHost'
  BY <1>20 DEF RotateParkAnswer, Parkable, Goto, At
<1>21. ASSUME NEW p \in Proc, RotateWritePrompt(p) PROVE OneHost'
  BY <1>21 DEF RotateWritePrompt, Goto, At
<1>22. ASSUME NEW p \in Proc, NEW direct \in BOOLEAN, RotatePublish(p, direct)
     PROVE  OneHost'
  BY <1>22 DEF RotatePublish, Goto, At
<1>23. ASSUME NEW p \in Proc, DeliverOpen(p) PROVE OneHost'
  BY <1>23 DEF DeliverOpen, Client, At, Goto
<1>24. ASSUME NEW p \in Proc, DeliverLock(p) PROVE OneHost'
  BY <1>24 DEF DeliverLock, Pending, Goto, At
<1>25. ASSUME NEW p \in Proc, DeliverEmit(p) PROVE OneHost'
  BY <1>25 DEF DeliverEmit, Goto, At
<1>26. ASSUME NEW p \in Proc, DeliverDrop(p) PROVE OneHost'
  BY <1>26 DEF DeliverDrop, Goto, At, Free
<1>27. ASSUME NEW p \in Proc, DeleteBegin(p) PROVE OneHost'
  BY <1>27 DEF DeleteBegin, WritePlaceholder, Reduces, Goto, Client, At, Free, HostGone
<1>28. ASSUME NEW p \in Proc, DeleteFiles(p) PROVE OneHost'
  BY <1>28 DEF DeleteFiles, Goto, At
<1>29. ASSUME NEW p \in Proc, DeleteMeta(p) PROVE OneHost'
  BY <1>29 DEF DeleteMeta, Goto, At
<1>30. ASSUME NEW p \in Proc, DeleteRest(p) PROVE OneHost'
  BY <1>30 DEF DeleteRest, Goto, At, UnparkAll
<1>31. ASSUME NEW p \in Proc, WriteTombstone(p) PROVE OneHost'
  BY <1>31 DEF WriteTombstone, Goto, At, Leave
<1>32. ASSUME NEW p \in Proc, Crash(p) PROVE OneHost'
  BY <1>32 DEF Crash, Goto
<1>33. ASSUME NEW p \in Proc, AppendEvent(p) \/ SendSteer(p) \/ RecordSteer(p) \/ DropSteer(p)
      PROVE  OneHost'
  <2>1. UNCHANGED <<status, turns, pid, answer, parkedMeta, parkedAnswer, pc, arg, phase,
                    owns, alive, timely, emitted>>
    BY <1>33 DEF AppendEvent, SendSteer, RecordSteer, DropSteer
  <2> QED
    BY <2>1
<1>34. ASSUME NEW p \in Proc, FollowUpRead(p) PROVE OneHost'
  BY <1>34 DEF FollowUpRead, Client, At, Goto
<1>35. ASSUME NEW p \in Proc, FollowUpOpen(p) PROVE OneHost'
  BY <1>35 DEF FollowUpOpen, At, Goto
<1>p. (\E p \in Proc : Proceed(p)) => OneHost'
  BY <1>3, <1>8, <1>9, <1>10, <1>11, <1>13, <1>15, <1>18, <1>19, <1>20, <1>21,
     <1>22, <1>24, <1>25, <1>26, <1>28, <1>29, <1>30, <1>31, <1>35 DEF Proceed
<1> QED
  BY <1>p, <1>1, <1>2, <1>4, <1>5, <1>6, <1>7, <1>12, <1>14, <1>16, <1>17, <1>23,
     <1>27, <1>32, <1>33, <1>34 DEF Next

\* Answers go from turn to parked turn, and stay.
LEMMA ParkedAnswersStep ==
  ASSUME IInv, Verdicts, HostsOnly, OneHost, ParkedAnswers, Next PROVE ParkedAnswers'
<1> USE NoProcAssumption, MaxTurnAssumption DEF IInv, TypeOK, ProcTypeOK, Exists,
      Active, Finished, LockHeld, SectionState, RotatePc, FinishPc, LockedPc, OpenPc,
      ActiveState, FinishedState, MissingState, meta, parked, disk, transcript, env, procs, aside, Verdicts,
      HostsOnly, DeletePc, OneHost, Over, ParkedAnswers, AnswerOfItsTurn, NoAnswer
<1>1. ASSUME GraceLapses PROVE ParkedAnswers'
  BY <1>1 DEF GraceLapses
<1>2. ASSUME NEW p \in Proc, CreateBegin(p) PROVE ParkedAnswers'
  BY <1>2 DEF CreateBegin, Client, At, Goto, Free
<1>3. ASSUME NEW p \in Proc, CreatePublish(p) PROVE ParkedAnswers'
  BY <1>3 DEF CreatePublish, Client, At, Goto, Leave, TurnCount, MetaTypeOK,
    FilesTypeOK, Turn, Answer
<1>4. ASSUME NEW p \in Proc, MarkRunning(p) PROVE ParkedAnswers'
  BY <1>4 DEF MarkRunning, Moves, At, Free, Allowed, Undisturbed
<1>5. ASSUME NEW p \in Proc, HoldForLimit(p) PROVE ParkedAnswers'
  BY <1>5 DEF HoldForLimit, Moves, At, Free, Allowed
<1>6. ASSUME NEW p \in Proc, ResumeAfterLimit(p) PROVE ParkedAnswers'
  BY <1>6 DEF ResumeAfterLimit, Moves, At, Free, Allowed
<1>7. ASSUME NEW p \in Proc, NEW to \in FinishedState, FinalizeRead(p, to)
     PROVE  ParkedAnswers'
  BY <1>7 DEF FinalizeRead, EndTurn, Outcomes, Stale, Goto, At
<1>8. ASSUME NEW p \in Proc, FinalizeAnswer(p) PROVE ParkedAnswers'
  <2>1. CASE Refused(p)
    BY <1>8, <2>1 DEF FinalizeAnswer, EndTurn, Goto, At
  <2>2. CASE ~Refused(p)
    <3>1. Active
      BY <1>8, <2>2 DEF Refused, Allowed, MetaTypeOK
    <3>4. timely => owns[p] = turns
      BY <1>8, <3>1, HostOwnsTurn DEF FinalizeAnswer, At
    <3>2. /\ answer' = [turn |-> owns[p], real |-> TRUE]
          /\ pc' = [pc EXCEPT ![p] = "finEvent"]
          /\ UNCHANGED <<meta, parked, timely, arg, emitted>>
      BY <1>8, <2>2 DEF FinalizeAnswer, Goto
    <3>3. \A q \in Proc \ {p} : pc[q] \notin LockedPc
      BY <1>8, <2>2 DEF FinalizeAnswer, Free
    <3> QED
      BY <3>1, <3>2, <3>3, <3>4 DEF TurnCount, MetaTypeOK
  <2> QED
    BY <2>1, <2>2
<1>9. ASSUME NEW p \in Proc, FinalizeEvent(p) PROVE ParkedAnswers'
  BY <1>9 DEF FinalizeEvent, Reduces, Goto, At
<1>10. ASSUME NEW p \in Proc, FinalizeDrop(p) PROVE ParkedAnswers'
  BY <1>10 DEF FinalizeDrop, Goto, At, UnparkAll
<1>11. ASSUME NEW p \in Proc, FinalizeMeta(p) PROVE ParkedAnswers'
  BY <1>11 DEF FinalizeMeta, EndTurn, Reduces, Goto, At
<1>12. ASSUME NEW p \in Proc, LoadRead(p) PROVE ParkedAnswers'
  BY <1>12 DEF LoadRead, Client, At, Goto, HostGone
<1>13. ASSUME NEW p \in Proc, PersistUnknown(p) PROVE ParkedAnswers'
  BY <1>13 DEF PersistUnknown, WritePlaceholder, Reduces, Goto, At, Free
<1>14. ASSUME NEW p \in Proc, CancelRead(p) PROVE ParkedAnswers'
  BY <1>14 DEF CancelRead, CancelableLocally, HostGone, Client, At, Goto
<1>15. ASSUME NEW p \in Proc, CancelLocal(p) PROVE ParkedAnswers'
  BY <1>15 DEF CancelLocal, Reduces, Goto, At, Free, Allowed
<1>16. ASSUME NEW p \in Proc, Reserve(p) PROVE ParkedAnswers'
  BY <1>16 DEF Reserve, Reservable, Undisturbed, Client, At, Goto
<1>17. ASSUME NEW p \in Proc, AbandonReservation(p) PROVE ParkedAnswers'
  BY <1>17 DEF AbandonReservation, Goto, At
<1>18. ASSUME NEW p \in Proc, RotateParkMeta(p) PROVE ParkedAnswers'
  BY <1>18 DEF RotateParkMeta, Goto, At, TurnCount, MetaTypeOK, FilesTypeOK, Turn,
    Answer
<1>19. ASSUME NEW p \in Proc, RotateParkPrompt(p) PROVE ParkedAnswers'
  BY <1>19 DEF RotateParkPrompt, Goto, At
<1>20. ASSUME NEW p \in Proc, RotateParkAnswer(p) PROVE ParkedAnswers'
  <2>1. Finished /\ lock = p
    BY <1>20 DEF RotateParkAnswer, At
  <2>2. turns \in Turn
    BY <2>1, TurnsType
  <2>3. CASE Parkable
    <3>1. /\ parkedAnswer' = [parkedAnswer EXCEPT ![turns] = answer]
          /\ answer' = NoAnswer /\ parkedAnswer[turns] = NoAnswer
          /\ pc' = [pc EXCEPT ![p] = "rotWrite"]
          /\ UNCHANGED <<meta, parkedMeta, timely, arg, emitted>>
      BY <1>20, <2>3 DEF RotateParkAnswer, Parkable, Goto
    <3>2. \A n \in Turn :
             parkedAnswer'[n] = IF n = turns THEN answer ELSE parkedAnswer[n]
      BY <2>2, <3>1 DEF FilesTypeOK
    <3>3. \A q \in Proc \ {p} : pc[q] \notin LockedPc
      BY <2>1
    <3> HIDE DEF ParkedAnswers
    <3>4. (status # "gone" => \A n \in Turn :
             /\ n > turns => parkedAnswer[n] = NoAnswer
             /\ n = turns /\ parkedAnswer[n] # NoAnswer => Finished /\ answer = NoAnswer)'
      BY <2>1, <2>2, <3>1, <3>2 DEF ParkedAnswers, Turn
    <3>5. \A q \in Proc : pc'[q] \in {"rotWrite", "rotMeta"} => answer' = NoAnswer
      BY <3>1
    <3>6. (timely => AnswerOfItsTurn)'
      BY <2>1, <2>2, <3>1, <3>2 DEF ParkedAnswers
    <3>7. (status = "none" => answer = NoAnswer)'
      BY <3>1
    <3> HIDE DEF AnswerOfItsTurn, Finished, NoAnswer
    <3> QED
      BY <3>4, <3>5, <3>6, <3>7 DEF ParkedAnswers
  <2>4. CASE ~Parkable
    <3>1. /\ answer = NoAnswer \/ parkedAnswer[turns] # NoAnswer
          /\ pc' = [pc EXCEPT ![p] = "rotWrite"]
          /\ UNCHANGED <<meta, parkedMeta, parkedAnswer, answer, timely, arg, emitted>>
      BY <1>20, <2>4 DEF RotateParkAnswer, Parkable, Goto
    <3> QED
      BY <2>1, <2>2, <3>1 DEF FilesTypeOK
  <2> QED
    BY <2>3, <2>4
<1>21. ASSUME NEW p \in Proc, RotateWritePrompt(p) PROVE ParkedAnswers'
  BY <1>21 DEF RotateWritePrompt, Goto, At
<1>22. ASSUME NEW p \in Proc, NEW direct \in BOOLEAN, RotatePublish(p, direct)
     PROVE  ParkedAnswers'
  BY SMTT(30), <1>22 DEF RotatePublish, Goto, At, TurnCount, MetaTypeOK, FilesTypeOK, Turn, Answer
<1>23. ASSUME NEW p \in Proc, DeliverOpen(p) PROVE ParkedAnswers'
  BY <1>23 DEF DeliverOpen, Client, At, Goto
<1>24. ASSUME NEW p \in Proc, DeliverLock(p) PROVE ParkedAnswers'
  BY <1>24 DEF DeliverLock, Pending, Goto, At
<1>25. ASSUME NEW p \in Proc, DeliverEmit(p) PROVE ParkedAnswers'
  BY <1>25 DEF DeliverEmit, Goto, At
<1>26. ASSUME NEW p \in Proc, DeliverDrop(p) PROVE ParkedAnswers'
  BY <1>26 DEF DeliverDrop, Goto, At, Free
<1>27. ASSUME NEW p \in Proc, DeleteBegin(p) PROVE ParkedAnswers'
  BY <1>27 DEF DeleteBegin, WritePlaceholder, Reduces, Goto, Client, At, Free, HostGone
<1>28. ASSUME NEW p \in Proc, DeleteFiles(p) PROVE ParkedAnswers'
  BY <1>28 DEF DeleteFiles, Goto, At
<1>29. ASSUME NEW p \in Proc, DeleteMeta(p) PROVE ParkedAnswers'
  BY <1>29 DEF DeleteMeta, Goto, At
<1>30. ASSUME NEW p \in Proc, DeleteRest(p) PROVE ParkedAnswers'
  BY <1>30 DEF DeleteRest, Goto, At, UnparkAll
<1>31. ASSUME NEW p \in Proc, WriteTombstone(p) PROVE ParkedAnswers'
  BY <1>31 DEF WriteTombstone, Goto, At, Leave
<1>32. ASSUME NEW p \in Proc, Crash(p) PROVE ParkedAnswers'
  BY <1>32 DEF Crash, Goto
<1>33. ASSUME NEW p \in Proc, AppendEvent(p) \/ SendSteer(p) \/ RecordSteer(p) \/ DropSteer(p)
      PROVE  ParkedAnswers'
  BY <1>33 DEF AppendEvent, SendSteer, RecordSteer, DropSteer, At
<1>34. ASSUME NEW p \in Proc, FollowUpRead(p) PROVE ParkedAnswers'
  BY <1>34 DEF FollowUpRead, Client, At, Goto
<1>35. ASSUME NEW p \in Proc, FollowUpOpen(p) PROVE ParkedAnswers'
  BY <1>35 DEF FollowUpOpen, At, Goto
<1> HIDE DEF IInv, TypeOK, ProcTypeOK, Exists, Active, Finished, LockHeld, SectionState,
      RotatePc, FinishPc, LockedPc, OpenPc, ActiveState, FinishedState, MissingState, meta,
      parked, disk, transcript, env, procs, aside, Verdicts, HostsOnly, DeletePc, OneHost, Over, ParkedAnswers,
      AnswerOfItsTurn, NoAnswer
<1>p. (\E p \in Proc : Proceed(p)) => ParkedAnswers'
  BY <1>3, <1>8, <1>9, <1>10, <1>11, <1>13, <1>15, <1>18, <1>19, <1>20, <1>21,
     <1>22, <1>24, <1>25, <1>26, <1>28, <1>29, <1>30, <1>31, <1>35 DEF Proceed
<1> QED
  BY <1>p, <1>1, <1>2, <1>4, <1>5, <1>6, <1>7, <1>12, <1>14, <1>16, <1>17, <1>23,
     <1>27, <1>32, <1>33, <1>34 DEF Next

\* No interrupted rotation, verdict or cancel loses a real answer.
LEMMA SucceededStep ==
  ASSUME IInv, Consumed, Verdicts, HostsOnly, OneHost, ParkedAnswers, Succeeded, Next PROVE Succeeded'
<1> USE NoProcAssumption, MaxTurnAssumption DEF IInv, TypeOK, ProcTypeOK, Exists,
      Active, Finished, LockHeld, SectionState, RotatePc, FinishPc, LockedPc, OpenPc,
      ActiveState, FinishedState, MissingState, meta, parked, disk, transcript, env, procs, aside, Verdicts,
      HostsOnly, DeletePc, OneHost, Over, ParkedAnswers, AnswerOfItsTurn, NoAnswer,
      Consumed, Succeeded
<1>1. ASSUME GraceLapses PROVE Succeeded'
  BY <1>1 DEF GraceLapses
<1>2. ASSUME NEW p \in Proc, CreateBegin(p) PROVE Succeeded'
  BY <1>2 DEF CreateBegin, Client, At, Goto, Free
<1>3. ASSUME NEW p \in Proc, CreatePublish(p) PROVE Succeeded'
  BY <1>3 DEF CreatePublish, Client, At, Goto, Leave, TurnCount, MetaTypeOK,
    FilesTypeOK, Turn, Answer
<1>4. ASSUME NEW p \in Proc, MarkRunning(p) PROVE Succeeded'
  BY <1>4 DEF MarkRunning, Moves, At, Free, Allowed, Undisturbed
<1>5. ASSUME NEW p \in Proc, HoldForLimit(p) PROVE Succeeded'
  BY <1>5 DEF HoldForLimit, Moves, At, Free, Allowed
<1>6. ASSUME NEW p \in Proc, ResumeAfterLimit(p) PROVE Succeeded'
  BY <1>6 DEF ResumeAfterLimit, Moves, At, Free, Allowed
<1>7. ASSUME NEW p \in Proc, NEW to \in FinishedState, FinalizeRead(p, to)
     PROVE  Succeeded'
  BY <1>7 DEF FinalizeRead, EndTurn, Outcomes, Stale, Goto, At
<1>8. ASSUME NEW p \in Proc, FinalizeAnswer(p) PROVE Succeeded'
  <2>1. CASE Refused(p)
    BY <1>8, <2>1 DEF FinalizeAnswer, EndTurn, Goto, At
  <2>2. CASE ~Refused(p)
    <3>1. Active
      BY <1>8, <2>2 DEF Refused, Allowed, MetaTypeOK
    <3>4. timely => owns[p] = turns
      BY <1>8, <3>1, HostOwnsTurn DEF FinalizeAnswer, At
    <3>2. /\ answer' = [turn |-> owns[p], real |-> TRUE]
          /\ pc' = [pc EXCEPT ![p] = "finEvent"]
          /\ UNCHANGED <<meta, parked, timely, arg, emitted>>
      BY <1>8, <2>2 DEF FinalizeAnswer, Goto
    <3>3. \A q \in Proc \ {p} : pc[q] \notin LockedPc
      BY <1>8, <2>2 DEF FinalizeAnswer, Free
    <3> QED
      BY <3>1, <3>2, <3>3, <3>4 DEF TurnCount, MetaTypeOK
  <2> QED
    BY <2>1, <2>2
<1>9. ASSUME NEW p \in Proc, FinalizeEvent(p) PROVE Succeeded'
  BY <1>9 DEF FinalizeEvent, Reduces, Goto, At
<1>10. ASSUME NEW p \in Proc, FinalizeDrop(p) PROVE Succeeded'
  BY <1>10 DEF FinalizeDrop, Goto, At, UnparkAll
<1>11. ASSUME NEW p \in Proc, FinalizeMeta(p) PROVE Succeeded'
  BY <1>11 DEF FinalizeMeta, EndTurn, Reduces, Goto, At
<1>12. ASSUME NEW p \in Proc, LoadRead(p) PROVE Succeeded'
  BY <1>12 DEF LoadRead, Client, At, Goto, HostGone
<1>13. ASSUME NEW p \in Proc, PersistUnknown(p) PROVE Succeeded'
  BY <1>13 DEF PersistUnknown, WritePlaceholder, Reduces, Goto, At, Free
<1>14. ASSUME NEW p \in Proc, CancelRead(p) PROVE Succeeded'
  BY <1>14 DEF CancelRead, CancelableLocally, HostGone, Client, At, Goto
<1>15. ASSUME NEW p \in Proc, CancelLocal(p) PROVE Succeeded'
  BY <1>15 DEF CancelLocal, Reduces, Goto, At, Free, Allowed
<1>16. ASSUME NEW p \in Proc, Reserve(p) PROVE Succeeded'
  BY <1>16 DEF Reserve, Reservable, Undisturbed, Client, At, Goto
<1>17. ASSUME NEW p \in Proc, AbandonReservation(p) PROVE Succeeded'
  BY <1>17 DEF AbandonReservation, Goto, At
<1>18. ASSUME NEW p \in Proc, RotateParkMeta(p) PROVE Succeeded'
  BY <1>18 DEF RotateParkMeta, Goto, At, TurnCount, MetaTypeOK, FilesTypeOK, Turn,
    Answer
<1>19. ASSUME NEW p \in Proc, RotateParkPrompt(p) PROVE Succeeded'
  BY <1>19 DEF RotateParkPrompt, Goto, At
<1>20. ASSUME NEW p \in Proc, RotateParkAnswer(p) PROVE Succeeded'
  <2>1. Finished /\ lock = p
    BY <1>20 DEF RotateParkAnswer, At
  <2>2. turns \in Turn
    BY <2>1, TurnsType
  <2>3. CASE Parkable
    <3>1. /\ parkedAnswer' = [parkedAnswer EXCEPT ![turns] = answer]
          /\ answer' = NoAnswer /\ parkedAnswer[turns] = NoAnswer
          /\ pc' = [pc EXCEPT ![p] = "rotWrite"]
          /\ UNCHANGED <<meta, parkedMeta, timely, arg, emitted>>
      BY <1>20, <2>3 DEF RotateParkAnswer, Parkable, Goto
    <3>2. \A n \in Turn :
             parkedAnswer'[n] = IF n = turns THEN answer ELSE parkedAnswer[n]
      BY <2>2, <3>1 DEF FilesTypeOK
    <3>3. \A q \in Proc \ {p} : pc[q] \notin LockedPc
      BY <2>1
    <3>4. [turn |-> turns, real |-> TRUE] # NoAnswer
      BY DEF NoAnswer
    <3>5. \A q \in Proc : pc'[q] \notin FinishPc
      BY <2>1, <3>1, <3>3
    <3>6. timely =>
             /\ \A n \in Turn : n < turns /\ parkedMeta[n] = "succeeded" =>
                   parkedAnswer[n] = [turn |-> n, real |-> TRUE]
             /\ status = "succeeded" /\ emitted = {} =>
                   [turn |-> turns, real |-> TRUE] \in {answer, parkedAnswer[turns]}
      BY <2>1
    <3>7. (timely => /\ \A n \in Turn : n < turns /\ parkedMeta[n] = "succeeded" =>
                         parkedAnswer[n] = [turn |-> n, real |-> TRUE]
                     /\ status = "succeeded" /\ emitted = {} =>
                         [turn |-> turns, real |-> TRUE] \in {answer, parkedAnswer[turns]})'
      <4> HIDE DEF NoAnswer, Succeeded, ParkedAnswers, OneHost, Verdicts, HostsOnly, IInv,
            Consumed
      <4> QED
        BY <2>2, <3>1, <3>2, <3>4, <3>6 DEF Turn
    <3> QED
      BY <3>5, <3>7
  <2>4. CASE ~Parkable
    <3>1. /\ answer = NoAnswer \/ parkedAnswer[turns] # NoAnswer
          /\ pc' = [pc EXCEPT ![p] = "rotWrite"]
          /\ UNCHANGED <<meta, parkedMeta, parkedAnswer, answer, timely, arg, emitted>>
      BY <1>20, <2>4 DEF RotateParkAnswer, Parkable, Goto
    <3> QED
      BY <2>1, <2>2, <3>1 DEF FilesTypeOK
  <2> QED
    BY <2>3, <2>4
<1>21. ASSUME NEW p \in Proc, RotateWritePrompt(p) PROVE Succeeded'
  BY <1>21 DEF RotateWritePrompt, Goto, At
<1>22. ASSUME NEW p \in Proc, NEW direct \in BOOLEAN, RotatePublish(p, direct)
     PROVE  Succeeded'
  <2>1. Finished /\ lock = p /\ parkedMeta[turns] = status /\ answer = NoAnswer
    BY <1>22 DEF RotatePublish, At
  <2>2. turns \in Turn
    BY <2>1, TurnsType
  <2>3. /\ status' = "running" /\ turns' = turns + 1
        /\ UNCHANGED <<timely, answer, parked, arg, emitted>>
        /\ \A q \in Proc : pc'[q] \notin FinishPc
    BY <1>22, <2>1 DEF RotatePublish, Goto
  <2>4. ~oneShot
    BY <1>22 DEF RotatePublish, At
  <2>5. ASSUME timely, parkedMeta[turns] = "succeeded"
        PROVE  parkedAnswer[turns] = [turn |-> turns, real |-> TRUE]
    <3>1. emitted = {}
      BY <2>4
    <3> QED
      BY <2>1, <2>5, <3>1
  <2>6. ASSUME timely PROVE
          \A n \in Turn : n < turns + 1 /\ parkedMeta[n] = "succeeded" =>
              parkedAnswer[n] = [turn |-> n, real |-> TRUE]
    <3>1. \A n \in Turn : n < turns /\ parkedMeta[n] = "succeeded" =>
             parkedAnswer[n] = [turn |-> n, real |-> TRUE]
      BY <2>1, <2>6
    <3>2. \A n \in Turn : n < turns + 1 => n < turns \/ n = turns
      BY <2>2 DEF Turn
    <3> HIDE DEF NoAnswer, Succeeded, ParkedAnswers, OneHost, Verdicts, HostsOnly, IInv,
          Consumed
    <3> QED
      BY <2>5, <2>6, <3>1, <3>2
  <2> HIDE DEF NoAnswer
  <2> QED
    BY <2>3, <2>6
<1>23. ASSUME NEW p \in Proc, DeliverOpen(p) PROVE Succeeded'
  BY <1>23 DEF DeliverOpen, Client, At, Goto
<1>24. ASSUME NEW p \in Proc, DeliverLock(p) PROVE Succeeded'
  BY <1>24 DEF DeliverLock, Pending, Goto, At
<1>25. ASSUME NEW p \in Proc, DeliverEmit(p) PROVE Succeeded'
  BY <1>25 DEF DeliverEmit, Goto, At
<1>26. ASSUME NEW p \in Proc, DeliverDrop(p) PROVE Succeeded'
  BY <1>26 DEF DeliverDrop, Goto, At, Free
<1>27. ASSUME NEW p \in Proc, DeleteBegin(p) PROVE Succeeded'
  BY <1>27 DEF DeleteBegin, WritePlaceholder, Reduces, Goto, Client, At, Free, HostGone
<1>28. ASSUME NEW p \in Proc, DeleteFiles(p) PROVE Succeeded'
  BY <1>28 DEF DeleteFiles, Goto, At
<1>29. ASSUME NEW p \in Proc, DeleteMeta(p) PROVE Succeeded'
  BY <1>29 DEF DeleteMeta, Goto, At
<1>30. ASSUME NEW p \in Proc, DeleteRest(p) PROVE Succeeded'
  BY <1>30 DEF DeleteRest, Goto, At, UnparkAll
<1>31. ASSUME NEW p \in Proc, WriteTombstone(p) PROVE Succeeded'
  BY <1>31 DEF WriteTombstone, Goto, At, Leave
<1>32. ASSUME NEW p \in Proc, Crash(p) PROVE Succeeded'
  BY <1>32 DEF Crash, Goto
<1>33. ASSUME NEW p \in Proc, AppendEvent(p) \/ SendSteer(p) \/ RecordSteer(p) \/ DropSteer(p)
      PROVE  Succeeded'
  <2>1. UNCHANGED <<status, turns, pid, answer, parkedMeta, parkedAnswer, pc, arg, phase,
                    owns, alive, timely, emitted>>
    BY <1>33 DEF AppendEvent, SendSteer, RecordSteer, DropSteer
  <2> QED
    BY <2>1
<1>34. ASSUME NEW p \in Proc, FollowUpRead(p) PROVE Succeeded'
  BY <1>34 DEF FollowUpRead, Client, At, Goto
<1>35. ASSUME NEW p \in Proc, FollowUpOpen(p) PROVE Succeeded'
  BY <1>35 DEF FollowUpOpen, At, Goto
<1> HIDE DEF IInv, TypeOK, ProcTypeOK, Exists, Active, Finished, LockHeld, SectionState,
      RotatePc, FinishPc, LockedPc, OpenPc, ActiveState, FinishedState, MissingState, meta,
      parked, disk, transcript, env, procs, aside, Verdicts, HostsOnly, DeletePc, OneHost, Over, ParkedAnswers,
      AnswerOfItsTurn, NoAnswer, Consumed, Succeeded
<1>p. (\E p \in Proc : Proceed(p)) => Succeeded'
  BY <1>3, <1>8, <1>9, <1>10, <1>11, <1>13, <1>15, <1>18, <1>19, <1>20, <1>21,
     <1>22, <1>24, <1>25, <1>26, <1>28, <1>29, <1>30, <1>31, <1>35 DEF Proceed
<1> QED
  BY <1>p, <1>1, <1>2, <1>4, <1>5, <1>6, <1>7, <1>12, <1>14, <1>16, <1>17, <1>23,
     <1>27, <1>32, <1>33, <1>34 DEF Next

\* Only a turn whose host is gone is recorded as unknown.
LEMMA UnknownStep ==
  ASSUME IInv, Verdicts, Next PROVE (timely /\ status' = "unknown" /\ Active => HostGone)
<1> USE NoProcAssumption DEF IInv, TypeOK, ProcTypeOK, Verdicts, FinishPc, Active,
      ActiveState, FinishedState, MissingState, meta, disk, transcript, env, procs, aside
<1>1. ASSUME GraceLapses PROVE (timely /\ status' = "unknown" /\ Active => HostGone)
  BY <1>1 DEF GraceLapses
<1>2. ASSUME NEW p \in Proc, CreateBegin(p) PROVE (timely /\ status' = "unknown" /\ Active => HostGone)
  BY <1>2 DEF CreateBegin, Client, At, Goto, Free
<1>3. ASSUME NEW p \in Proc, CreatePublish(p) PROVE (timely /\ status' = "unknown" /\ Active => HostGone)
  BY <1>3 DEF CreatePublish, Client, At, Goto, Leave
<1>4. ASSUME NEW p \in Proc, MarkRunning(p) PROVE (timely /\ status' = "unknown" /\ Active => HostGone)
  BY <1>4 DEF MarkRunning, Moves, At, Free, Allowed, Undisturbed
<1>5. ASSUME NEW p \in Proc, HoldForLimit(p) PROVE (timely /\ status' = "unknown" /\ Active => HostGone)
  BY <1>5 DEF HoldForLimit, Moves, At, Free, Allowed
<1>6. ASSUME NEW p \in Proc, ResumeAfterLimit(p) PROVE (timely /\ status' = "unknown" /\ Active => HostGone)
  BY <1>6 DEF ResumeAfterLimit, Moves, At, Free, Allowed
<1>7. ASSUME NEW p \in Proc, NEW to \in FinishedState, FinalizeRead(p, to)
     PROVE  (timely /\ status' = "unknown" /\ Active => HostGone)
  BY <1>7 DEF FinalizeRead, EndTurn, Outcomes, Stale, Goto, At
<1>8. ASSUME NEW p \in Proc, FinalizeAnswer(p) PROVE (timely /\ status' = "unknown" /\ Active => HostGone)
  BY <1>8 DEF FinalizeAnswer, Refused, Stale, Allowed, EndTurn, Goto, At, Free
<1>9. ASSUME NEW p \in Proc, FinalizeEvent(p) PROVE (timely /\ status' = "unknown" /\ Active => HostGone)
  BY <1>9 DEF FinalizeEvent, Reduces, Goto, At
<1>10. ASSUME NEW p \in Proc, FinalizeDrop(p) PROVE (timely /\ status' = "unknown" /\ Active => HostGone)
  BY <1>10 DEF FinalizeDrop, Goto, At, UnparkAll
<1>11. ASSUME NEW p \in Proc, FinalizeMeta(p) PROVE (timely /\ status' = "unknown" /\ Active => HostGone)
  BY <1>11 DEF FinalizeMeta, EndTurn, Reduces, Goto, At
<1>12. ASSUME NEW p \in Proc, LoadRead(p) PROVE (timely /\ status' = "unknown" /\ Active => HostGone)
  BY <1>12 DEF LoadRead, Client, At, Goto, HostGone
<1>13. ASSUME NEW p \in Proc, PersistUnknown(p) PROVE (timely /\ status' = "unknown" /\ Active => HostGone)
  BY <1>13 DEF PersistUnknown, WritePlaceholder, Reduces, Goto, At, Free
<1>14. ASSUME NEW p \in Proc, CancelRead(p) PROVE (timely /\ status' = "unknown" /\ Active => HostGone)
  BY <1>14 DEF CancelRead, CancelableLocally, HostGone, Client, At, Goto
<1>15. ASSUME NEW p \in Proc, CancelLocal(p) PROVE (timely /\ status' = "unknown" /\ Active => HostGone)
  BY <1>15 DEF CancelLocal, Reduces, Goto, At, Free, Allowed
<1>16. ASSUME NEW p \in Proc, Reserve(p) PROVE (timely /\ status' = "unknown" /\ Active => HostGone)
  BY <1>16 DEF Reserve, Reservable, Undisturbed, Client, At, Goto
<1>17. ASSUME NEW p \in Proc, AbandonReservation(p) PROVE (timely /\ status' = "unknown" /\ Active => HostGone)
  BY <1>17 DEF AbandonReservation, Goto, At
<1>18. ASSUME NEW p \in Proc, RotateParkMeta(p) PROVE (timely /\ status' = "unknown" /\ Active => HostGone)
  BY <1>18 DEF RotateParkMeta, Goto, At
<1>19. ASSUME NEW p \in Proc, RotateParkPrompt(p) PROVE (timely /\ status' = "unknown" /\ Active => HostGone)
  BY <1>19 DEF RotateParkPrompt, Goto, At
<1>20. ASSUME NEW p \in Proc, RotateParkAnswer(p) PROVE (timely /\ status' = "unknown" /\ Active => HostGone)
  BY <1>20 DEF RotateParkAnswer, Parkable, Goto, At
<1>21. ASSUME NEW p \in Proc, RotateWritePrompt(p) PROVE (timely /\ status' = "unknown" /\ Active => HostGone)
  BY <1>21 DEF RotateWritePrompt, Goto, At
<1>22. ASSUME NEW p \in Proc, NEW direct \in BOOLEAN, RotatePublish(p, direct)
     PROVE  (timely /\ status' = "unknown" /\ Active => HostGone)
  BY <1>22 DEF RotatePublish, Goto, At
<1>23. ASSUME NEW p \in Proc, DeliverOpen(p) PROVE (timely /\ status' = "unknown" /\ Active => HostGone)
  BY <1>23 DEF DeliverOpen, Client, At, Goto
<1>24. ASSUME NEW p \in Proc, DeliverLock(p) PROVE (timely /\ status' = "unknown" /\ Active => HostGone)
  BY <1>24 DEF DeliverLock, Pending, Goto, At
<1>25. ASSUME NEW p \in Proc, DeliverEmit(p) PROVE (timely /\ status' = "unknown" /\ Active => HostGone)
  BY <1>25 DEF DeliverEmit, Goto, At
<1>26. ASSUME NEW p \in Proc, DeliverDrop(p) PROVE (timely /\ status' = "unknown" /\ Active => HostGone)
  BY <1>26 DEF DeliverDrop, Goto, At, Free
<1>27. ASSUME NEW p \in Proc, DeleteBegin(p) PROVE (timely /\ status' = "unknown" /\ Active => HostGone)
  BY <1>27 DEF DeleteBegin, WritePlaceholder, Reduces, Goto, Client, At, Free, HostGone
<1>28. ASSUME NEW p \in Proc, DeleteFiles(p) PROVE (timely /\ status' = "unknown" /\ Active => HostGone)
  BY <1>28 DEF DeleteFiles, Goto, At
<1>29. ASSUME NEW p \in Proc, DeleteMeta(p) PROVE (timely /\ status' = "unknown" /\ Active => HostGone)
  BY <1>29 DEF DeleteMeta, Goto, At
<1>30. ASSUME NEW p \in Proc, DeleteRest(p) PROVE (timely /\ status' = "unknown" /\ Active => HostGone)
  BY <1>30 DEF DeleteRest, Goto, At, UnparkAll
<1>31. ASSUME NEW p \in Proc, WriteTombstone(p) PROVE (timely /\ status' = "unknown" /\ Active => HostGone)
  BY <1>31 DEF WriteTombstone, Goto, At, Leave
<1>32. ASSUME NEW p \in Proc, Crash(p) PROVE (timely /\ status' = "unknown" /\ Active => HostGone)
  BY <1>32 DEF Crash, Goto
<1>33. ASSUME NEW p \in Proc, AppendEvent(p) \/ SendSteer(p) \/ RecordSteer(p) \/ DropSteer(p)
      PROVE  (timely /\ status' = "unknown" /\ Active => HostGone)
  BY <1>33 DEF AppendEvent, SendSteer, RecordSteer, DropSteer, At
<1>34. ASSUME NEW p \in Proc, FollowUpRead(p) PROVE (timely /\ status' = "unknown" /\ Active => HostGone)
  BY <1>34 DEF FollowUpRead, Client, At, Goto
<1>35. ASSUME NEW p \in Proc, FollowUpOpen(p) PROVE (timely /\ status' = "unknown" /\ Active => HostGone)
  BY <1>35 DEF FollowUpOpen, At, Goto
<1>p. (\E p \in Proc : Proceed(p)) => (timely /\ status' = "unknown" /\ Active => HostGone)
  BY <1>3, <1>8, <1>9, <1>10, <1>11, <1>13, <1>15, <1>18, <1>19, <1>20, <1>21,
     <1>22, <1>24, <1>25, <1>26, <1>28, <1>29, <1>30, <1>31, <1>35 DEF Proceed
<1> QED
  BY <1>p, <1>1, <1>2, <1>4, <1>5, <1>6, <1>7, <1>12, <1>14, <1>16, <1>17, <1>23,
     <1>27, <1>32, <1>33, <1>34 DEF Next

LEMMA TimelyInit == Init => TInv
<1> SUFFICES ASSUME Init PROVE TInv
  OBVIOUS
<1>1. SInv
  BY SafetyInit
<1>2. Verdicts /\ HostsOnly /\ OneHost
  BY DEF Init, Verdicts, HostsOnly, OneHost, FinishPc, RotatePc
<1>3. NoAnswer.turn = 0
  BY DEF NoAnswer
<1>4. ParkedAnswers
  BY <1>3 DEF Init, ParkedAnswers, NothingParked, AnswerOfItsTurn
<1>5. Succeeded
  BY DEF Init, Succeeded, Exists, MissingState
<1> QED
  BY <1>1, <1>2, <1>4, <1>5 DEF TInv

LEMMA TimelyStep == TInv /\ [Next]_vars => TInv'
<1> SUFFICES ASSUME TInv, [Next]_vars PROVE TInv'
  OBVIOUS
<1>1. IInv /\ Consumed /\ SInv'
  BY SafetyStep DEF TInv, SInv
<1>2. CASE Next
  BY <1>1, <1>2, VerdictsStep, HostsOnlyStep, OneHostStep, ParkedAnswersStep, SucceededStep
  DEF TInv
<1>3. CASE UNCHANGED vars
  <2> USE <1>3 DEF TInv, vars, disk, transcript, meta, parked, env, procs, aside
  <2>1. Verdicts' /\ HostsOnly'
    BY DEF Verdicts, HostsOnly, Active, HostGone
  <2>2. OneHost'
    BY DEF OneHost, Over, Finished
  <2>3. ParkedAnswers' /\ Succeeded'
    BY DEF ParkedAnswers, Succeeded, AnswerOfItsTurn, Exists, Finished
  <2> QED
    BY <1>1, <2>1, <2>2, <2>3
<1> QED
  BY <1>2, <1>3

\* In every reachable state of a timely environment the verdicts in flight are
\* true, the session has one living host at most, and its answers are in place.
THEOREM TimelyInvariant == Spec => []TInv
<1>1. Init => TInv
  BY TimelyInit
<1>2. TInv /\ [Next]_vars => TInv'
  BY TimelyStep
<1> QED
  BY <1>1, <1>2, PTL DEF Spec

\* In a timely environment no two living processes drive a turn of the session:
\* no reservation is granted, and no turn opened, behind a host's back.
THEOREM OneDriverAtATime == Spec => []OneDriver
<1>1. TInv => OneDriver
  BY DEF TInv, OneHost, OneDriver
<1> QED
  BY <1>1, TimelyInvariant, PTL

\* In a timely environment answer.md and answer.<n>.md hold what the owner of
\* their own turn wrote, whatever rotation, cancel or late end came between.
THEOREM AnswersOfTheirTurns == Spec => []TimelyAnswerOfItsTurn
<1>1. TInv => TimelyAnswerOfItsTurn
  BY DEF TInv, ParkedAnswers, TimelyAnswerOfItsTurn
<1> QED
  BY <1>1, TimelyInvariant, PTL

\* In a timely environment the answer of every turn that `wait` reports as
\* succeeded is on disk until it is delivered or the session deleted.
THEOREM SucceededAnswersKept == Spec => []SucceededAnswerKept
<1>1. ASSUME TInv PROVE SucceededAnswerKept
  <2> SUFFICES ASSUME timely, emitted = {}, NEW n \in Turn, Report(n) = "succeeded"
               PROVE  [turn |-> n, real |-> TRUE] \in {answer, parkedAnswer[n]}
    BY DEF SucceededAnswerKept
  <2>1. Exists /\ Succeeded
    BY <1>1 DEF Report, TInv
  <2>2. CASE n < turns
    BY <2>1, <2>2 DEF Report, Succeeded
  <2>3. CASE n = turns
    BY <2>1, <2>3 DEF Report, Succeeded
  <2>4. n < turns \/ n = turns
    <3>1. ~(n > turns)
      BY DEF Report
    <3> QED
      BY <1>1, <3>1, MaxTurnAssumption DEF TInv, SInv, IInv, TypeOK, MetaTypeOK, Turn
  <2> QED
    BY <2>2, <2>3, <2>4
<1> QED
  BY <1>1, TimelyInvariant, PTL

\* In a timely environment an active session becomes unknown only when its host
\* is gone: the late write of a reader's verdict still finds it gone.
THEOREM UnknownIsTrue == Spec => TimelyUnknown
<1>1. TInv /\ [Next]_vars =>
        [timely /\ status' = "unknown" /\ Active => HostGone]_vars
  BY UnknownStep DEF TInv, SInv
<1> QED
  BY <1>1, TimelyInvariant, PTL DEF Spec, TimelyUnknown

=============================================================================
