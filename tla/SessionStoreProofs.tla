------------------------- MODULE SessionStoreProofs -------------------------
(***************************************************************************)
(* SessionStore for any number of processes and turns: its types, the      *)
(* inductive invariant behind them, that it implements TurnLedger, and     *)
(* what its directory may never show.                                      *)
(***************************************************************************)
EXTENDS SessionStore, TLAPS

RotatePc == {"prepare", "rotPrompt", "rotAnswer", "rotWrite", "rotMeta"}
FinishPc == {"finEvent", "finDrop", "finMeta"}

\* The session lock excludes: inside a critical section it is one's own.
LockHeld == \A p \in Proc : pc[p] \in LockedPc => lock = p

\* What a critical section found when it began still holds further on.
SectionState ==
    \A p \in Proc :
        /\ pc[p] = "create" => status = "none"
        /\ pc[p] \in RotatePc => Finished /\ turns < MaxTurn /\ ~oneShot
        /\ pc[p] \in RotatePc \ {"prepare"} => parkedMeta[turns] = status
        /\ pc[p] \in FinishPc => Active /\ arg[p] \in FinishedState
        /\ pc[p] = "finDrop" => oneShot
        /\ pc[p] \in {"delFiles", "delMeta"} => Finished
        /\ pc[p] \in {"delRest", "delTomb"} => status = "gone"

\* Turn numbers start with the session; a one-shot session has one turn.
TurnCount ==
    /\ status = "none" <=> turns = 0
    /\ oneShot => turns <= 1

\* meta.<n>.json: there for every past turn, never for the one that runs or
\* for one to come; an interrupted rotation parks the turn's own outcome.
ParkedOutcomes ==
    Exists \/ status = "none" => \A n \in Turn :
        /\ n < turns => parkedMeta[n] \in FinishedState
        /\ n = turns => parkedMeta[n] = "none" \/ (Finished /\ parkedMeta[n] = status)
        /\ n > turns => parkedMeta[n] = "none"

\* The inductive invariant.
IInv == TypeOK /\ LockHeld /\ SectionState /\ TurnCount /\ ParkedOutcomes

-----------------------------------------------------------------------------
(* PROOFS                                                                  *)

LEMMA AnswerType ==
  /\ NoAnswer \in Answer
  /\ \A t \in 0..MaxTurn, b \in BOOLEAN : [turn |-> t, real |-> b] \in Answer
BY MaxTurnAssumption DEF Answer, NoAnswer

LEMMA EmptySeqType == << >> \in Seq([turn : Turn, state : FinishedState])
OBVIOUS

LEMMA InitFiles ==
  Init => answer = NoAnswer /\ prompt = 0 /\ tombstone = FALSE /\ events = FALSE
BY DEF Init

\* A session that has a state to be in has a turn.
LEMMA TurnsType ==
  ASSUME IInv, Active \/ Finished PROVE turns \in Turn
BY MaxTurnAssumption DEF IInv, TypeOK, MetaTypeOK, TurnCount, Active, Finished,
  ActiveState, FinishedState, Turn

LEMMA InitIInv == Init => IInv
<1> SUFFICES ASSUME Init PROVE IInv
  OBVIOUS
<1> USE DEF Init
<1>1. TypeOK
  <2>1. MetaTypeOK
    BY MaxTurnAssumption DEF MetaTypeOK, ActiveState, FinishedState, MissingState
  <2>2. FilesTypeOK
    <3>1. 0 \in 0..MaxTurn
      BY MaxTurnAssumption
    <3>2. endings \in Seq([turn : Turn, state : FinishedState])
      BY EmptySeqType
    <3>3. NothingParked
      OBVIOUS
    <3> HIDE DEF Init
    <3> QED
      BY <3>1, <3>2, <3>3, AnswerType, InitFiles DEF FilesTypeOK, NothingParked
  <2>3. ProcTypeOK
    <3>1. 0 \in 0..MaxTurn /\ "idle" \in LockedPc \cup OpenPc /\ "none" \in Phase
      BY MaxTurnAssumption DEF OpenPc, Phase
    <3> QED
      BY <3>1 DEF ProcTypeOK
  <2> QED BY <2>1, <2>2, <2>3 DEF TypeOK
<1>2. LockHeld /\ SectionState
  BY DEF LockHeld, SectionState, LockedPc, RotatePc, FinishPc
<1>3. TurnCount
  BY DEF TurnCount
<1>4. ParkedOutcomes
  BY DEF ParkedOutcomes, NothingParked, Turn
<1> QED BY <1>1, <1>2, <1>3, <1>4 DEF IInv

\* Every step keeps the types, one lemma for each part of TypeOK.
LEMMA MetaTypeStep ==
  ASSUME IInv, Next PROVE MetaTypeOK'
<1> USE MaxTurnAssumption DEF IInv, TypeOK, MetaTypeOK, ProcTypeOK, SectionState,
      Exists, Active, Finished, RotatePc, FinishPc, ActiveState, FinishedState,
      MissingState, meta, parked, disk, transcript, env, procs, aside
<1>1. ASSUME GraceLapses PROVE MetaTypeOK'
  BY <1>1 DEF GraceLapses
<1>2. ASSUME NEW p \in Proc, CreateBegin(p) PROVE MetaTypeOK'
  BY <1>2 DEF CreateBegin, Client, At, Goto, Free
<1>3. ASSUME NEW p \in Proc, CreatePublish(p) PROVE MetaTypeOK'
  BY <1>3 DEF CreatePublish, Client, At, Goto, Leave
<1>4. ASSUME NEW p \in Proc, MarkRunning(p) PROVE MetaTypeOK'
  BY <1>4 DEF MarkRunning, Moves, At, Free, Allowed, Undisturbed
<1>5. ASSUME NEW p \in Proc, HoldForLimit(p) PROVE MetaTypeOK'
  BY <1>5 DEF HoldForLimit, Moves, At, Free, Allowed
<1>6. ASSUME NEW p \in Proc, ResumeAfterLimit(p) PROVE MetaTypeOK'
  BY <1>6 DEF ResumeAfterLimit, Moves, At, Free, Allowed
<1>7. ASSUME NEW p \in Proc, NEW to \in FinishedState, FinalizeRead(p, to)
     PROVE  MetaTypeOK'
  BY <1>7 DEF FinalizeRead, EndTurn, Outcomes, Stale, Goto, At
<1>8. ASSUME NEW p \in Proc, FinalizeAnswer(p) PROVE MetaTypeOK'
  BY <1>8 DEF FinalizeAnswer, Refused, Stale, Allowed, EndTurn, Goto, At, Free
<1>9. ASSUME NEW p \in Proc, FinalizeEvent(p) PROVE MetaTypeOK'
  BY <1>9 DEF FinalizeEvent, Reduces, Goto, At
<1>10. ASSUME NEW p \in Proc, FinalizeDrop(p) PROVE MetaTypeOK'
  BY <1>10 DEF FinalizeDrop, Goto, At, UnparkAll
<1>11. ASSUME NEW p \in Proc, FinalizeMeta(p) PROVE MetaTypeOK'
  BY <1>11 DEF FinalizeMeta, EndTurn, Reduces, Goto, At
<1>12. ASSUME NEW p \in Proc, LoadRead(p) PROVE MetaTypeOK'
  BY <1>12 DEF LoadRead, Client, At, Goto, HostGone
<1>13. ASSUME NEW p \in Proc, PersistUnknown(p) PROVE MetaTypeOK'
  BY <1>13 DEF PersistUnknown, WritePlaceholder, Reduces, Goto, At, Free
<1>14. ASSUME NEW p \in Proc, CancelRead(p) PROVE MetaTypeOK'
  BY <1>14 DEF CancelRead, CancelableLocally, HostGone, Client, At, Goto
<1>15. ASSUME NEW p \in Proc, CancelLocal(p) PROVE MetaTypeOK'
  BY <1>15 DEF CancelLocal, Reduces, Goto, At, Free, Allowed
<1>16. ASSUME NEW p \in Proc, Reserve(p) PROVE MetaTypeOK'
  BY <1>16 DEF Reserve, Reservable, Undisturbed, Client, At, Goto
<1>17. ASSUME NEW p \in Proc, AbandonReservation(p) PROVE MetaTypeOK'
  BY <1>17 DEF AbandonReservation, Goto, At
<1>18. ASSUME NEW p \in Proc, RotateParkMeta(p) PROVE MetaTypeOK'
  BY <1>18 DEF RotateParkMeta, Goto, At
<1>19. ASSUME NEW p \in Proc, RotateParkPrompt(p) PROVE MetaTypeOK'
  BY <1>19 DEF RotateParkPrompt, Goto, At
<1>20. ASSUME NEW p \in Proc, RotateParkAnswer(p) PROVE MetaTypeOK'
  BY <1>20 DEF RotateParkAnswer, Parkable, Goto, At
<1>21. ASSUME NEW p \in Proc, RotateWritePrompt(p) PROVE MetaTypeOK'
  BY <1>21 DEF RotateWritePrompt, Goto, At
<1>22. ASSUME NEW p \in Proc, NEW direct \in BOOLEAN, RotatePublish(p, direct)
     PROVE  MetaTypeOK'
  BY <1>22 DEF RotatePublish, Goto, At
<1>23. ASSUME NEW p \in Proc, DeliverOpen(p) PROVE MetaTypeOK'
  BY <1>23 DEF DeliverOpen, Client, At, Goto
<1>24. ASSUME NEW p \in Proc, DeliverLock(p) PROVE MetaTypeOK'
  BY <1>24 DEF DeliverLock, Pending, Goto, At
<1>25. ASSUME NEW p \in Proc, DeliverEmit(p) PROVE MetaTypeOK'
  BY <1>25 DEF DeliverEmit, Goto, At
<1>26. ASSUME NEW p \in Proc, DeliverDrop(p) PROVE MetaTypeOK'
  BY <1>26 DEF DeliverDrop, Goto, At, Free
<1>27. ASSUME NEW p \in Proc, DeleteBegin(p) PROVE MetaTypeOK'
  BY <1>27 DEF DeleteBegin, WritePlaceholder, Reduces, Goto, Client, At, Free,
    HostGone
<1>28. ASSUME NEW p \in Proc, DeleteFiles(p) PROVE MetaTypeOK'
  BY <1>28 DEF DeleteFiles, Goto, At
<1>29. ASSUME NEW p \in Proc, DeleteMeta(p) PROVE MetaTypeOK'
  BY <1>29 DEF DeleteMeta, Goto, At
<1>30. ASSUME NEW p \in Proc, DeleteRest(p) PROVE MetaTypeOK'
  BY <1>30 DEF DeleteRest, Goto, At, UnparkAll
<1>31. ASSUME NEW p \in Proc, WriteTombstone(p) PROVE MetaTypeOK'
  BY <1>31 DEF WriteTombstone, Goto, At, Leave
<1>32. ASSUME NEW p \in Proc, Crash(p) PROVE MetaTypeOK'
  BY <1>32 DEF Crash, Goto
<1>33. ASSUME NEW p \in Proc, AppendEvent(p) \/ SendSteer(p) \/ RecordSteer(p) \/ DropSteer(p)
      PROVE  MetaTypeOK'
  BY <1>33 DEF AppendEvent, SendSteer, RecordSteer, DropSteer, At
<1>34. ASSUME NEW p \in Proc, FollowUpRead(p) PROVE MetaTypeOK'
  BY <1>34 DEF FollowUpRead, Client, At, Goto
<1>35. ASSUME NEW p \in Proc, FollowUpOpen(p) PROVE MetaTypeOK'
  BY <1>35 DEF FollowUpOpen, At, Goto
<1>p. (\E p \in Proc : Proceed(p)) => MetaTypeOK'
  BY <1>3, <1>8, <1>9, <1>10, <1>11, <1>13, <1>15, <1>18, <1>19, <1>20, <1>21,
     <1>22, <1>24, <1>25, <1>26, <1>28, <1>29, <1>30, <1>31, <1>35 DEF Proceed
<1> QED
  BY <1>p, <1>1, <1>2, <1>4, <1>5, <1>6, <1>7, <1>12, <1>14, <1>16, <1>17, <1>23,
     <1>27, <1>32, <1>33, <1>34 DEF Next

LEMMA FilesTypeCancel ==
  ASSUME IInv, NEW p \in Proc, CancelLocal(p) PROVE FilesTypeOK'
BY AnswerType DEF IInv, TypeOK, MetaTypeOK, FilesTypeOK, CancelLocal, Reduces, Goto,
  disk, transcript, env, parked, meta, procs, aside

LEMMA FilesTypeStep ==
  ASSUME IInv, Next PROVE FilesTypeOK'
<1> USE MaxTurnAssumption, AnswerType, TurnsType DEF IInv, TypeOK, MetaTypeOK,
      FilesTypeOK, ProcTypeOK, SectionState, Exists, Active, Finished, RotatePc,
      FinishPc, meta, parked, disk, transcript, env, procs, aside
<1>1. ASSUME GraceLapses PROVE FilesTypeOK'
  BY <1>1 DEF GraceLapses
<1>2. ASSUME NEW p \in Proc, CreateBegin(p) PROVE FilesTypeOK'
  BY <1>2 DEF CreateBegin, Client, At, Goto, Free
<1>3. ASSUME NEW p \in Proc, CreatePublish(p) PROVE FilesTypeOK'
  BY <1>3 DEF CreatePublish, Client, At, Goto, Leave
<1>4. ASSUME NEW p \in Proc, MarkRunning(p) PROVE FilesTypeOK'
  BY <1>4 DEF MarkRunning, Moves, At, Free, Undisturbed
<1>5. ASSUME NEW p \in Proc, HoldForLimit(p) PROVE FilesTypeOK'
  BY <1>5 DEF HoldForLimit, Moves, At, Free
<1>6. ASSUME NEW p \in Proc, ResumeAfterLimit(p) PROVE FilesTypeOK'
  BY <1>6 DEF ResumeAfterLimit, Moves, At, Free
<1>7. ASSUME NEW p \in Proc, NEW to \in FinishedState, FinalizeRead(p, to)
     PROVE  FilesTypeOK'
  BY <1>7 DEF FinalizeRead, EndTurn, Outcomes, Stale, Goto, At
<1>8. ASSUME NEW p \in Proc, FinalizeAnswer(p) PROVE FilesTypeOK'
  BY ZenonT(30), <1>8 DEF FinalizeAnswer, EndTurn, Goto, At, Free
<1>9. ASSUME NEW p \in Proc, FinalizeEvent(p) PROVE FilesTypeOK'
  BY <1>9 DEF FinalizeEvent, Goto, At
<1>10. ASSUME NEW p \in Proc, FinalizeDrop(p) PROVE FilesTypeOK'
  BY <1>10 DEF FinalizeDrop, Goto, At, UnparkAll
<1>11. ASSUME NEW p \in Proc, FinalizeMeta(p) PROVE FilesTypeOK'
  BY <1>11 DEF FinalizeMeta, EndTurn, Goto, At
<1>12. ASSUME NEW p \in Proc, LoadRead(p) PROVE FilesTypeOK'
  BY <1>12 DEF LoadRead, Client, At, Goto
<1>13. ASSUME NEW p \in Proc, PersistUnknown(p) PROVE FilesTypeOK'
  BY <1>13 DEF PersistUnknown, WritePlaceholder, Goto, At, Free
<1>14. ASSUME NEW p \in Proc, CancelRead(p) PROVE FilesTypeOK'
  BY <1>14 DEF CancelRead, CancelableLocally, Client, At, Goto
<1>15. ASSUME NEW p \in Proc, CancelLocal(p) PROVE FilesTypeOK'
  BY <1>15, FilesTypeCancel
<1>16. ASSUME NEW p \in Proc, Reserve(p) PROVE FilesTypeOK'
  BY <1>16 DEF Reserve, Reservable, Undisturbed, Client, At, Goto
<1>17. ASSUME NEW p \in Proc, AbandonReservation(p) PROVE FilesTypeOK'
  BY <1>17 DEF AbandonReservation, Goto, At
<1>18. ASSUME NEW p \in Proc, RotateParkMeta(p) PROVE FilesTypeOK'
  BY <1>18 DEF RotateParkMeta, Goto, At
<1>19. ASSUME NEW p \in Proc, RotateParkPrompt(p) PROVE FilesTypeOK'
  <2>1. turns \in Turn
    BY <1>19, TurnsType DEF RotateParkPrompt, At
  <2>2. prompt' \in 0..MaxTurn
    BY <1>19 DEF RotateParkPrompt
  <2>3. parkedPrompt' \in [Turn -> 0..MaxTurn]
    BY <1>19, <2>1 DEF RotateParkPrompt
  <2> QED
    BY <1>19, <2>2, <2>3 DEF RotateParkPrompt
<1>20. ASSUME NEW p \in Proc, RotateParkAnswer(p) PROVE FilesTypeOK'
  BY <1>20 DEF RotateParkAnswer, Parkable, Goto, At
<1>21. ASSUME NEW p \in Proc, RotateWritePrompt(p) PROVE FilesTypeOK'
  BY <1>21 DEF RotateWritePrompt, Goto, At
<1>22. ASSUME NEW p \in Proc, NEW direct \in BOOLEAN, RotatePublish(p, direct)
     PROVE  FilesTypeOK'
  BY <1>22 DEF RotatePublish, Goto, At
<1>23. ASSUME NEW p \in Proc, DeliverOpen(p) PROVE FilesTypeOK'
  BY <1>23 DEF DeliverOpen, Client, At, Goto
<1>24. ASSUME NEW p \in Proc, DeliverLock(p) PROVE FilesTypeOK'
  BY <1>24 DEF DeliverLock, Pending, Goto, At
<1>25. ASSUME NEW p \in Proc, DeliverEmit(p) PROVE FilesTypeOK'
  BY <1>25 DEF DeliverEmit, Goto, At
<1>26. ASSUME NEW p \in Proc, DeliverDrop(p) PROVE FilesTypeOK'
  <2>1. answer' = NoAnswer /\ endings' = << >> /\ events' = FALSE
        /\ UNCHANGED <<prompt, parkedMeta, parkedPrompt, parkedAnswer, tombstone>>
    BY <1>26 DEF DeliverDrop
  <2> QED
    BY <2>1, EmptySeqType, AnswerType
<1>27. ASSUME NEW p \in Proc, DeleteBegin(p) PROVE FilesTypeOK'
  BY <1>27 DEF DeleteBegin, WritePlaceholder, Goto, Client, At, Free
<1>28. ASSUME NEW p \in Proc, DeleteFiles(p) PROVE FilesTypeOK'
  <2>1. endings' = << >> /\ events' = FALSE /\ prompt' = 0
        /\ parkedPrompt' = [n \in Turn |-> 0]
        /\ UNCHANGED <<answer, parkedMeta, parkedAnswer, tombstone>>
    BY <1>28 DEF DeleteFiles
  <2>2. 0 \in 0..MaxTurn /\ [n \in Turn |-> 0] \in [Turn -> 0..MaxTurn]
    BY MaxTurnAssumption
  <2>3. endings' \in Seq([turn : Turn, state : FinishedState])
    BY <2>1, EmptySeqType
  <2> QED
    BY <2>1, <2>2, <2>3
<1>29. ASSUME NEW p \in Proc, DeleteMeta(p) PROVE FilesTypeOK'
  BY <1>29 DEF DeleteMeta, Goto, At
<1>30. ASSUME NEW p \in Proc, DeleteRest(p) PROVE FilesTypeOK'
  BY <1>30 DEF DeleteRest, Goto, At, UnparkAll
<1>31. ASSUME NEW p \in Proc, WriteTombstone(p) PROVE FilesTypeOK'
  BY <1>31 DEF WriteTombstone, Goto, At, Leave
<1>32. ASSUME NEW p \in Proc, Crash(p) PROVE FilesTypeOK'
  BY <1>32 DEF Crash, Goto
<1>33. ASSUME NEW p \in Proc, AppendEvent(p) \/ SendSteer(p) \/ RecordSteer(p) \/ DropSteer(p)
      PROVE  FilesTypeOK'
  BY <1>33 DEF AppendEvent, SendSteer, RecordSteer, DropSteer, At
<1>34. ASSUME NEW p \in Proc, FollowUpRead(p) PROVE FilesTypeOK'
  BY <1>34 DEF FollowUpRead, Client, At, Goto
<1>35. ASSUME NEW p \in Proc, FollowUpOpen(p) PROVE FilesTypeOK'
  BY <1>35 DEF FollowUpOpen, At, Goto
<1>p. (\E p \in Proc : Proceed(p)) => FilesTypeOK'
  BY <1>3, <1>8, <1>9, <1>10, <1>11, <1>13, <1>15, <1>18, <1>19, <1>20, <1>21,
     <1>22, <1>24, <1>25, <1>26, <1>28, <1>29, <1>30, <1>31, <1>35 DEF Proceed
<1> QED
  BY <1>p, <1>1, <1>2, <1>4, <1>5, <1>6, <1>7, <1>12, <1>14, <1>16, <1>17, <1>23,
     <1>27, <1>32, <1>33, <1>34 DEF Next

LEMMA ProcTypeStep ==
  ASSUME IInv, Next PROVE ProcTypeOK'
<1> USE MaxTurnAssumption DEF IInv, TypeOK, ProcTypeOK, MetaTypeOK, SectionState,
      Exists, Active, Finished, RotatePc, LockedPc, OpenPc, Phase, FinishedState, Turn,
      meta, parked, disk, transcript, env, procs, aside
<1>1. ASSUME GraceLapses PROVE ProcTypeOK'
  BY <1>1 DEF GraceLapses
<1>2. ASSUME NEW p \in Proc, CreateBegin(p) PROVE ProcTypeOK'
  BY <1>2 DEF CreateBegin, Client, At, Goto, Free
<1>3. ASSUME NEW p \in Proc, CreatePublish(p) PROVE ProcTypeOK'
  BY <1>3 DEF CreatePublish, Client, At, Goto, Leave
<1>4. ASSUME NEW p \in Proc, MarkRunning(p) PROVE ProcTypeOK'
  BY <1>4 DEF MarkRunning, Moves, At, Free
<1>5. ASSUME NEW p \in Proc, HoldForLimit(p) PROVE ProcTypeOK'
  BY <1>5 DEF HoldForLimit, Moves, At, Free
<1>6. ASSUME NEW p \in Proc, ResumeAfterLimit(p) PROVE ProcTypeOK'
  BY <1>6 DEF ResumeAfterLimit, Moves, At, Free
<1>7. ASSUME NEW p \in Proc, NEW to \in FinishedState, FinalizeRead(p, to)
     PROVE  ProcTypeOK'
  BY <1>7 DEF FinalizeRead, EndTurn, Outcomes, Stale, Goto, At
<1>8. ASSUME NEW p \in Proc, FinalizeAnswer(p) PROVE ProcTypeOK'
  BY <1>8 DEF FinalizeAnswer, EndTurn, Goto, At, Free
<1>9. ASSUME NEW p \in Proc, FinalizeEvent(p) PROVE ProcTypeOK'
  BY <1>9 DEF FinalizeEvent, Goto, At
<1>10. ASSUME NEW p \in Proc, FinalizeDrop(p) PROVE ProcTypeOK'
  BY <1>10 DEF FinalizeDrop, Goto, At, UnparkAll
<1>11. ASSUME NEW p \in Proc, FinalizeMeta(p) PROVE ProcTypeOK'
  BY <1>11 DEF FinalizeMeta, EndTurn, Goto, At
<1>12. ASSUME NEW p \in Proc, LoadRead(p) PROVE ProcTypeOK'
  BY <1>12 DEF LoadRead, Client, At, Goto
<1>13. ASSUME NEW p \in Proc, PersistUnknown(p) PROVE ProcTypeOK'
  BY <1>13 DEF PersistUnknown, WritePlaceholder, Goto, At, Free
<1>14. ASSUME NEW p \in Proc, CancelRead(p) PROVE ProcTypeOK'
  BY <1>14 DEF CancelRead, CancelableLocally, Client, At, Goto
<1>15. ASSUME NEW p \in Proc, CancelLocal(p) PROVE ProcTypeOK'
  BY <1>15 DEF CancelLocal, Goto, At, Free
<1>16. ASSUME NEW p \in Proc, Reserve(p) PROVE ProcTypeOK'
  BY <1>16 DEF Reserve, Reservable, Client, At, Goto
<1>17. ASSUME NEW p \in Proc, AbandonReservation(p) PROVE ProcTypeOK'
  BY <1>17 DEF AbandonReservation, Goto, At
<1>18. ASSUME NEW p \in Proc, RotateParkMeta(p) PROVE ProcTypeOK'
  BY <1>18 DEF RotateParkMeta, Goto, At
<1>19. ASSUME NEW p \in Proc, RotateParkPrompt(p) PROVE ProcTypeOK'
  BY <1>19 DEF RotateParkPrompt, Goto, At
<1>20. ASSUME NEW p \in Proc, RotateParkAnswer(p) PROVE ProcTypeOK'
  BY <1>20 DEF RotateParkAnswer, Parkable, Goto, At
<1>21. ASSUME NEW p \in Proc, RotateWritePrompt(p) PROVE ProcTypeOK'
  BY <1>21 DEF RotateWritePrompt, Goto, At
<1>22. ASSUME NEW p \in Proc, NEW direct \in BOOLEAN, RotatePublish(p, direct)
     PROVE  ProcTypeOK'
  BY <1>22 DEF RotatePublish, Goto, At
<1>23. ASSUME NEW p \in Proc, DeliverOpen(p) PROVE ProcTypeOK'
  BY <1>23 DEF DeliverOpen, Client, At, Goto
<1>24. ASSUME NEW p \in Proc, DeliverLock(p) PROVE ProcTypeOK'
  BY <1>24 DEF DeliverLock, Pending, Goto, At
<1>25. ASSUME NEW p \in Proc, DeliverEmit(p) PROVE ProcTypeOK'
  BY <1>25 DEF DeliverEmit, Goto, At
<1>26. ASSUME NEW p \in Proc, DeliverDrop(p) PROVE ProcTypeOK'
  BY <1>26 DEF DeliverDrop, Goto, At, Free
<1>27. ASSUME NEW p \in Proc, DeleteBegin(p) PROVE ProcTypeOK'
  BY <1>27 DEF DeleteBegin, WritePlaceholder, Goto, Client, At, Free
<1>28. ASSUME NEW p \in Proc, DeleteFiles(p) PROVE ProcTypeOK'
  BY <1>28 DEF DeleteFiles, Goto, At
<1>29. ASSUME NEW p \in Proc, DeleteMeta(p) PROVE ProcTypeOK'
  BY <1>29 DEF DeleteMeta, Goto, At
<1>30. ASSUME NEW p \in Proc, DeleteRest(p) PROVE ProcTypeOK'
  BY <1>30 DEF DeleteRest, Goto, At, UnparkAll
<1>31. ASSUME NEW p \in Proc, WriteTombstone(p) PROVE ProcTypeOK'
  BY <1>31 DEF WriteTombstone, Goto, At, Leave
<1>32. ASSUME NEW p \in Proc, Crash(p) PROVE ProcTypeOK'
  BY <1>32 DEF Crash, Goto
<1>33. ASSUME NEW p \in Proc, AppendEvent(p) \/ SendSteer(p) \/ RecordSteer(p) \/ DropSteer(p)
      PROVE  ProcTypeOK'
  BY <1>33 DEF AppendEvent, SendSteer, RecordSteer, DropSteer, At
<1>34. ASSUME NEW p \in Proc, FollowUpRead(p) PROVE ProcTypeOK'
  BY <1>34 DEF FollowUpRead, Client, At, Goto
<1>35. ASSUME NEW p \in Proc, FollowUpOpen(p) PROVE ProcTypeOK'
  BY <1>35 DEF FollowUpOpen, At, Goto
<1>p. (\E p \in Proc : Proceed(p)) => ProcTypeOK'
  BY <1>3, <1>8, <1>9, <1>10, <1>11, <1>13, <1>15, <1>18, <1>19, <1>20, <1>21,
     <1>22, <1>24, <1>25, <1>26, <1>28, <1>29, <1>30, <1>31, <1>35 DEF Proceed
<1> QED
  BY <1>p, <1>1, <1>2, <1>4, <1>5, <1>6, <1>7, <1>12, <1>14, <1>16, <1>17, <1>23,
     <1>27, <1>32, <1>33, <1>34 DEF Next

\* Mutual exclusion: a section is entered with the lock free or one's own, and
\* left for good by the step that gives the lock up.
LEMMA LockStep ==
  ASSUME IInv, Next PROVE LockHeld'
<1> USE NoProcAssumption DEF IInv, LockHeld, LockedPc, OpenPc, RotatePc, TypeOK,
      ProcTypeOK, meta, parked, disk, transcript, env, procs, aside
<1>1. ASSUME GraceLapses PROVE LockHeld'
  BY <1>1 DEF GraceLapses
<1>2. ASSUME NEW p \in Proc, CreateBegin(p) PROVE LockHeld'
  BY <1>2 DEF CreateBegin, Client, At, Goto, Free
<1>3. ASSUME NEW p \in Proc, CreatePublish(p) PROVE LockHeld'
  BY <1>3 DEF CreatePublish, Client, At, Goto, Leave
<1>4. ASSUME NEW p \in Proc, MarkRunning(p) PROVE LockHeld'
  BY <1>4 DEF MarkRunning, Moves, At, Free
<1>5. ASSUME NEW p \in Proc, HoldForLimit(p) PROVE LockHeld'
  BY <1>5 DEF HoldForLimit, Moves, At, Free
<1>6. ASSUME NEW p \in Proc, ResumeAfterLimit(p) PROVE LockHeld'
  BY <1>6 DEF ResumeAfterLimit, Moves, At, Free
<1>7. ASSUME NEW p \in Proc, NEW to \in FinishedState, FinalizeRead(p, to)
     PROVE  LockHeld'
  BY <1>7 DEF FinalizeRead, EndTurn, Outcomes, Goto, At
<1>8. ASSUME NEW p \in Proc, FinalizeAnswer(p) PROVE LockHeld'
  BY <1>8 DEF FinalizeAnswer, EndTurn, Goto, At, Free
<1>9. ASSUME NEW p \in Proc, FinalizeEvent(p) PROVE LockHeld'
  BY <1>9 DEF FinalizeEvent, Reduces, Goto, At
<1>10. ASSUME NEW p \in Proc, FinalizeDrop(p) PROVE LockHeld'
  BY <1>10 DEF FinalizeDrop, Goto, At, UnparkAll
<1>11. ASSUME NEW p \in Proc, FinalizeMeta(p) PROVE LockHeld'
  BY <1>11 DEF FinalizeMeta, EndTurn, Reduces, Goto, At
<1>12. ASSUME NEW p \in Proc, LoadRead(p) PROVE LockHeld'
  BY <1>12 DEF LoadRead, Client, At, Goto
<1>13. ASSUME NEW p \in Proc, PersistUnknown(p) PROVE LockHeld'
  BY <1>13 DEF PersistUnknown, WritePlaceholder, Reduces, Goto, At, Free
<1>14. ASSUME NEW p \in Proc, CancelRead(p) PROVE LockHeld'
  BY <1>14 DEF CancelRead, CancelableLocally, Client, At, Goto
<1>15. ASSUME NEW p \in Proc, CancelLocal(p) PROVE LockHeld'
  BY <1>15 DEF CancelLocal, Reduces, Goto, At, Free
<1>16. ASSUME NEW p \in Proc, Reserve(p) PROVE LockHeld'
  BY <1>16 DEF Reserve, Reservable, Client, At, Goto
<1>17. ASSUME NEW p \in Proc, AbandonReservation(p) PROVE LockHeld'
  BY <1>17 DEF AbandonReservation, Goto, At
<1>18. ASSUME NEW p \in Proc, RotateParkMeta(p) PROVE LockHeld'
  BY <1>18 DEF RotateParkMeta, Goto, At
<1>19. ASSUME NEW p \in Proc, RotateParkPrompt(p) PROVE LockHeld'
  BY <1>19 DEF RotateParkPrompt, Goto, At
<1>20. ASSUME NEW p \in Proc, RotateParkAnswer(p) PROVE LockHeld'
  BY <1>20 DEF RotateParkAnswer, Parkable, Goto, At
<1>21. ASSUME NEW p \in Proc, RotateWritePrompt(p) PROVE LockHeld'
  BY <1>21 DEF RotateWritePrompt, Goto, At
<1>22. ASSUME NEW p \in Proc, NEW direct \in BOOLEAN, RotatePublish(p, direct)
     PROVE  LockHeld'
  BY <1>22 DEF RotatePublish, Goto, At
<1>23. ASSUME NEW p \in Proc, DeliverOpen(p) PROVE LockHeld'
  BY <1>23 DEF DeliverOpen, Client, At, Goto
<1>24. ASSUME NEW p \in Proc, DeliverLock(p) PROVE LockHeld'
  BY <1>24 DEF DeliverLock, Pending, Goto, At
<1>25. ASSUME NEW p \in Proc, DeliverEmit(p) PROVE LockHeld'
  BY <1>25 DEF DeliverEmit, Goto, At
<1>26. ASSUME NEW p \in Proc, DeliverDrop(p) PROVE LockHeld'
  BY <1>26 DEF DeliverDrop, Goto, At, Free
<1>27. ASSUME NEW p \in Proc, DeleteBegin(p) PROVE LockHeld'
  BY <1>27 DEF DeleteBegin, WritePlaceholder, Reduces, Goto, Client, At, Free
<1>28. ASSUME NEW p \in Proc, DeleteFiles(p) PROVE LockHeld'
  BY <1>28 DEF DeleteFiles, Goto, At
<1>29. ASSUME NEW p \in Proc, DeleteMeta(p) PROVE LockHeld'
  BY <1>29 DEF DeleteMeta, Goto, At
<1>30. ASSUME NEW p \in Proc, DeleteRest(p) PROVE LockHeld'
  BY <1>30 DEF DeleteRest, Goto, At, UnparkAll
<1>31. ASSUME NEW p \in Proc, WriteTombstone(p) PROVE LockHeld'
  BY <1>31 DEF WriteTombstone, Goto, At, Leave
<1>32. ASSUME NEW p \in Proc, Crash(p) PROVE LockHeld'
  BY <1>32 DEF Crash, Goto
<1>33. ASSUME NEW p \in Proc, AppendEvent(p) \/ SendSteer(p) \/ RecordSteer(p) \/ DropSteer(p)
      PROVE  LockHeld'
  BY <1>33 DEF AppendEvent, SendSteer, RecordSteer, DropSteer, At
<1>34. ASSUME NEW p \in Proc, FollowUpRead(p) PROVE LockHeld'
  BY <1>34 DEF FollowUpRead, Client, At, Goto
<1>35. ASSUME NEW p \in Proc, FollowUpOpen(p) PROVE LockHeld'
  BY <1>35 DEF FollowUpOpen, At, Goto
<1>p. (\E p \in Proc : Proceed(p)) => LockHeld'
  BY <1>3, <1>8, <1>9, <1>10, <1>11, <1>13, <1>15, <1>18, <1>19, <1>20, <1>21,
     <1>22, <1>24, <1>25, <1>26, <1>28, <1>29, <1>30, <1>31, <1>35 DEF Proceed
<1> QED
  BY <1>p, <1>1, <1>2, <1>4, <1>5, <1>6, <1>7, <1>12, <1>14, <1>16, <1>17, <1>23,
     <1>27, <1>32, <1>33, <1>34 DEF Next

\* Nobody changes under a section what it found: who moves the state, the turn
\* or a parked outcome holds the lock or finds it free.
LEMMA SectionStep ==
  ASSUME IInv, Next PROVE SectionState'
<1> USE MaxTurnAssumption DEF IInv, TypeOK, MetaTypeOK, ProcTypeOK, Exists, Active,
      Finished, LockHeld, SectionState, RotatePc, FinishPc, LockedPc, OpenPc,
      ActiveState, FinishedState, MissingState, Goto, At, meta, parked, disk, transcript, env, procs, aside
<1>1. ASSUME GraceLapses PROVE SectionState'
  BY <1>1 DEF GraceLapses
<1>2. ASSUME NEW p \in Proc, CreateBegin(p) PROVE SectionState'
  BY <1>2 DEF CreateBegin, Client, At, Goto, Free
<1>3. ASSUME NEW p \in Proc, CreatePublish(p) PROVE SectionState'
  BY <1>3 DEF CreatePublish, Client, At, Goto, Leave
<1>4. ASSUME NEW p \in Proc, MarkRunning(p) PROVE SectionState'
  BY <1>4 DEF MarkRunning, Moves, At, Free, Allowed, Undisturbed
<1>5. ASSUME NEW p \in Proc, HoldForLimit(p) PROVE SectionState'
  BY <1>5 DEF HoldForLimit, Moves, At, Free, Allowed
<1>6. ASSUME NEW p \in Proc, ResumeAfterLimit(p) PROVE SectionState'
  BY <1>6 DEF ResumeAfterLimit, Moves, At, Free, Allowed
<1>7. ASSUME NEW p \in Proc, NEW to \in FinishedState, FinalizeRead(p, to)
     PROVE  SectionState'
  BY <1>7 DEF FinalizeRead, EndTurn, Outcomes, Stale, Goto, At
<1>8. ASSUME NEW p \in Proc, FinalizeAnswer(p) PROVE SectionState'
  BY <1>8 DEF FinalizeAnswer, Refused, Stale, Allowed, EndTurn, Goto, At, Free
<1>9. ASSUME NEW p \in Proc, FinalizeEvent(p) PROVE SectionState'
  BY <1>9 DEF FinalizeEvent, Reduces, Goto, At
<1>10. ASSUME NEW p \in Proc, FinalizeDrop(p) PROVE SectionState'
  BY <1>10 DEF FinalizeDrop, Goto, At, UnparkAll
<1>11. ASSUME NEW p \in Proc, FinalizeMeta(p) PROVE SectionState'
  BY <1>11 DEF FinalizeMeta, EndTurn, Reduces, Goto, At
<1>12. ASSUME NEW p \in Proc, LoadRead(p) PROVE SectionState'
  BY <1>12 DEF LoadRead, Client, At, Goto, HostGone
<1>13. ASSUME NEW p \in Proc, PersistUnknown(p) PROVE SectionState'
  BY <1>13 DEF PersistUnknown, WritePlaceholder, Reduces, Goto, At, Free
<1>14. ASSUME NEW p \in Proc, CancelRead(p) PROVE SectionState'
  BY <1>14 DEF CancelRead, CancelableLocally, HostGone, Client, At, Goto
<1>15. ASSUME NEW p \in Proc, CancelLocal(p) PROVE SectionState'
  <2> USE <1>15 DEF CancelLocal
  <2>1. CASE "canceled" \notin Allowed(status)
    BY <2>1
  <2>2. CASE "canceled" \in Allowed(status) /\ Reduces
    <3>1. Active
      BY <2>2 DEF Allowed
    <3> QED BY <2>2, <3>1, NoProcAssumption DEF Free, Reduces
  <2>3. CASE "canceled" \in Allowed(status) /\ ~Reduces
    <3>1. \A q \in Proc : pc[q] \notin LockedPc
      BY <2>3, NoProcAssumption DEF Free
    <3> QED BY <2>3, <3>1
  <2> QED BY <2>1, <2>2, <2>3
<1>16. ASSUME NEW p \in Proc, Reserve(p) PROVE SectionState'
  BY <1>16 DEF Reserve, Reservable, Undisturbed, Client, At, Goto
<1>17. ASSUME NEW p \in Proc, AbandonReservation(p) PROVE SectionState'
  BY <1>17 DEF AbandonReservation, Goto, At
<1>18. ASSUME NEW p \in Proc, RotateParkMeta(p) PROVE SectionState'
  <2>1. turns \in Turn /\ Finished
    BY <1>18, TurnsType DEF RotateParkMeta
  <2>2. parkedMeta'[turns] = status
    BY <1>18, <2>1 DEF RotateParkMeta, FilesTypeOK, ParkedOutcomes, Turn
  <2> QED
    BY <1>18, <2>1, <2>2 DEF RotateParkMeta
<1>19. ASSUME NEW p \in Proc, RotateParkPrompt(p) PROVE SectionState'
  BY <1>19 DEF RotateParkPrompt, Goto, At
<1>20. ASSUME NEW p \in Proc, RotateParkAnswer(p) PROVE SectionState'
  BY <1>20 DEF RotateParkAnswer, Parkable, Goto, At
<1>21. ASSUME NEW p \in Proc, RotateWritePrompt(p) PROVE SectionState'
  BY <1>21 DEF RotateWritePrompt, Goto, At
<1>22. ASSUME NEW p \in Proc, NEW direct \in BOOLEAN, RotatePublish(p, direct)
     PROVE  SectionState'
  BY <1>22 DEF RotatePublish, Goto, At
<1>23. ASSUME NEW p \in Proc, DeliverOpen(p) PROVE SectionState'
  BY <1>23 DEF DeliverOpen, Client, At, Goto
<1>24. ASSUME NEW p \in Proc, DeliverLock(p) PROVE SectionState'
  BY <1>24 DEF DeliverLock, Pending, Goto, At
<1>25. ASSUME NEW p \in Proc, DeliverEmit(p) PROVE SectionState'
  BY <1>25 DEF DeliverEmit, Goto, At
<1>26. ASSUME NEW p \in Proc, DeliverDrop(p) PROVE SectionState'
  BY <1>26 DEF DeliverDrop, Goto, At, Free
<1>27. ASSUME NEW p \in Proc, DeleteBegin(p) PROVE SectionState'
  BY <1>27 DEF DeleteBegin, WritePlaceholder, Reduces, Goto, Client, At, Free,
    HostGone
<1>28. ASSUME NEW p \in Proc, DeleteFiles(p) PROVE SectionState'
  BY <1>28 DEF DeleteFiles, Goto, At
<1>29. ASSUME NEW p \in Proc, DeleteMeta(p) PROVE SectionState'
  BY <1>29 DEF DeleteMeta, Goto, At
<1>30. ASSUME NEW p \in Proc, DeleteRest(p) PROVE SectionState'
  BY <1>30 DEF DeleteRest, Goto, At, UnparkAll
<1>31. ASSUME NEW p \in Proc, WriteTombstone(p) PROVE SectionState'
  BY <1>31 DEF WriteTombstone, Goto, At, Leave
<1>32. ASSUME NEW p \in Proc, Crash(p) PROVE SectionState'
  BY <1>32 DEF Crash, Goto
<1>33. ASSUME NEW p \in Proc, AppendEvent(p) \/ SendSteer(p) \/ RecordSteer(p) \/ DropSteer(p)
      PROVE  SectionState'
  BY <1>33 DEF AppendEvent, SendSteer, RecordSteer, DropSteer, At
<1>34. ASSUME NEW p \in Proc, FollowUpRead(p) PROVE SectionState'
  BY <1>34 DEF FollowUpRead, Client, At, Goto
<1>35. ASSUME NEW p \in Proc, FollowUpOpen(p) PROVE SectionState'
  BY <1>35 DEF FollowUpOpen, At, Goto
<1>p. (\E p \in Proc : Proceed(p)) => SectionState'
  BY <1>3, <1>8, <1>9, <1>10, <1>11, <1>13, <1>15, <1>18, <1>19, <1>20, <1>21,
     <1>22, <1>24, <1>25, <1>26, <1>28, <1>29, <1>30, <1>31, <1>35 DEF Proceed
<1> QED
  BY <1>p, <1>1, <1>2, <1>4, <1>5, <1>6, <1>7, <1>12, <1>14, <1>16, <1>17, <1>23,
     <1>27, <1>32, <1>33, <1>34 DEF Next

LEMMA CountStep ==
  ASSUME IInv, Next PROVE TurnCount'
<1> USE MaxTurnAssumption DEF IInv, TypeOK, MetaTypeOK, ProcTypeOK, Exists, Active,
      Finished, LockHeld, SectionState, TurnCount, RotatePc, FinishPc, LockedPc, OpenPc,
      ActiveState, FinishedState, MissingState, meta, parked, disk, transcript, env, procs, aside
<1>1. ASSUME GraceLapses PROVE TurnCount'
  BY <1>1 DEF GraceLapses
<1>2. ASSUME NEW p \in Proc, CreateBegin(p) PROVE TurnCount'
  BY <1>2 DEF CreateBegin, Client, At, Goto, Free
<1>3. ASSUME NEW p \in Proc, CreatePublish(p) PROVE TurnCount'
  BY <1>3 DEF CreatePublish, Client, At, Goto, Leave
<1>4. ASSUME NEW p \in Proc, MarkRunning(p) PROVE TurnCount'
  BY <1>4 DEF MarkRunning, Moves, At, Free, Allowed, Undisturbed
<1>5. ASSUME NEW p \in Proc, HoldForLimit(p) PROVE TurnCount'
  BY <1>5 DEF HoldForLimit, Moves, At, Free, Allowed
<1>6. ASSUME NEW p \in Proc, ResumeAfterLimit(p) PROVE TurnCount'
  BY <1>6 DEF ResumeAfterLimit, Moves, At, Free, Allowed
<1>7. ASSUME NEW p \in Proc, NEW to \in FinishedState, FinalizeRead(p, to)
     PROVE  TurnCount'
  BY <1>7 DEF FinalizeRead, EndTurn, Outcomes, Stale, Goto, At
<1>8. ASSUME NEW p \in Proc, FinalizeAnswer(p) PROVE TurnCount'
  BY <1>8 DEF FinalizeAnswer, Refused, Stale, Allowed, EndTurn, Goto, At, Free
<1>9. ASSUME NEW p \in Proc, FinalizeEvent(p) PROVE TurnCount'
  BY <1>9 DEF FinalizeEvent, Reduces, Goto, At
<1>10. ASSUME NEW p \in Proc, FinalizeDrop(p) PROVE TurnCount'
  BY <1>10 DEF FinalizeDrop, Goto, At, UnparkAll
<1>11. ASSUME NEW p \in Proc, FinalizeMeta(p) PROVE TurnCount'
  BY <1>11 DEF FinalizeMeta, EndTurn, Reduces, Goto, At
<1>12. ASSUME NEW p \in Proc, LoadRead(p) PROVE TurnCount'
  BY <1>12 DEF LoadRead, Client, At, Goto, HostGone
<1>13. ASSUME NEW p \in Proc, PersistUnknown(p) PROVE TurnCount'
  BY <1>13 DEF PersistUnknown, WritePlaceholder, Reduces, Goto, At, Free
<1>14. ASSUME NEW p \in Proc, CancelRead(p) PROVE TurnCount'
  BY <1>14 DEF CancelRead, CancelableLocally, HostGone, Client, At, Goto
<1>15. ASSUME NEW p \in Proc, CancelLocal(p) PROVE TurnCount'
  BY <1>15 DEF CancelLocal, Reduces, Goto, At, Free, Allowed
<1>16. ASSUME NEW p \in Proc, Reserve(p) PROVE TurnCount'
  BY <1>16 DEF Reserve, Reservable, Undisturbed, Client, At, Goto
<1>17. ASSUME NEW p \in Proc, AbandonReservation(p) PROVE TurnCount'
  BY <1>17 DEF AbandonReservation, Goto, At
<1>18. ASSUME NEW p \in Proc, RotateParkMeta(p) PROVE TurnCount'
  BY <1>18 DEF RotateParkMeta, Goto, At
<1>19. ASSUME NEW p \in Proc, RotateParkPrompt(p) PROVE TurnCount'
  BY <1>19 DEF RotateParkPrompt, Goto, At
<1>20. ASSUME NEW p \in Proc, RotateParkAnswer(p) PROVE TurnCount'
  BY <1>20 DEF RotateParkAnswer, Parkable, Goto, At
<1>21. ASSUME NEW p \in Proc, RotateWritePrompt(p) PROVE TurnCount'
  BY <1>21 DEF RotateWritePrompt, Goto, At
<1>22. ASSUME NEW p \in Proc, NEW direct \in BOOLEAN, RotatePublish(p, direct)
     PROVE  TurnCount'
  BY <1>22 DEF RotatePublish, Goto, At
<1>23. ASSUME NEW p \in Proc, DeliverOpen(p) PROVE TurnCount'
  BY <1>23 DEF DeliverOpen, Client, At, Goto
<1>24. ASSUME NEW p \in Proc, DeliverLock(p) PROVE TurnCount'
  BY <1>24 DEF DeliverLock, Pending, Goto, At
<1>25. ASSUME NEW p \in Proc, DeliverEmit(p) PROVE TurnCount'
  BY <1>25 DEF DeliverEmit, Goto, At
<1>26. ASSUME NEW p \in Proc, DeliverDrop(p) PROVE TurnCount'
  BY <1>26 DEF DeliverDrop, Goto, At, Free
<1>27. ASSUME NEW p \in Proc, DeleteBegin(p) PROVE TurnCount'
  BY <1>27 DEF DeleteBegin, WritePlaceholder, Reduces, Goto, Client, At, Free,
    HostGone
<1>28. ASSUME NEW p \in Proc, DeleteFiles(p) PROVE TurnCount'
  BY <1>28 DEF DeleteFiles, Goto, At
<1>29. ASSUME NEW p \in Proc, DeleteMeta(p) PROVE TurnCount'
  BY <1>29 DEF DeleteMeta, Goto, At
<1>30. ASSUME NEW p \in Proc, DeleteRest(p) PROVE TurnCount'
  BY <1>30 DEF DeleteRest, Goto, At, UnparkAll
<1>31. ASSUME NEW p \in Proc, WriteTombstone(p) PROVE TurnCount'
  BY <1>31 DEF WriteTombstone, Goto, At, Leave
<1>32. ASSUME NEW p \in Proc, Crash(p) PROVE TurnCount'
  BY <1>32 DEF Crash, Goto
<1>33. ASSUME NEW p \in Proc, AppendEvent(p) \/ SendSteer(p) \/ RecordSteer(p) \/ DropSteer(p)
      PROVE  TurnCount'
  BY <1>33 DEF AppendEvent, SendSteer, RecordSteer, DropSteer, At
<1>34. ASSUME NEW p \in Proc, FollowUpRead(p) PROVE TurnCount'
  BY <1>34 DEF FollowUpRead, Client, At, Goto
<1>35. ASSUME NEW p \in Proc, FollowUpOpen(p) PROVE TurnCount'
  BY <1>35 DEF FollowUpOpen, At, Goto
<1>p. (\E p \in Proc : Proceed(p)) => TurnCount'
  BY <1>3, <1>8, <1>9, <1>10, <1>11, <1>13, <1>15, <1>18, <1>19, <1>20, <1>21,
     <1>22, <1>24, <1>25, <1>26, <1>28, <1>29, <1>30, <1>31, <1>35 DEF Proceed
<1> QED
  BY <1>p, <1>1, <1>2, <1>4, <1>5, <1>6, <1>7, <1>12, <1>14, <1>16, <1>17, <1>23,
     <1>27, <1>32, <1>33, <1>34 DEF Next

LEMMA ParkedStep ==
  ASSUME IInv, Next PROVE ParkedOutcomes'
<1> USE MaxTurnAssumption DEF IInv, TypeOK, MetaTypeOK, FilesTypeOK, ProcTypeOK, Exists,
      Active, Finished, LockHeld, SectionState, TurnCount, ParkedOutcomes, RotatePc,
      FinishPc, LockedPc, ActiveState, FinishedState, MissingState, Turn, meta, parked,
      disk, transcript, env, procs, aside
<1>1. ASSUME GraceLapses PROVE ParkedOutcomes'
  BY <1>1 DEF GraceLapses
<1>2. ASSUME NEW p \in Proc, CreateBegin(p) PROVE ParkedOutcomes'
  BY <1>2 DEF CreateBegin, Client, At, Goto, Free
<1>3. ASSUME NEW p \in Proc, CreatePublish(p) PROVE ParkedOutcomes'
  BY <1>3 DEF CreatePublish, Client, At, Goto, Leave
<1>4. ASSUME NEW p \in Proc, MarkRunning(p) PROVE ParkedOutcomes'
  BY <1>4 DEF MarkRunning, Moves, At, Free, Allowed, Undisturbed
<1>5. ASSUME NEW p \in Proc, HoldForLimit(p) PROVE ParkedOutcomes'
  BY <1>5 DEF HoldForLimit, Moves, At, Free, Allowed
<1>6. ASSUME NEW p \in Proc, ResumeAfterLimit(p) PROVE ParkedOutcomes'
  BY <1>6 DEF ResumeAfterLimit, Moves, At, Free, Allowed
<1>7. ASSUME NEW p \in Proc, NEW to \in FinishedState, FinalizeRead(p, to)
     PROVE  ParkedOutcomes'
  BY <1>7 DEF FinalizeRead, EndTurn, Outcomes, Stale, Goto, At
<1>8. ASSUME NEW p \in Proc, FinalizeAnswer(p) PROVE ParkedOutcomes'
  BY <1>8 DEF FinalizeAnswer, Refused, Stale, Allowed, EndTurn, Goto, At, Free
<1>9. ASSUME NEW p \in Proc, FinalizeEvent(p) PROVE ParkedOutcomes'
  BY <1>9 DEF FinalizeEvent, Reduces, Goto, At
<1>10. ASSUME NEW p \in Proc, FinalizeDrop(p) PROVE ParkedOutcomes'
  BY <1>10 DEF FinalizeDrop, Goto, At, UnparkAll
<1>11. ASSUME NEW p \in Proc, FinalizeMeta(p) PROVE ParkedOutcomes'
  BY <1>11 DEF FinalizeMeta, EndTurn, Reduces, Goto, At
<1>12. ASSUME NEW p \in Proc, LoadRead(p) PROVE ParkedOutcomes'
  BY <1>12 DEF LoadRead, Client, At, Goto, HostGone
<1>13. ASSUME NEW p \in Proc, PersistUnknown(p) PROVE ParkedOutcomes'
  BY <1>13 DEF PersistUnknown, WritePlaceholder, Reduces, Goto, At, Free
<1>14. ASSUME NEW p \in Proc, CancelRead(p) PROVE ParkedOutcomes'
  BY <1>14 DEF CancelRead, CancelableLocally, HostGone, Client, At, Goto
<1>15. ASSUME NEW p \in Proc, CancelLocal(p) PROVE ParkedOutcomes'
  BY <1>15 DEF CancelLocal, Reduces, Goto, At, Free, Allowed
<1>16. ASSUME NEW p \in Proc, Reserve(p) PROVE ParkedOutcomes'
  BY <1>16 DEF Reserve, Reservable, Undisturbed, Client, At, Goto
<1>17. ASSUME NEW p \in Proc, AbandonReservation(p) PROVE ParkedOutcomes'
  BY <1>17 DEF AbandonReservation, Goto, At
<1>18. ASSUME NEW p \in Proc, RotateParkMeta(p) PROVE ParkedOutcomes'
  BY <1>18 DEF RotateParkMeta, Goto, At
<1>19. ASSUME NEW p \in Proc, RotateParkPrompt(p) PROVE ParkedOutcomes'
  BY <1>19 DEF RotateParkPrompt, Goto, At
<1>20. ASSUME NEW p \in Proc, RotateParkAnswer(p) PROVE ParkedOutcomes'
  BY <1>20 DEF RotateParkAnswer, Parkable, Goto, At
<1>21. ASSUME NEW p \in Proc, RotateWritePrompt(p) PROVE ParkedOutcomes'
  BY <1>21 DEF RotateWritePrompt, Goto, At
<1>22. ASSUME NEW p \in Proc, NEW direct \in BOOLEAN, RotatePublish(p, direct)
     PROVE  ParkedOutcomes'
  BY <1>22 DEF RotatePublish, Goto, At
<1>23. ASSUME NEW p \in Proc, DeliverOpen(p) PROVE ParkedOutcomes'
  BY <1>23 DEF DeliverOpen, Client, At, Goto
<1>24. ASSUME NEW p \in Proc, DeliverLock(p) PROVE ParkedOutcomes'
  BY <1>24 DEF DeliverLock, Pending, Goto, At
<1>25. ASSUME NEW p \in Proc, DeliverEmit(p) PROVE ParkedOutcomes'
  BY <1>25 DEF DeliverEmit, Goto, At
<1>26. ASSUME NEW p \in Proc, DeliverDrop(p) PROVE ParkedOutcomes'
  BY <1>26 DEF DeliverDrop, Goto, At, Free
<1>27. ASSUME NEW p \in Proc, DeleteBegin(p) PROVE ParkedOutcomes'
  BY <1>27 DEF DeleteBegin, WritePlaceholder, Reduces, Goto, Client, At, Free,
    HostGone
<1>28. ASSUME NEW p \in Proc, DeleteFiles(p) PROVE ParkedOutcomes'
  BY <1>28 DEF DeleteFiles, Goto, At
<1>29. ASSUME NEW p \in Proc, DeleteMeta(p) PROVE ParkedOutcomes'
  BY <1>29 DEF DeleteMeta, Goto, At
<1>30. ASSUME NEW p \in Proc, DeleteRest(p) PROVE ParkedOutcomes'
  BY <1>30 DEF DeleteRest, Goto, At, UnparkAll
<1>31. ASSUME NEW p \in Proc, WriteTombstone(p) PROVE ParkedOutcomes'
  BY <1>31 DEF WriteTombstone, Goto, At, Leave
<1>32. ASSUME NEW p \in Proc, Crash(p) PROVE ParkedOutcomes'
  BY <1>32 DEF Crash, Goto
<1>33. ASSUME NEW p \in Proc, AppendEvent(p) \/ SendSteer(p) \/ RecordSteer(p) \/ DropSteer(p)
      PROVE  ParkedOutcomes'
  BY <1>33 DEF AppendEvent, SendSteer, RecordSteer, DropSteer, At
<1>34. ASSUME NEW p \in Proc, FollowUpRead(p) PROVE ParkedOutcomes'
  BY <1>34 DEF FollowUpRead, Client, At, Goto
<1>35. ASSUME NEW p \in Proc, FollowUpOpen(p) PROVE ParkedOutcomes'
  BY <1>35 DEF FollowUpOpen, At, Goto
<1>p. (\E p \in Proc : Proceed(p)) => ParkedOutcomes'
  BY <1>3, <1>8, <1>9, <1>10, <1>11, <1>13, <1>15, <1>18, <1>19, <1>20, <1>21,
     <1>22, <1>24, <1>25, <1>26, <1>28, <1>29, <1>30, <1>31, <1>35 DEF Proceed
<1> QED
  BY <1>p, <1>1, <1>2, <1>4, <1>5, <1>6, <1>7, <1>12, <1>14, <1>16, <1>17, <1>23,
     <1>27, <1>32, <1>33, <1>34 DEF Next

LEMMA StepIInv == IInv /\ [Next]_vars => IInv'
<1> SUFFICES ASSUME IInv, [Next]_vars PROVE IInv'
  OBVIOUS
<1>1. CASE Next
  BY <1>1, MetaTypeStep, FilesTypeStep, ProcTypeStep, LockStep, SectionStep, CountStep,
    ParkedStep DEF IInv, TypeOK
<1>2. CASE UNCHANGED vars
  BY <1>2 DEF vars, disk, transcript, meta, parked, env, procs, aside, IInv, TypeOK, MetaTypeOK,
    FilesTypeOK, ProcTypeOK, LockHeld, SectionState, TurnCount, ParkedOutcomes, Exists,
    Active, Finished
<1> QED BY <1>1, <1>2

THEOREM Invariant == Spec => []IInv
BY InitIInv, StepIInv, PTL DEF Spec

\* The types, for any number of processes and turns: every state a session can
\* get into, crashes included, is one of those the files can record.
THEOREM TypeCorrect == Spec => []TypeOK
BY Invariant, PTL DEF IInv

-----------------------------------------------------------------------------
(* The refinement.                                                         *)

LEMMA InitRefines == Init => Ledger!LedgerInit
BY DEF Init, Ledger!LedgerInit, Ledger!Blank, Report, Exists, Finished, FinishedState,
  MissingState, Turn

\* Each step is a step of the ledger or leaves it alone.
\* Ending the active turn is the ledger's Close.
LEMMA EndsTurn ==
  ASSUME IInv, Active, status' \in FinishedState, UNCHANGED <<turns, parkedMeta>>
  PROVE  Ledger!Close
<1> DEFINE R == [n \in Turn |-> Report(n)]
<1>1. turns \in Turn
  BY TurnsType
<1>2. status \in Ledger!Working /\ status' \in Ledger!Outcome
  BY DEF Active, ActiveState, FinishedState, Ledger!Working, Ledger!Outcome
<1>3. R' = [R EXCEPT ![turns] = status']
  <2>1. ASSUME NEW n \in Turn
        PROVE  Report(n)' = IF n = turns THEN status' ELSE Report(n)
    BY <1>1, MaxTurnAssumption DEF Report, Exists, Finished, Active, ActiveState,
      FinishedState, MissingState, Turn
  <2> QED BY <1>1, <2>1
<1> QED
  BY <1>2, <1>3 DEF Ledger!Close

LEMMA StepRefines ==
  ASSUME IInv, Next PROVE [Ledger!LedgerNext]_(Ledger!ledger)
<1> USE MaxTurnAssumption DEF IInv, TypeOK, MetaTypeOK, FilesTypeOK, ProcTypeOK, Exists,
      Active, Finished, LockHeld, SectionState, TurnCount, ParkedOutcomes, RotatePc,
      FinishPc, LockedPc, ActiveState, FinishedState, MissingState, Turn, meta, parked,
      disk, transcript, env, procs, aside, Report, Ledger!LedgerNext, Ledger!ledger, Ledger!Open,
      Ledger!Work, Ledger!Close, Ledger!Reopen, Ledger!Remove, Ledger!Outcome,
      Ledger!Working, Ledger!Blank
<1>1. ASSUME GraceLapses PROVE [Ledger!LedgerNext]_(Ledger!ledger)
  BY <1>1 DEF GraceLapses
<1>2. ASSUME NEW p \in Proc, CreateBegin(p) PROVE [Ledger!LedgerNext]_(Ledger!ledger)
  BY <1>2 DEF CreateBegin, Client, At, Goto, Free
<1>3. ASSUME NEW p \in Proc, CreatePublish(p) PROVE [Ledger!LedgerNext]_(Ledger!ledger)
  BY <1>3 DEF CreatePublish, Client, At, Goto, Leave
<1>4. ASSUME NEW p \in Proc, MarkRunning(p) PROVE [Ledger!LedgerNext]_(Ledger!ledger)
  BY <1>4 DEF MarkRunning, Moves, At, Free, Allowed
<1>5. ASSUME NEW p \in Proc, HoldForLimit(p) PROVE [Ledger!LedgerNext]_(Ledger!ledger)
  BY <1>5 DEF HoldForLimit, Moves, At, Free, Allowed
<1>6. ASSUME NEW p \in Proc, ResumeAfterLimit(p) PROVE [Ledger!LedgerNext]_(Ledger!ledger)
  BY <1>6 DEF ResumeAfterLimit, Moves, At, Free, Allowed
<1>7. ASSUME NEW p \in Proc, NEW to \in FinishedState, FinalizeRead(p, to)
     PROVE  [Ledger!LedgerNext]_(Ledger!ledger)
  BY <1>7 DEF FinalizeRead, EndTurn, Outcomes, Stale, Goto, At
<1>8. ASSUME NEW p \in Proc, FinalizeAnswer(p) PROVE [Ledger!LedgerNext]_(Ledger!ledger)
  BY <1>8 DEF FinalizeAnswer, Refused, Stale, Allowed, EndTurn, Goto, At, Free
<1>9. ASSUME NEW p \in Proc, FinalizeEvent(p) PROVE [Ledger!LedgerNext]_(Ledger!ledger)
  BY <1>9 DEF FinalizeEvent, Reduces, Goto, At
<1>10. ASSUME NEW p \in Proc, FinalizeDrop(p) PROVE [Ledger!LedgerNext]_(Ledger!ledger)
  BY <1>10 DEF FinalizeDrop, Goto, At, UnparkAll
<1>11. ASSUME NEW p \in Proc, FinalizeMeta(p) PROVE [Ledger!LedgerNext]_(Ledger!ledger)
  <2>1. Active /\ status' \in FinishedState /\ UNCHANGED <<turns, parkedMeta>>
    BY <1>11 DEF FinalizeMeta, At
  <2> QED BY <2>1, EndsTurn
<1>12. ASSUME NEW p \in Proc, LoadRead(p) PROVE [Ledger!LedgerNext]_(Ledger!ledger)
  BY <1>12 DEF LoadRead, Client, At, Goto
<1>13. ASSUME NEW p \in Proc, PersistUnknown(p) PROVE [Ledger!LedgerNext]_(Ledger!ledger)
  BY <1>13 DEF PersistUnknown, WritePlaceholder, Reduces, Goto, At, Free
<1>14. ASSUME NEW p \in Proc, CancelRead(p) PROVE [Ledger!LedgerNext]_(Ledger!ledger)
  BY <1>14 DEF CancelRead, CancelableLocally, Client, At, Goto
<1>15. ASSUME NEW p \in Proc, CancelLocal(p) PROVE [Ledger!LedgerNext]_(Ledger!ledger)
  <2>1. UNCHANGED <<turns, parkedMeta>>
    BY <1>15 DEF CancelLocal
  <2>2. UNCHANGED status \/ (Active /\ status' \in FinishedState)
    BY <1>15 DEF CancelLocal, Allowed
  <2>3. CASE UNCHANGED status
    BY <2>1, <2>3
  <2>4. CASE Active /\ status' \in FinishedState
    BY <2>1, <2>4, EndsTurn
  <2> QED BY <2>2, <2>3, <2>4
<1>16. ASSUME NEW p \in Proc, Reserve(p) PROVE [Ledger!LedgerNext]_(Ledger!ledger)
  BY <1>16 DEF Reserve, Reservable, Client, At, Goto
<1>17. ASSUME NEW p \in Proc, AbandonReservation(p) PROVE [Ledger!LedgerNext]_(Ledger!ledger)
  BY <1>17 DEF AbandonReservation, Goto, At
<1>18. ASSUME NEW p \in Proc, RotateParkMeta(p) PROVE [Ledger!LedgerNext]_(Ledger!ledger)
  BY <1>18 DEF RotateParkMeta, Goto, At
<1>19. ASSUME NEW p \in Proc, RotateParkPrompt(p) PROVE [Ledger!LedgerNext]_(Ledger!ledger)
  BY <1>19 DEF RotateParkPrompt, Goto, At
<1>20. ASSUME NEW p \in Proc, RotateParkAnswer(p) PROVE [Ledger!LedgerNext]_(Ledger!ledger)
  BY <1>20 DEF RotateParkAnswer, Parkable, Goto, At
<1>21. ASSUME NEW p \in Proc, RotateWritePrompt(p) PROVE [Ledger!LedgerNext]_(Ledger!ledger)
  BY <1>21 DEF RotateWritePrompt, Goto, At
<1>22. ASSUME NEW p \in Proc, NEW direct \in BOOLEAN, RotatePublish(p, direct)
     PROVE  [Ledger!LedgerNext]_(Ledger!ledger)
  BY <1>22 DEF RotatePublish, Goto, At
<1>23. ASSUME NEW p \in Proc, DeliverOpen(p) PROVE [Ledger!LedgerNext]_(Ledger!ledger)
  BY <1>23 DEF DeliverOpen, Client, At, Goto
<1>24. ASSUME NEW p \in Proc, DeliverLock(p) PROVE [Ledger!LedgerNext]_(Ledger!ledger)
  BY <1>24 DEF DeliverLock, Pending, Goto, At
<1>25. ASSUME NEW p \in Proc, DeliverEmit(p) PROVE [Ledger!LedgerNext]_(Ledger!ledger)
  BY <1>25 DEF DeliverEmit, Goto, At
<1>26. ASSUME NEW p \in Proc, DeliverDrop(p) PROVE [Ledger!LedgerNext]_(Ledger!ledger)
  BY <1>26 DEF DeliverDrop, Goto, At, Free
<1>27. ASSUME NEW p \in Proc, DeleteBegin(p) PROVE [Ledger!LedgerNext]_(Ledger!ledger)
  BY <1>27 DEF DeleteBegin, WritePlaceholder, Reduces, Goto, Client, At, Free
<1>28. ASSUME NEW p \in Proc, DeleteFiles(p) PROVE [Ledger!LedgerNext]_(Ledger!ledger)
  BY <1>28 DEF DeleteFiles, Goto, At
<1>29. ASSUME NEW p \in Proc, DeleteMeta(p) PROVE [Ledger!LedgerNext]_(Ledger!ledger)
  BY <1>29 DEF DeleteMeta, Goto, At
<1>30. ASSUME NEW p \in Proc, DeleteRest(p) PROVE [Ledger!LedgerNext]_(Ledger!ledger)
  BY <1>30 DEF DeleteRest, Goto, At, UnparkAll
<1>31. ASSUME NEW p \in Proc, WriteTombstone(p) PROVE [Ledger!LedgerNext]_(Ledger!ledger)
  BY <1>31 DEF WriteTombstone, Goto, At, Leave
<1>32. ASSUME NEW p \in Proc, Crash(p) PROVE [Ledger!LedgerNext]_(Ledger!ledger)
  BY <1>32 DEF Crash, Goto
<1>33. ASSUME NEW p \in Proc, AppendEvent(p) \/ SendSteer(p) \/ RecordSteer(p) \/ DropSteer(p)
      PROVE  [Ledger!LedgerNext]_(Ledger!ledger)
  <2>1. UNCHANGED <<status, turns, parkedMeta>>
    BY <1>33 DEF AppendEvent, SendSteer, RecordSteer, DropSteer
  <2> QED
    BY <2>1
<1>34. ASSUME NEW p \in Proc, FollowUpRead(p) PROVE [Ledger!LedgerNext]_(Ledger!ledger)
  BY <1>34 DEF FollowUpRead, Client, At, Goto
<1>35. ASSUME NEW p \in Proc, FollowUpOpen(p) PROVE [Ledger!LedgerNext]_(Ledger!ledger)
  BY <1>35 DEF FollowUpOpen, At, Goto
<1>p. (\E p \in Proc : Proceed(p)) => [Ledger!LedgerNext]_(Ledger!ledger)
  BY <1>3, <1>8, <1>9, <1>10, <1>11, <1>13, <1>15, <1>18, <1>19, <1>20, <1>21,
     <1>22, <1>24, <1>25, <1>26, <1>28, <1>29, <1>30, <1>31, <1>35 DEF Proceed
<1> QED
  BY <1>p, <1>1, <1>2, <1>4, <1>5, <1>6, <1>7, <1>12, <1>14, <1>16, <1>17, <1>23,
     <1>27, <1>32, <1>33, <1>34 DEF Next

\* The store keeps the promise of TurnLedger: one outcome for each turn, told to
\* every later reader, until the session is removed for good.
THEOREM Refinement == Spec => Implements
<1>1. IInv /\ [Next]_vars => [Ledger!LedgerNext]_(Ledger!ledger)
  <2> SUFFICES ASSUME IInv, [Next]_vars PROVE [Ledger!LedgerNext]_(Ledger!ledger)
    OBVIOUS
  <2>1. CASE Next
    BY <2>1, StepRefines
  <2>2. CASE UNCHANGED vars
    BY <2>2 DEF vars, disk, meta, parked, Ledger!ledger, Report, Exists, Finished
  <2> QED BY <2>1, <2>2
<1> QED
  BY <1>1, InitRefines, Invariant, PTL DEF Spec, Implements, Ledger!LedgerSpec

-----------------------------------------------------------------------------
(* What a session's directory may never show, for any number of processes  *)
(* and turns and in every environment: a finished one-shot session that is *)
(* still whole, a pending answer told twice, a deleted session that comes  *)
(* back.  These invariants build on IInv.                                  *)

DeliverPc == {"dlvWait", "dlvEmit", "dlvDrop"}
Over == Finished \/ status = "gone"

\* A one-shot session never parks anything, and what else it consumes is gone
\* by the time meta.json says that it is finished.
Reduced ==
    /\ oneShot => NothingParked
    /\ oneShot /\ Finished => ~retained /\ prompt = 0
    /\ \A p \in Proc : pc[p] = "finMeta" /\ oneShot => prompt = 0

\* How far a deletion is, and that nobody is left inside the session lock once
\* the marker is written.
Cleared ==
    /\ \A p \in Proc :
        /\ pc[p] \in {"delMeta", "delRest", "delTomb"} =>
              /\ prompt = 0 /\ endings = << >>
              /\ parkedPrompt = [n \in Turn |-> 0]
        /\ pc[p] = "delTomb" => answer = NoAnswer /\ NothingParked
    /\ tombstone =>
        /\ status = "gone" /\ answer = NoAnswer /\ prompt = 0
        /\ NothingParked /\ endings = << >>
        /\ \A p \in Proc : pc[p] \notin LockedPc

\* The inode's lock orders the consumers: the one that has told the answer
\* keeps it until the answer is removed, and after that nobody gets to tell it.
Consumed ==
    /\ \A p \in Proc :
        /\ pc[p] \in DeliverPc => oneShot /\ Over
        /\ pc[p] \in {"dlvEmit", "dlvDrop"} => inode = p
        /\ pc[p] = "dlvDrop" => p \in emitted
        /\ pc[p] \in FinishPc /\ oneShot => answer # NoAnswer
    /\ emitted # {} => oneShot /\ Over
    /\ oneShot /\ Finished => answer # NoAnswer \/ emitted # {}
    /\ \A p \in emitted \cap alive : pc[p] # "dlvDrop" =>
          answer = NoAnswer /\ \A q \in Proc : pc[q] \notin {"dlvEmit", "dlvDrop"}
    /\ \A p, q \in emitted \cap alive : p = q

\* The inductive invariant.
SInv == IInv /\ Reduced /\ Cleared /\ Consumed

-----------------------------------------------------------------------------
(* PROOFS                                                                  *)

\* The placeholder of an unknown turn and the empty text of a canceled one are
\* files like any other.
LEMMA PlaceholderIsAnswer ==
  ASSUME IInv, Active PROVE [turn |-> turns, real |-> FALSE] # NoAnswer
<1>1. turns # 0
  BY TurnsType, MaxTurnAssumption DEF Turn
<1> QED
  BY <1>1 DEF NoAnswer

\* No step leaves a finished one-shot session whole.
LEMMA ReducedStep ==
  ASSUME IInv, Reduced, Next PROVE Reduced'
<1> USE NoProcAssumption DEF IInv, TypeOK, ProcTypeOK, Exists, Active, Finished,
      LockHeld, SectionState, RotatePc, FinishPc, LockedPc, OpenPc, ActiveState,
      FinishedState, MissingState, meta, parked, disk, transcript, env, procs, aside, Reduced, NothingParked
<1>1. ASSUME GraceLapses PROVE Reduced'
  BY <1>1 DEF GraceLapses
<1>2. ASSUME NEW p \in Proc, CreateBegin(p) PROVE Reduced'
  BY <1>2 DEF CreateBegin, Client, At, Goto, Free
<1>3. ASSUME NEW p \in Proc, CreatePublish(p) PROVE Reduced'
  BY <1>3 DEF CreatePublish, Client, At, Goto, Leave
<1>4. ASSUME NEW p \in Proc, MarkRunning(p) PROVE Reduced'
  BY <1>4 DEF MarkRunning, Moves, At, Free, Allowed, Undisturbed
<1>5. ASSUME NEW p \in Proc, HoldForLimit(p) PROVE Reduced'
  BY <1>5 DEF HoldForLimit, Moves, At, Free, Allowed
<1>6. ASSUME NEW p \in Proc, ResumeAfterLimit(p) PROVE Reduced'
  BY <1>6 DEF ResumeAfterLimit, Moves, At, Free, Allowed
<1>7. ASSUME NEW p \in Proc, NEW to \in FinishedState, FinalizeRead(p, to)
     PROVE  Reduced'
  BY <1>7 DEF FinalizeRead, EndTurn, Outcomes, Stale, Goto, At
<1>8. ASSUME NEW p \in Proc, FinalizeAnswer(p) PROVE Reduced'
  BY <1>8 DEF FinalizeAnswer, Refused, Stale, Allowed, EndTurn, Goto, At, Free
<1>9. ASSUME NEW p \in Proc, FinalizeEvent(p) PROVE Reduced'
  BY <1>9 DEF FinalizeEvent, Reduces, Goto, At
<1>10. ASSUME NEW p \in Proc, FinalizeDrop(p) PROVE Reduced'
  BY <1>10 DEF FinalizeDrop, Goto, At, UnparkAll
<1>11. ASSUME NEW p \in Proc, FinalizeMeta(p) PROVE Reduced'
  BY <1>11 DEF FinalizeMeta, EndTurn, Reduces, Goto, At
<1>12. ASSUME NEW p \in Proc, LoadRead(p) PROVE Reduced'
  BY <1>12 DEF LoadRead, Client, At, Goto, HostGone
<1>13. ASSUME NEW p \in Proc, PersistUnknown(p) PROVE Reduced'
  BY <1>13 DEF PersistUnknown, WritePlaceholder, Reduces, Goto, At, Free
<1>14. ASSUME NEW p \in Proc, CancelRead(p) PROVE Reduced'
  BY <1>14 DEF CancelRead, CancelableLocally, HostGone, Client, At, Goto
<1>15. ASSUME NEW p \in Proc, CancelLocal(p) PROVE Reduced'
  BY <1>15 DEF CancelLocal, Reduces, Goto, At, Free, Allowed
<1>16. ASSUME NEW p \in Proc, Reserve(p) PROVE Reduced'
  BY <1>16 DEF Reserve, Reservable, Undisturbed, Client, At, Goto
<1>17. ASSUME NEW p \in Proc, AbandonReservation(p) PROVE Reduced'
  BY <1>17 DEF AbandonReservation, Goto, At
<1>18. ASSUME NEW p \in Proc, RotateParkMeta(p) PROVE Reduced'
  BY <1>18 DEF RotateParkMeta, Goto, At
<1>19. ASSUME NEW p \in Proc, RotateParkPrompt(p) PROVE Reduced'
  BY <1>19 DEF RotateParkPrompt, Goto, At
<1>20. ASSUME NEW p \in Proc, RotateParkAnswer(p) PROVE Reduced'
  BY <1>20 DEF RotateParkAnswer, Parkable, Goto, At
<1>21. ASSUME NEW p \in Proc, RotateWritePrompt(p) PROVE Reduced'
  BY <1>21 DEF RotateWritePrompt, Goto, At
<1>22. ASSUME NEW p \in Proc, NEW direct \in BOOLEAN, RotatePublish(p, direct)
     PROVE  Reduced'
  BY <1>22 DEF RotatePublish, Goto, At
<1>23. ASSUME NEW p \in Proc, DeliverOpen(p) PROVE Reduced'
  BY <1>23 DEF DeliverOpen, Client, At, Goto
<1>24. ASSUME NEW p \in Proc, DeliverLock(p) PROVE Reduced'
  BY <1>24 DEF DeliverLock, Pending, Goto, At
<1>25. ASSUME NEW p \in Proc, DeliverEmit(p) PROVE Reduced'
  BY <1>25 DEF DeliverEmit, Goto, At
<1>26. ASSUME NEW p \in Proc, DeliverDrop(p) PROVE Reduced'
  BY <1>26 DEF DeliverDrop, Goto, At, Free
<1>27. ASSUME NEW p \in Proc, DeleteBegin(p) PROVE Reduced'
  BY <1>27 DEF DeleteBegin, WritePlaceholder, Reduces, Goto, Client, At, Free, HostGone
<1>28. ASSUME NEW p \in Proc, DeleteFiles(p) PROVE Reduced'
  BY <1>28 DEF DeleteFiles, Goto, At
<1>29. ASSUME NEW p \in Proc, DeleteMeta(p) PROVE Reduced'
  BY <1>29 DEF DeleteMeta, Goto, At
<1>30. ASSUME NEW p \in Proc, DeleteRest(p) PROVE Reduced'
  BY <1>30 DEF DeleteRest, Goto, At, UnparkAll
<1>31. ASSUME NEW p \in Proc, WriteTombstone(p) PROVE Reduced'
  BY <1>31 DEF WriteTombstone, Goto, At, Leave
<1>32. ASSUME NEW p \in Proc, Crash(p) PROVE Reduced'
  BY <1>32 DEF Crash, Goto
<1>33. ASSUME NEW p \in Proc, AppendEvent(p) \/ SendSteer(p) \/ RecordSteer(p) \/ DropSteer(p)
      PROVE  Reduced'
  BY <1>33 DEF AppendEvent, SendSteer, RecordSteer, DropSteer, At
<1>34. ASSUME NEW p \in Proc, FollowUpRead(p) PROVE Reduced'
  BY <1>34 DEF FollowUpRead, Client, At, Goto
<1>35. ASSUME NEW p \in Proc, FollowUpOpen(p) PROVE Reduced'
  BY <1>35 DEF FollowUpOpen, At, Goto
<1>p. (\E p \in Proc : Proceed(p)) => Reduced'
  BY <1>3, <1>8, <1>9, <1>10, <1>11, <1>13, <1>15, <1>18, <1>19, <1>20, <1>21,
     <1>22, <1>24, <1>25, <1>26, <1>28, <1>29, <1>30, <1>31, <1>35 DEF Proceed
<1> QED
  BY <1>p, <1>1, <1>2, <1>4, <1>5, <1>6, <1>7, <1>12, <1>14, <1>16, <1>17, <1>23,
     <1>27, <1>32, <1>33, <1>34 DEF Next

\* No step writes into a session that is being deleted, or was.
LEMMA ClearedStep ==
  ASSUME IInv, Cleared, Next PROVE Cleared'
<1> USE NoProcAssumption DEF IInv, TypeOK, ProcTypeOK, Exists, Active, Finished,
      LockHeld, SectionState, RotatePc, FinishPc, LockedPc, OpenPc, ActiveState,
      FinishedState, MissingState, meta, parked, disk, transcript, env, procs, aside, Cleared, NothingParked
<1>1. ASSUME GraceLapses PROVE Cleared'
  BY <1>1 DEF GraceLapses
<1>2. ASSUME NEW p \in Proc, CreateBegin(p) PROVE Cleared'
  BY <1>2 DEF CreateBegin, Client, At, Goto, Free
<1>3. ASSUME NEW p \in Proc, CreatePublish(p) PROVE Cleared'
  BY <1>3 DEF CreatePublish, Client, At, Goto, Leave
<1>4. ASSUME NEW p \in Proc, MarkRunning(p) PROVE Cleared'
  BY <1>4 DEF MarkRunning, Moves, At, Free, Allowed, Undisturbed
<1>5. ASSUME NEW p \in Proc, HoldForLimit(p) PROVE Cleared'
  BY <1>5 DEF HoldForLimit, Moves, At, Free, Allowed
<1>6. ASSUME NEW p \in Proc, ResumeAfterLimit(p) PROVE Cleared'
  BY <1>6 DEF ResumeAfterLimit, Moves, At, Free, Allowed
<1>7. ASSUME NEW p \in Proc, NEW to \in FinishedState, FinalizeRead(p, to)
     PROVE  Cleared'
  BY <1>7 DEF FinalizeRead, EndTurn, Outcomes, Stale, Goto, At
<1>8. ASSUME NEW p \in Proc, FinalizeAnswer(p) PROVE Cleared'
  BY <1>8 DEF FinalizeAnswer, Refused, Stale, Allowed, EndTurn, Goto, At, Free
<1>9. ASSUME NEW p \in Proc, FinalizeEvent(p) PROVE Cleared'
  BY <1>9 DEF FinalizeEvent, Reduces, Goto, At
<1>10. ASSUME NEW p \in Proc, FinalizeDrop(p) PROVE Cleared'
  BY <1>10 DEF FinalizeDrop, Goto, At, UnparkAll
<1>11. ASSUME NEW p \in Proc, FinalizeMeta(p) PROVE Cleared'
  BY <1>11 DEF FinalizeMeta, EndTurn, Reduces, Goto, At
<1>12. ASSUME NEW p \in Proc, LoadRead(p) PROVE Cleared'
  BY <1>12 DEF LoadRead, Client, At, Goto, HostGone
<1>13. ASSUME NEW p \in Proc, PersistUnknown(p) PROVE Cleared'
  BY <1>13 DEF PersistUnknown, WritePlaceholder, Reduces, Goto, At, Free
<1>14. ASSUME NEW p \in Proc, CancelRead(p) PROVE Cleared'
  BY <1>14 DEF CancelRead, CancelableLocally, HostGone, Client, At, Goto
<1>15. ASSUME NEW p \in Proc, CancelLocal(p) PROVE Cleared'
  BY <1>15 DEF CancelLocal, Reduces, Goto, At, Free, Allowed
<1>16. ASSUME NEW p \in Proc, Reserve(p) PROVE Cleared'
  BY <1>16 DEF Reserve, Reservable, Undisturbed, Client, At, Goto
<1>17. ASSUME NEW p \in Proc, AbandonReservation(p) PROVE Cleared'
  BY <1>17 DEF AbandonReservation, Goto, At
<1>18. ASSUME NEW p \in Proc, RotateParkMeta(p) PROVE Cleared'
  BY <1>18 DEF RotateParkMeta, Goto, At
<1>19. ASSUME NEW p \in Proc, RotateParkPrompt(p) PROVE Cleared'
  BY <1>19 DEF RotateParkPrompt, Goto, At
<1>20. ASSUME NEW p \in Proc, RotateParkAnswer(p) PROVE Cleared'
  BY <1>20 DEF RotateParkAnswer, Parkable, Goto, At
<1>21. ASSUME NEW p \in Proc, RotateWritePrompt(p) PROVE Cleared'
  BY <1>21 DEF RotateWritePrompt, Goto, At
<1>22. ASSUME NEW p \in Proc, NEW direct \in BOOLEAN, RotatePublish(p, direct)
     PROVE  Cleared'
  BY <1>22 DEF RotatePublish, Goto, At
<1>23. ASSUME NEW p \in Proc, DeliverOpen(p) PROVE Cleared'
  BY <1>23 DEF DeliverOpen, Client, At, Goto
<1>24. ASSUME NEW p \in Proc, DeliverLock(p) PROVE Cleared'
  BY <1>24 DEF DeliverLock, Pending, Goto, At
<1>25. ASSUME NEW p \in Proc, DeliverEmit(p) PROVE Cleared'
  BY <1>25 DEF DeliverEmit, Goto, At
<1>26. ASSUME NEW p \in Proc, DeliverDrop(p) PROVE Cleared'
  BY <1>26 DEF DeliverDrop, Goto, At, Free
<1>27. ASSUME NEW p \in Proc, DeleteBegin(p) PROVE Cleared'
  BY <1>27 DEF DeleteBegin, WritePlaceholder, Reduces, Goto, Client, At, Free, HostGone
<1>28. ASSUME NEW p \in Proc, DeleteFiles(p) PROVE Cleared'
  BY <1>28 DEF DeleteFiles, Goto, At
<1>29. ASSUME NEW p \in Proc, DeleteMeta(p) PROVE Cleared'
  BY <1>29 DEF DeleteMeta, Goto, At
<1>30. ASSUME NEW p \in Proc, DeleteRest(p) PROVE Cleared'
  BY <1>30 DEF DeleteRest, Goto, At, UnparkAll
<1>31. ASSUME NEW p \in Proc, WriteTombstone(p) PROVE Cleared'
  BY <1>31 DEF WriteTombstone, Goto, At, Leave
<1>32. ASSUME NEW p \in Proc, Crash(p) PROVE Cleared'
  BY <1>32 DEF Crash, Goto
<1>33. ASSUME NEW p \in Proc, AppendEvent(p) \/ SendSteer(p) \/ RecordSteer(p) \/ DropSteer(p)
      PROVE  Cleared'
  BY <1>33 DEF AppendEvent, SendSteer, RecordSteer, DropSteer, At
<1>34. ASSUME NEW p \in Proc, FollowUpRead(p) PROVE Cleared'
  BY <1>34 DEF FollowUpRead, Client, At, Goto
<1>35. ASSUME NEW p \in Proc, FollowUpOpen(p) PROVE Cleared'
  BY <1>35 DEF FollowUpOpen, At, Goto
<1>p. (\E p \in Proc : Proceed(p)) => Cleared'
  BY <1>3, <1>8, <1>9, <1>10, <1>11, <1>13, <1>15, <1>18, <1>19, <1>20, <1>21,
     <1>22, <1>24, <1>25, <1>26, <1>28, <1>29, <1>30, <1>31, <1>35 DEF Proceed
<1> QED
  BY <1>p, <1>1, <1>2, <1>4, <1>5, <1>6, <1>7, <1>12, <1>14, <1>16, <1>17, <1>23,
     <1>27, <1>32, <1>33, <1>34 DEF Next

\* No step lets a second consumer tell the answer.
LEMMA ConsumedStep ==
  ASSUME IInv, Consumed, Next PROVE Consumed'
<1> USE NoProcAssumption DEF IInv, TypeOK, ProcTypeOK, Exists, Active, Finished,
      LockHeld, SectionState, RotatePc, FinishPc, LockedPc, OpenPc, ActiveState,
      FinishedState, MissingState, meta, parked, disk, transcript, env, procs, aside, Consumed, Over, DeliverPc
<1>1. ASSUME GraceLapses PROVE Consumed'
  BY <1>1 DEF GraceLapses
<1>2. ASSUME NEW p \in Proc, CreateBegin(p) PROVE Consumed'
  BY <1>2 DEF CreateBegin, Client, At, Goto, Free
<1>3. ASSUME NEW p \in Proc, CreatePublish(p) PROVE Consumed'
  BY <1>3 DEF CreatePublish, Client, At, Goto, Leave
<1>4. ASSUME NEW p \in Proc, MarkRunning(p) PROVE Consumed'
  BY <1>4 DEF MarkRunning, Moves, At, Free, Allowed, Undisturbed
<1>5. ASSUME NEW p \in Proc, HoldForLimit(p) PROVE Consumed'
  BY <1>5 DEF HoldForLimit, Moves, At, Free, Allowed
<1>6. ASSUME NEW p \in Proc, ResumeAfterLimit(p) PROVE Consumed'
  BY <1>6 DEF ResumeAfterLimit, Moves, At, Free, Allowed
<1>7. ASSUME NEW p \in Proc, NEW to \in FinishedState, FinalizeRead(p, to)
     PROVE  Consumed'
  BY <1>7 DEF FinalizeRead, EndTurn, Outcomes, Stale, Goto, At
<1>8. ASSUME NEW p \in Proc, FinalizeAnswer(p) PROVE Consumed'
  BY <1>8 DEF FinalizeAnswer, Refused, Stale, Allowed, EndTurn, Goto, At, Free, NoAnswer
<1>9. ASSUME NEW p \in Proc, FinalizeEvent(p) PROVE Consumed'
  BY <1>9 DEF FinalizeEvent, Reduces, Goto, At
<1>10. ASSUME NEW p \in Proc, FinalizeDrop(p) PROVE Consumed'
  BY <1>10 DEF FinalizeDrop, Goto, At, UnparkAll
<1>11. ASSUME NEW p \in Proc, FinalizeMeta(p) PROVE Consumed'
  BY <1>11 DEF FinalizeMeta, EndTurn, Reduces, Goto, At
<1>12. ASSUME NEW p \in Proc, LoadRead(p) PROVE Consumed'
  BY <1>12 DEF LoadRead, Client, At, Goto, HostGone
<1>13. ASSUME NEW p \in Proc, PersistUnknown(p) PROVE Consumed'
  <2>1. Active => [turn |-> turns, real |-> FALSE] # NoAnswer
    BY PlaceholderIsAnswer
  <2> QED
    BY <1>13, <2>1 DEF PersistUnknown, WritePlaceholder, Reduces, Goto, At, Free
<1>14. ASSUME NEW p \in Proc, CancelRead(p) PROVE Consumed'
  BY <1>14 DEF CancelRead, CancelableLocally, HostGone, Client, At, Goto
<1>15. ASSUME NEW p \in Proc, CancelLocal(p) PROVE Consumed'
  <2>1. Active => [turn |-> turns, real |-> FALSE] # NoAnswer
    BY PlaceholderIsAnswer
  <2> QED
    BY <1>15, <2>1 DEF CancelLocal, Reduces, Goto, At, Free, Allowed
<1>16. ASSUME NEW p \in Proc, Reserve(p) PROVE Consumed'
  BY <1>16 DEF Reserve, Reservable, Undisturbed, Client, At, Goto
<1>17. ASSUME NEW p \in Proc, AbandonReservation(p) PROVE Consumed'
  BY <1>17 DEF AbandonReservation, Goto, At
<1>18. ASSUME NEW p \in Proc, RotateParkMeta(p) PROVE Consumed'
  BY <1>18 DEF RotateParkMeta, Goto, At
<1>19. ASSUME NEW p \in Proc, RotateParkPrompt(p) PROVE Consumed'
  BY <1>19 DEF RotateParkPrompt, Goto, At
<1>20. ASSUME NEW p \in Proc, RotateParkAnswer(p) PROVE Consumed'
  BY <1>20 DEF RotateParkAnswer, Parkable, Goto, At
<1>21. ASSUME NEW p \in Proc, RotateWritePrompt(p) PROVE Consumed'
  BY <1>21 DEF RotateWritePrompt, Goto, At
<1>22. ASSUME NEW p \in Proc, NEW direct \in BOOLEAN, RotatePublish(p, direct)
     PROVE  Consumed'
  BY <1>22 DEF RotatePublish, Goto, At
<1>23. ASSUME NEW p \in Proc, DeliverOpen(p) PROVE Consumed'
  BY <1>23 DEF DeliverOpen, Client, At, Goto
<1>24. ASSUME NEW p \in Proc, DeliverLock(p) PROVE Consumed'
  BY <1>24 DEF DeliverLock, Pending, Goto, At
<1>25. ASSUME NEW p \in Proc, DeliverEmit(p) PROVE Consumed'
  BY <1>25 DEF DeliverEmit, Goto, At
<1>26. ASSUME NEW p \in Proc, DeliverDrop(p) PROVE Consumed'
  BY <1>26 DEF DeliverDrop, Goto, At, Free
<1>27. ASSUME NEW p \in Proc, DeleteBegin(p) PROVE Consumed'
  <2>1. Active => [turn |-> turns, real |-> FALSE] # NoAnswer
    BY PlaceholderIsAnswer
  <2> QED
    BY <1>27, <2>1 DEF DeleteBegin, WritePlaceholder, Reduces, Goto, Client, At, Free, HostGone
<1>28. ASSUME NEW p \in Proc, DeleteFiles(p) PROVE Consumed'
  BY <1>28 DEF DeleteFiles, Goto, At
<1>29. ASSUME NEW p \in Proc, DeleteMeta(p) PROVE Consumed'
  BY <1>29 DEF DeleteMeta, Goto, At
<1>30. ASSUME NEW p \in Proc, DeleteRest(p) PROVE Consumed'
  BY <1>30 DEF DeleteRest, Goto, At, UnparkAll
<1>31. ASSUME NEW p \in Proc, WriteTombstone(p) PROVE Consumed'
  BY <1>31 DEF WriteTombstone, Goto, At, Leave
<1>32. ASSUME NEW p \in Proc, Crash(p) PROVE Consumed'
  BY <1>32 DEF Crash, Goto
<1>33. ASSUME NEW p \in Proc, AppendEvent(p) \/ SendSteer(p) \/ RecordSteer(p) \/ DropSteer(p)
      PROVE  Consumed'
  BY <1>33 DEF AppendEvent, SendSteer, RecordSteer, DropSteer, At
<1>34. ASSUME NEW p \in Proc, FollowUpRead(p) PROVE Consumed'
  BY <1>34 DEF FollowUpRead, Client, At, Goto
<1>35. ASSUME NEW p \in Proc, FollowUpOpen(p) PROVE Consumed'
  BY <1>35 DEF FollowUpOpen, At, Goto
<1>p. (\E p \in Proc : Proceed(p)) => Consumed'
  BY <1>3, <1>8, <1>9, <1>10, <1>11, <1>13, <1>15, <1>18, <1>19, <1>20, <1>21,
     <1>22, <1>24, <1>25, <1>26, <1>28, <1>29, <1>30, <1>31, <1>35 DEF Proceed
<1> QED
  BY <1>p, <1>1, <1>2, <1>4, <1>5, <1>6, <1>7, <1>12, <1>14, <1>16, <1>17, <1>23,
     <1>27, <1>32, <1>33, <1>34 DEF Next

LEMMA SafetyInit == Init => SInv
<1> SUFFICES ASSUME Init PROVE SInv
  OBVIOUS
<1>1. IInv
  BY InitIInv
<1>2. Reduced /\ Cleared /\ Consumed
  BY DEF Init, Reduced, Cleared, Consumed, NothingParked, Over, DeliverPc, FinishPc,
    LockedPc, Finished, FinishedState
<1> QED
  BY <1>1, <1>2 DEF SInv

LEMMA SafetyStep == SInv /\ [Next]_vars => SInv'
<1> SUFFICES ASSUME SInv, [Next]_vars PROVE SInv'
  OBVIOUS
<1>1. CASE Next
  <2>1. IInv'
    BY <1>1, StepIInv DEF SInv
  <2> QED
    BY <1>1, <2>1, ReducedStep, ClearedStep, ConsumedStep DEF SInv
<1>2. CASE UNCHANGED vars
  <2>1. IInv'
    BY <1>2, StepIInv DEF SInv
  <2>2. Reduced' /\ Cleared' /\ Consumed'
    BY <1>2 DEF SInv, Reduced, Cleared, Consumed, NothingParked, Over, DeliverPc,
      FinishPc, LockedPc, Finished, FinishedState, vars, disk, transcript, meta, parked, env, procs, aside
  <2> QED
    BY <2>1, <2>2 DEF SInv
<1> QED
  BY <1>1, <1>2

\* In every reachable state a one-shot session is reduced once it is finished,
\* a deletion has cleared what it passed, and the pending answer has one teller.
THEOREM SafetyInvariant == Spec => []SInv
<1>1. Init => SInv
  BY SafetyInit
<1>2. SInv /\ [Next]_vars => SInv'
  BY SafetyStep
<1> QED
  BY <1>1, <1>2, PTL DEF Spec

\* No reader, which takes no lock, ever finds a finished one-shot session with
\* its prompt, its parked turns or its `retained` mark: _drop_consumed_files
\* runs before meta.json says that the turn is over, whoever ends it.
THEOREM OneShotReduced == Spec => []NoWholeOneShot
<1>1. SInv => NoWholeOneShot
  BY DEF SInv, Reduced, NoWholeOneShot
<1> QED
  BY <1>1, SafetyInvariant, PTL

\* The pending answer of a one-shot session is there until it was delivered, and
\* no two consumers that live deliver it (pending_delivery).
THEOREM AnswerDeliveredOnce == Spec => []DeliveredOnce
<1>1. SInv => DeliveredOnce
  BY DEF SInv, Consumed, DeliveredOnce
<1> QED
  BY <1>1, SafetyInvariant, PTL

\* Behind the deletion marker no step writes a file of the session but its
\* transcript.
Untouched == UNCHANGED <<meta, answer, prompt, parked, endings, tombstone>>
LEMMA TombstoneStep ==
  ASSUME IInv, Cleared, tombstone, Next PROVE Untouched
<1> USE NoProcAssumption DEF Untouched, IInv, TypeOK, ProcTypeOK, Cleared, NothingParked, LockedPc,
      Exists, Active, Finished, ActiveState, FinishedState, MissingState, disk, meta,
      transcript, parked, env, procs, aside
<1>1. ASSUME GraceLapses PROVE Untouched
  BY <1>1 DEF GraceLapses
<1>2. ASSUME NEW p \in Proc, CreateBegin(p) PROVE Untouched
  BY <1>2 DEF CreateBegin, Client, At, Goto, Free
<1>3. ASSUME NEW p \in Proc, CreatePublish(p) PROVE Untouched
  BY <1>3 DEF CreatePublish, Client, At, Goto, Leave
<1>4. ASSUME NEW p \in Proc, MarkRunning(p) PROVE Untouched
  BY <1>4 DEF MarkRunning, Moves, At, Free, Allowed, Undisturbed
<1>5. ASSUME NEW p \in Proc, HoldForLimit(p) PROVE Untouched
  BY <1>5 DEF HoldForLimit, Moves, At, Free, Allowed
<1>6. ASSUME NEW p \in Proc, ResumeAfterLimit(p) PROVE Untouched
  BY <1>6 DEF ResumeAfterLimit, Moves, At, Free, Allowed
<1>7. ASSUME NEW p \in Proc, NEW to \in FinishedState, FinalizeRead(p, to)
     PROVE  Untouched
  BY <1>7 DEF FinalizeRead, EndTurn, Outcomes, Stale, Goto, At
<1>8. ASSUME NEW p \in Proc, FinalizeAnswer(p) PROVE Untouched
  BY <1>8 DEF FinalizeAnswer, Refused, Stale, Allowed, EndTurn, Goto, At, Free
<1>9. ASSUME NEW p \in Proc, FinalizeEvent(p) PROVE Untouched
  BY <1>9 DEF FinalizeEvent, Reduces, Goto, At
<1>10. ASSUME NEW p \in Proc, FinalizeDrop(p) PROVE Untouched
  BY <1>10 DEF FinalizeDrop, Goto, At, UnparkAll
<1>11. ASSUME NEW p \in Proc, FinalizeMeta(p) PROVE Untouched
  BY <1>11 DEF FinalizeMeta, EndTurn, Reduces, Goto, At
<1>12. ASSUME NEW p \in Proc, LoadRead(p) PROVE Untouched
  BY <1>12 DEF LoadRead, Client, At, Goto, HostGone
<1>13. ASSUME NEW p \in Proc, PersistUnknown(p) PROVE Untouched
  BY <1>13 DEF PersistUnknown, WritePlaceholder, Reduces, Goto, At, Free
<1>14. ASSUME NEW p \in Proc, CancelRead(p) PROVE Untouched
  BY <1>14 DEF CancelRead, CancelableLocally, HostGone, Client, At, Goto
<1>15. ASSUME NEW p \in Proc, CancelLocal(p) PROVE Untouched
  BY <1>15 DEF CancelLocal, Reduces, Goto, At, Free, Allowed
<1>16. ASSUME NEW p \in Proc, Reserve(p) PROVE Untouched
  BY <1>16 DEF Reserve, Reservable, Undisturbed, Client, At, Goto
<1>17. ASSUME NEW p \in Proc, AbandonReservation(p) PROVE Untouched
  BY <1>17 DEF AbandonReservation, Goto, At
<1>18. ASSUME NEW p \in Proc, RotateParkMeta(p) PROVE Untouched
  BY <1>18 DEF RotateParkMeta, Goto, At
<1>19. ASSUME NEW p \in Proc, RotateParkPrompt(p) PROVE Untouched
  BY <1>19 DEF RotateParkPrompt, Goto, At
<1>20. ASSUME NEW p \in Proc, RotateParkAnswer(p) PROVE Untouched
  BY <1>20 DEF RotateParkAnswer, Parkable, Goto, At
<1>21. ASSUME NEW p \in Proc, RotateWritePrompt(p) PROVE Untouched
  BY <1>21 DEF RotateWritePrompt, Goto, At
<1>22. ASSUME NEW p \in Proc, NEW direct \in BOOLEAN, RotatePublish(p, direct)
     PROVE  Untouched
  BY <1>22 DEF RotatePublish, Goto, At
<1>23. ASSUME NEW p \in Proc, DeliverOpen(p) PROVE Untouched
  BY <1>23 DEF DeliverOpen, Client, At, Goto
<1>24. ASSUME NEW p \in Proc, DeliverLock(p) PROVE Untouched
  BY <1>24 DEF DeliverLock, Pending, Goto, At
<1>25. ASSUME NEW p \in Proc, DeliverEmit(p) PROVE Untouched
  BY <1>25 DEF DeliverEmit, Goto, At
<1>26. ASSUME NEW p \in Proc, DeliverDrop(p) PROVE Untouched
  BY <1>26 DEF DeliverDrop, Goto, At, Free
<1>27. ASSUME NEW p \in Proc, DeleteBegin(p) PROVE Untouched
  BY <1>27 DEF DeleteBegin, WritePlaceholder, Reduces, Goto, Client, At, Free, HostGone
<1>28. ASSUME NEW p \in Proc, DeleteFiles(p) PROVE Untouched
  BY <1>28 DEF DeleteFiles, Goto, At
<1>29. ASSUME NEW p \in Proc, DeleteMeta(p) PROVE Untouched
  BY <1>29 DEF DeleteMeta, Goto, At
<1>30. ASSUME NEW p \in Proc, DeleteRest(p) PROVE Untouched
  BY <1>30 DEF DeleteRest, Goto, At, UnparkAll
<1>31. ASSUME NEW p \in Proc, WriteTombstone(p) PROVE Untouched
  BY <1>31 DEF WriteTombstone, Goto, At, Leave
<1>32. ASSUME NEW p \in Proc, Crash(p) PROVE Untouched
  BY <1>32 DEF Crash, Goto
<1>33. ASSUME NEW p \in Proc, AppendEvent(p) \/ SendSteer(p) \/ RecordSteer(p) \/ DropSteer(p)
      PROVE  Untouched
  BY <1>33 DEF AppendEvent, SendSteer, RecordSteer, DropSteer, At
<1>34. ASSUME NEW p \in Proc, FollowUpRead(p) PROVE Untouched
  BY <1>34 DEF FollowUpRead, Client, At, Goto
<1>35. ASSUME NEW p \in Proc, FollowUpOpen(p) PROVE Untouched
  BY <1>35 DEF FollowUpOpen, At, Goto
<1>p. (\E p \in Proc : Proceed(p)) => Untouched
  BY <1>3, <1>8, <1>9, <1>10, <1>11, <1>13, <1>15, <1>18, <1>19, <1>20, <1>21,
     <1>22, <1>24, <1>25, <1>26, <1>28, <1>29, <1>30, <1>31, <1>35 DEF Proceed
<1> QED
  BY <1>p, <1>1, <1>2, <1>4, <1>5, <1>6, <1>7, <1>12, <1>14, <1>16, <1>17, <1>23,
     <1>27, <1>32, <1>33, <1>34 DEF Next

\* ... and its transcript only a process that was at it before, of which there
\* will be no more.
OnlyLate ==
    /\ ~events /\ events' => \E p \in Proc : LateWriter(p)
    /\ \A p \in Proc : LateWriter(p)' => LateWriter(p)
LEMMA WriterStep ==
  ASSUME IInv, Cleared, tombstone, Next PROVE OnlyLate
<1> USE NoProcAssumption DEF OnlyLate, LateWriter, IInv, TypeOK, ProcTypeOK, Cleared, NothingParked, LockedPc,
      Exists, Active, Finished, ActiveState, FinishedState, MissingState, disk, meta,
      transcript, parked, env, procs, aside
<1>1. ASSUME GraceLapses PROVE OnlyLate
  BY <1>1 DEF GraceLapses
<1>2. ASSUME NEW p \in Proc, CreateBegin(p) PROVE OnlyLate
  BY <1>2 DEF CreateBegin, Client, At, Goto, Free
<1>3. ASSUME NEW p \in Proc, CreatePublish(p) PROVE OnlyLate
  BY <1>3 DEF CreatePublish, Client, At, Goto, Leave
<1>4. ASSUME NEW p \in Proc, MarkRunning(p) PROVE OnlyLate
  BY <1>4 DEF MarkRunning, Moves, At, Free, Allowed, Undisturbed
<1>5. ASSUME NEW p \in Proc, HoldForLimit(p) PROVE OnlyLate
  BY <1>5 DEF HoldForLimit, Moves, At, Free, Allowed
<1>6. ASSUME NEW p \in Proc, ResumeAfterLimit(p) PROVE OnlyLate
  BY <1>6 DEF ResumeAfterLimit, Moves, At, Free, Allowed
<1>7. ASSUME NEW p \in Proc, NEW to \in FinishedState, FinalizeRead(p, to)
     PROVE  OnlyLate
  BY <1>7 DEF FinalizeRead, EndTurn, Outcomes, Stale, Goto, At
<1>8. ASSUME NEW p \in Proc, FinalizeAnswer(p) PROVE OnlyLate
  BY <1>8 DEF FinalizeAnswer, Refused, Stale, Allowed, EndTurn, Goto, At, Free
<1>9. ASSUME NEW p \in Proc, FinalizeEvent(p) PROVE OnlyLate
  BY <1>9 DEF FinalizeEvent, Reduces, Goto, At
<1>10. ASSUME NEW p \in Proc, FinalizeDrop(p) PROVE OnlyLate
  BY <1>10 DEF FinalizeDrop, Goto, At, UnparkAll
<1>11. ASSUME NEW p \in Proc, FinalizeMeta(p) PROVE OnlyLate
  BY <1>11 DEF FinalizeMeta, EndTurn, Reduces, Goto, At
<1>12. ASSUME NEW p \in Proc, LoadRead(p) PROVE OnlyLate
  BY <1>12 DEF LoadRead, Client, At, Goto, HostGone
<1>13. ASSUME NEW p \in Proc, PersistUnknown(p) PROVE OnlyLate
  BY <1>13 DEF PersistUnknown, WritePlaceholder, Reduces, Goto, At, Free
<1>14. ASSUME NEW p \in Proc, CancelRead(p) PROVE OnlyLate
  BY <1>14 DEF CancelRead, CancelableLocally, HostGone, Client, At, Goto
<1>15. ASSUME NEW p \in Proc, CancelLocal(p) PROVE OnlyLate
  BY <1>15 DEF CancelLocal, Reduces, Goto, At, Free, Allowed
<1>16. ASSUME NEW p \in Proc, Reserve(p) PROVE OnlyLate
  BY <1>16 DEF Reserve, Reservable, Undisturbed, Client, At, Goto
<1>17. ASSUME NEW p \in Proc, AbandonReservation(p) PROVE OnlyLate
  BY <1>17 DEF AbandonReservation, Goto, At
<1>18. ASSUME NEW p \in Proc, RotateParkMeta(p) PROVE OnlyLate
  BY <1>18 DEF RotateParkMeta, Goto, At
<1>19. ASSUME NEW p \in Proc, RotateParkPrompt(p) PROVE OnlyLate
  BY <1>19 DEF RotateParkPrompt, Goto, At
<1>20. ASSUME NEW p \in Proc, RotateParkAnswer(p) PROVE OnlyLate
  BY <1>20 DEF RotateParkAnswer, Parkable, Goto, At
<1>21. ASSUME NEW p \in Proc, RotateWritePrompt(p) PROVE OnlyLate
  BY <1>21 DEF RotateWritePrompt, Goto, At
<1>22. ASSUME NEW p \in Proc, NEW direct \in BOOLEAN, RotatePublish(p, direct)
     PROVE  OnlyLate
  BY <1>22 DEF RotatePublish, Goto, At
<1>23. ASSUME NEW p \in Proc, DeliverOpen(p) PROVE OnlyLate
  BY <1>23 DEF DeliverOpen, Client, At, Goto
<1>24. ASSUME NEW p \in Proc, DeliverLock(p) PROVE OnlyLate
  BY <1>24 DEF DeliverLock, Pending, Goto, At
<1>25. ASSUME NEW p \in Proc, DeliverEmit(p) PROVE OnlyLate
  BY <1>25 DEF DeliverEmit, Goto, At
<1>26. ASSUME NEW p \in Proc, DeliverDrop(p) PROVE OnlyLate
  BY <1>26 DEF DeliverDrop, Goto, At, Free
<1>27. ASSUME NEW p \in Proc, DeleteBegin(p) PROVE OnlyLate
  BY <1>27 DEF DeleteBegin, WritePlaceholder, Reduces, Goto, Client, At, Free, HostGone
<1>28. ASSUME NEW p \in Proc, DeleteFiles(p) PROVE OnlyLate
  BY <1>28 DEF DeleteFiles, Goto, At
<1>29. ASSUME NEW p \in Proc, DeleteMeta(p) PROVE OnlyLate
  BY <1>29 DEF DeleteMeta, Goto, At
<1>30. ASSUME NEW p \in Proc, DeleteRest(p) PROVE OnlyLate
  BY <1>30 DEF DeleteRest, Goto, At, UnparkAll
<1>31. ASSUME NEW p \in Proc, WriteTombstone(p) PROVE OnlyLate
  BY <1>31 DEF WriteTombstone, Goto, At, Leave
<1>32. ASSUME NEW p \in Proc, Crash(p) PROVE OnlyLate
  BY <1>32 DEF Crash, Goto
<1>33. ASSUME NEW p \in Proc, AppendEvent(p) \/ SendSteer(p) \/ RecordSteer(p) \/ DropSteer(p)
      PROVE  OnlyLate
  BY <1>33 DEF AppendEvent, SendSteer, RecordSteer, DropSteer, At
<1>34. ASSUME NEW p \in Proc, FollowUpRead(p) PROVE OnlyLate
  BY <1>34 DEF FollowUpRead, Client, At, Goto
<1>35. ASSUME NEW p \in Proc, FollowUpOpen(p) PROVE OnlyLate
  BY <1>35 DEF FollowUpOpen, At, Goto
<1>p. (\E p \in Proc : Proceed(p)) => OnlyLate
  BY <1>3, <1>8, <1>9, <1>10, <1>11, <1>13, <1>15, <1>18, <1>19, <1>20, <1>21,
     <1>22, <1>24, <1>25, <1>26, <1>28, <1>29, <1>30, <1>31, <1>35 DEF Proceed
<1> QED
  BY <1>p, <1>1, <1>2, <1>4, <1>5, <1>6, <1>7, <1>12, <1>14, <1>16, <1>17, <1>23,
     <1>27, <1>32, <1>33, <1>34 DEF Next

\* No late host, verdict, cancel, rotation or consumer writes the metadata, prompts,
\* answers or endings of a deleted session again (delete_session); its transcript
\* may reappear, but only through a process that was at it without the lock when
\* the session was deleted (Transcript.append, _record_steer, _follow_up_request).
THEOREM DeletionIsFinal == Spec => DeletedForGood
<1> DEFINE Stays ==
      /\ Untouched
      /\ ~Exists /\ answer = NoAnswer /\ prompt = 0 /\ NothingParked /\ endings = << >>
      /\ OnlyLate
<1>1. SInv /\ [Next]_vars => [tombstone => Stays]_vars
  <2>1. SInv /\ tombstone /\ Next => Untouched /\ OnlyLate
    BY TombstoneStep, WriterStep DEF SInv
  <2>2. SInv /\ tombstone =>
          ~Exists /\ answer = NoAnswer /\ prompt = 0 /\ NothingParked /\ endings = << >>
    BY DEF SInv, Cleared, Exists, MissingState
  <2> QED
    BY <2>1, <2>2
<1>2. [][tombstone => Stays]_vars => DeletedForGood
  BY PTL DEF DeletedForGood, Untouched, OnlyLate
<1> QED
  BY <1>1, <1>2, SafetyInvariant, PTL DEF Spec

=============================================================================
