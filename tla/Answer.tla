-------------------------------- MODULE Answer --------------------------------
(***************************************************************************)
(* How the updates of one turn become the answer and the transcript        *)
(* (client.py, AcpcClient).  Text is buffered and written as one event;    *)
(* anything else that happens is a boundary, after which the answer goes   *)
(* on in a new paragraph, and the transcript says so either by an event    *)
(* between the two or by the same separator in the text.  A piece of text  *)
(* is its number; 0 is a separator.                                        *)
(***************************************************************************)
EXTENDS Naturals, Sequences, FiniteSets

CONSTANTS Tools, MaxTexts, MaxEvents2    \* bounds: pieces of text, transcript events

VARIABLES
    answer,     \* _answer_parts
    pending,    \* _PendingChunks: the type of the event and its parts
    told,       \* the transcript
    boundary,   \* _answer_boundary_pending and _transcript_boundary_pending
    tool,       \* _tool_calls
    consulted   \* a permission is being asked for; text that came meanwhile

avars == <<answer, pending, told, boundary, tool, consulted>>

Separator == 0
NothingPending == [type |-> "none", parts |-> <<>>]
Flushed == IF pending.type = "none" THEN told ELSE Append(told, pending)
Event(type) == [type |-> type, parts |-> <<>>]
\* _mark_answer_boundary
MarkedAlways(recorded) == [answer |-> TRUE, transcript |-> ~recorded]   \* mutant
Marked(recorded) ==
    [answer |-> TRUE,
     transcript |-> IF recorded \/ ~boundary.answer THEN ~recorded ELSE boundary.transcript]
Texts == Cardinality({i \in 1..Len(answer) : answer[i] # Separator})
Room2 == Len(told) < MaxEvents2

\* _buffer_chunk: another type of text, a pause, age and size all flush.
Buffer(type, parts) ==
    \/ /\ pending.type = type                   \* goes on in the same event
       /\ pending' = [pending EXCEPT !.parts = @ \o parts]
       /\ UNCHANGED told
    \/ /\ told' = Flushed                       \* begins a new one
       /\ pending' = [type |-> type, parts |-> parts]
    \/ /\ told' = Append(Flushed, [type |-> type, parts |-> parts])
       /\ pending' = NothingPending             \* too old or too long at once

----------------------------------------------------------------------------
Message ==
    /\ Texts < MaxTexts /\ Room2
    /\ LET text == <<Texts + 1>>
           separated == boundary.answer /\ answer # <<>>
           parts == IF separated THEN <<Separator>> \o text ELSE text
       IN /\ answer' = answer \o parts
          /\ Buffer("msg", IF boundary.transcript THEN parts ELSE text)
    /\ boundary' = [answer |-> FALSE, transcript |-> FALSE]
    /\ consulted' = [consulted EXCEPT !.spoken = @ \/ consulted.asking]
    /\ UNCHANGED tool
Thought ==
    /\ Room2
    /\ \/ /\ boundary' = Marked(TRUE) /\ Buffer("thought", <<>>)
       \/ boundary' = Marked(FALSE) /\ UNCHANGED <<told, pending>>      \* not a text
    /\ UNCHANGED <<answer, tool, consulted>>
\* A usage report is an event in the middle of the text and no boundary; a plan
\* and the like is a boundary and no event.
UsageReport ==
    /\ Room2
    /\ told' = Append(Flushed, Event("usage")) /\ pending' = NothingPending
    /\ UNCHANGED <<answer, boundary, tool, consulted>>
OtherUpdate ==
    /\ boundary' = Marked(FALSE)
    /\ UNCHANGED <<answer, pending, told, tool, consulted>>
\* record_external_event: a steered prompt, a resend, a limit.
External ==
    /\ Room2
    /\ told' = Append(Flushed, Event("external")) /\ pending' = NothingPending
    /\ boundary' = Marked(TRUE)
    /\ UNCHANGED <<answer, tool, consulted>>

\* tool_call and tool_call_update: the call is recorded once, when it has
\* finished; one that starts again under its id after that is another call.
FinishTool(t) ==
    /\ told' = Append(Flushed, Event("tool")) /\ pending' = NothingPending
    /\ boundary' = Marked(TRUE)
    /\ tool' = [tool EXCEPT ![t] = "finished"]
ToolCall(t) ==
    /\ Room2
    /\ \/ FinishTool(t)
       \/ /\ told' = Flushed /\ pending' = NothingPending
          /\ boundary' = Marked(FALSE)
          /\ tool' = [tool EXCEPT ![t] = "open"]
    /\ UNCHANGED <<answer, consulted>>
ToolUpdate(t) ==
    /\ Room2
    /\ \/ tool[t] # "finished" /\ FinishTool(t)
       \/ /\ boundary' = Marked(FALSE)
          /\ tool' = [tool EXCEPT ![t] = IF @ = "none" THEN "open" ELSE @]
          /\ UNCHANGED <<told, pending>>
    /\ UNCHANGED <<answer, consulted>>

\* request_permission and the client methods: the boundary is marked and the
\* text written before the policy, or a person, decides; the decision is
\* recorded after that, with whatever came in between still pending.
AskForPermission ==
    /\ ~consulted.asking /\ Room2
    /\ boundary' = Marked(TRUE)
    /\ told' = Flushed /\ pending' = NothingPending
    /\ consulted' = [consulted EXCEPT !.asking = TRUE]
    /\ UNCHANGED <<answer, tool>>
Decide1 ==
    /\ consulted.asking
    /\ told' = Append(told, Event("permission"))
    /\ consulted' = [consulted EXCEPT !.asking = FALSE]
    /\ UNCHANGED <<answer, pending, boundary, tool>>

----------------------------------------------------------------------------
AnswerInit ==
    /\ answer = <<>> /\ pending = NothingPending /\ told = <<>>
    /\ boundary = [answer |-> FALSE, transcript |-> FALSE]
    /\ tool = [t \in Tools |-> "none"]
    /\ consulted = [asking |-> FALSE, spoken |-> FALSE]
AnswerNext ==
    \/ Message \/ Thought \/ UsageReport \/ OtherUpdate \/ External
    \/ \E t \in Tools : ToolCall(t) \/ ToolUpdate(t)
    \/ AskForPermission \/ Decide1
AnswerSpec == AnswerInit /\ [][AnswerNext]_avars

----------------------------------------------------------------------------
\* What the transcript tells of the answer: its texts in order, in a new
\* paragraph after an event that marks a boundary.
Breaks == {"thought", "tool", "external", "permission"}
Joined(before, event) ==
    IF event.type = "msg"
    THEN [text |-> before.text \o (IF before.broken /\ before.text # <<>>
                                     THEN <<Separator>> ELSE <<>>) \o event.parts,
          broken |-> FALSE]
    ELSE [text |-> before.text, broken |-> before.broken \/ event.type \in Breaks]
Retold(events) ==
    LET UpTo[n \in 0..Len(events)] ==
            IF n = 0 THEN [text |-> <<>>, broken |-> FALSE]
            ELSE Joined(UpTo[n - 1], events[n])
    IN UpTo[Len(events)]

\* The answer that is stored and the transcript that is read agree: joined by
\* the events between them, the messages of the transcript are the answer, with
\* each paragraph separated exactly once, however thoughts, tools, plans, usage
\* reports and permissions interleave with the text.  Only text that arrives
\* while a person is asked for a permission is told on the wrong side of it.
TranscriptTellsAnswer == ~consulted.spoken => Retold(Flushed).text = answer
=============================================================================
