------------------------------ MODULE Transcript ------------------------------
(***************************************************************************)
(* transcript.ndjson of one session: hosts append to it one after another  *)
(* (SessionStore's OneDriver), any of them may be killed in the middle of  *)
(* a write or see a write fail, and `log` follows it from another process. *)
(* An event is its index.  What follows the last complete line is the tail: *)
(* nothing ("clean"), a piece of an event ("fragment"), or a whole event   *)
(* without its line end ("bare").  A write may reach the file in two parts. *)
(***************************************************************************)
EXTENDS Naturals, Sequences

CONSTANTS Hosts, Readers, MaxEvents        \* MaxEvents: bound on the events

VARIABLES
    file,       \* header, events, tail, and whether a line is damaged
    writer,     \* the _PathState of each host
    turnState,  \* meta.json: "active" or "finished"; who drives
    follower,   \* each `log --follow` or `log --wait-new`
    disturbed   \* a write failed under a host that went on, or its first part
                \* was cut off under it by a reader

tvars == <<file, writer, turnState, follower, disturbed>>

NoWriter == [pc |-> "idle", last |-> 0, truncate |-> FALSE, separator |-> FALSE]
\* Where reading starts: --since, or the end with nothing to replay.
NoFollower == [pc |-> "idle", start |-> 0, cursor |-> 0, shown |-> <<>>,
               finished |-> FALSE, end |-> 0]

Count == Len(file.events)
LastIndex == IF Count = 0 THEN 0 ELSE file.events[Count]
\* The events after `since`.
Page(since) ==
    LET Kept[k \in 0..Count] ==
            IF k = 0 THEN <<>>
            ELSE IF file.events[k] > since THEN Append(Kept[k - 1], file.events[k])
            ELSE Kept[k - 1]
    IN Kept[Count]
Parsable == file.header = "written" /\ ~file.damaged

----------------------------------------------------------------------------
\* _ensure_header: the file is created, then its header is written.
CreateFile(w) ==
    /\ writer[w].pc = "idle" /\ turnState = <<"finished", 0>> /\ file.header = "none"
    /\ file' = [file EXCEPT !.header = "empty"]
    /\ writer' = [writer EXCEPT ![w].pc = "heading"]
    /\ turnState' = <<"active", w>>
    /\ UNCHANGED <<follower, disturbed>>
WriteHeader(w) ==
    /\ writer[w].pc = "heading"
    /\ file' = [file EXCEPT !.header = "written"]
    /\ writer' = [writer EXCEPT ![w].pc = "hosting"]
    /\ UNCHANGED <<turnState, follower, disturbed>>
\* The constructor: a file it cannot parse is an error (the turn fails without
\* an event); a piece of an event at the end is cut off.
Repaired == [file EXCEPT !.tail = IF @ = "fragment" THEN "clean" ELSE @]
Forgotten == FALSE                              \* mutant: events are glued
NeedsSeparator == file.tail = "bare"
Host(w) ==
    /\ writer[w].pc = "idle" /\ turnState[1] = "finished" /\ file.header # "none"
    /\ IF Parsable
       THEN /\ file' = Repaired
            /\ writer' = [writer EXCEPT ![w] = [pc |-> "hosting", last |-> LastIndex,
                                    truncate |-> FALSE, separator |-> NeedsSeparator]]
            /\ turnState' = <<"active", w>>
       ELSE /\ writer' = [writer EXCEPT ![w].pc = "failed"]
            /\ UNCHANGED <<file, turnState>>
    /\ UNCHANGED <<follower, disturbed>>

\* append: what a read of the same process found torn is cut off first; the
\* event is written behind whatever is at the end.
Base(w) == IF writer[w].truncate /\ file.tail = "fragment" THEN Repaired ELSE file
Glues(w) == (Base(w).tail = "fragment") \/ (Base(w).tail = "bare" /\ ~writer[w].separator)
Appended(w, tail) ==
    [Base(w) EXCEPT
        !.damaged = @ \/ Glues(w),
        !.events = IF tail = "fragment" \/ Glues(w) THEN @ ELSE Append(@, writer[w].last + 1),
        !.tail = tail]
Room(w) == Count < MaxEvents /\ writer[w].last < MaxEvents
AppendEvent(w) ==
    /\ writer[w].pc = "hosting" /\ Room(w)
    /\ file' = Appended(w, "clean")
    /\ writer' = [writer EXCEPT ![w].last = @ + 1, ![w].truncate = FALSE,
                                ![w].separator = FALSE]
    /\ UNCHANGED <<turnState, follower, disturbed>>
\* The first part of a write is in the file, then the rest.
BeginWrite(w) ==
    /\ writer[w].pc = "hosting" /\ Room(w)
    /\ file' = Appended(w, "fragment")
    /\ writer' = [writer EXCEPT ![w].pc = "writing"]
    /\ UNCHANGED <<turnState, follower, disturbed>>
EndWrite(w) ==
    /\ writer[w].pc = "writing"
    /\ file' = IF file.tail = "fragment" /\ ~file.damaged
               THEN [file EXCEPT !.events = Append(@, writer[w].last + 1), !.tail = "clean"]
               ELSE [file EXCEPT !.damaged = TRUE, !.tail = "clean"]
    /\ writer' = [writer EXCEPT ![w].pc = "hosting", ![w].last = @ + 1,
                                ![w].truncate = FALSE, ![w].separator = FALSE]
    /\ UNCHANGED <<turnState, follower, disturbed>>
\* The write fails half way (a full disk) and the turn goes on.
AppendFails(w) ==
    /\ writer[w].pc = "hosting" /\ Room(w) /\ ~disturbed
    /\ file' = Appended(w, "fragment")
    /\ disturbed' = TRUE
    /\ UNCHANGED <<writer, turnState, follower>>
\* A read by the host's own process notices it in time.
ReadOwn(w) ==
    /\ writer[w].pc = "hosting" /\ Parsable
    /\ writer' = [writer EXCEPT ![w].last = LastIndex, ![w].truncate = (file.tail = "fragment"),
                                ![w].separator = NeedsSeparator]
    /\ UNCHANGED <<file, turnState, follower, disturbed>>
\* finalize_turn appends the last events and then records the state.
Finalize1(w) ==
    /\ writer[w].pc = "hosting"
    /\ writer' = [writer EXCEPT ![w] = NoWriter]
    /\ turnState' = <<"finished", w>>
    /\ UNCHANGED <<file, follower, disturbed>>
\* Killed, in the middle of a write or not; a reader finds the session unknown.
KillHost(w) ==
    /\ writer[w].pc \in {"heading", "hosting", "writing"}
    /\ \/ UNCHANGED file
       \/ /\ writer[w].pc = "hosting" /\ Room(w)
          /\ file' \in {Appended(w, "fragment"), Appended(w, "bare")}
    /\ writer' = [writer EXCEPT ![w] = NoWriter]
    /\ turnState' = <<"unknown", w>>
    /\ UNCHANGED <<follower, disturbed>>
\* _persist_unknown appends from the reader's process, then records the state.
PersistUnknown1 ==
    /\ turnState[1] = "unknown" /\ turnState' = <<"finished", turnState[2]>>
    /\ file' = IF Parsable /\ LastIndex < MaxEvents
               THEN [Repaired EXCEPT !.events = Append(@, LastIndex + 1), !.tail = "clean",
                                     !.damaged = file.tail = "bare" /\ ~NeedsSeparator]
               ELSE file
    /\ UNCHANGED <<writer, follower, disturbed>>

----------------------------------------------------------------------------
\* `log` opens the file under the session's lock and repairs it like a host.
Fails1(r) == follower' = [follower EXCEPT ![r].pc = "error"]
OpenLog(r) ==
    /\ follower[r].pc = "idle" /\ file.header # "none"
    /\ IF Parsable
       THEN /\ file' = Repaired
            /\ \E start \in 0..LastIndex :
                follower' = [follower EXCEPT ![r].pc = "reading", ![r].start = start,
                                             ![r].cursor = start]
       ELSE Fails1(r) /\ UNCHANGED file
    /\ disturbed' = (disturbed \/ \E w \in Hosts : Parsable /\ writer[w].pc = "writing")
    /\ UNCHANGED <<writer, turnState>>
\* One page of the follow: what there is, or as much as --limit and
\* --max-output leave, which ends it.
ShowPage(r) ==
    /\ follower[r].pc = "reading"
    /\ IF ~Parsable THEN Fails1(r)
       ELSE LET page == Page(follower[r].cursor) IN
            /\ page # <<>>
            /\ \E n \in 1..Len(page) :
                follower' = [follower EXCEPT ![r].shown = @ \o SubSeq(page, 1, n),
                                             ![r].cursor = page[n],
                                             ![r].finished = FALSE,
                                             ![r].pc = IF n = Len(page) THEN @ ELSE "cut"]
    /\ UNCHANGED <<file, writer, turnState, disturbed>>
\* Nothing to show: the state is looked at, and once it says finished the
\* transcript is read again before the follow ends.
LookAtState(r) ==
    /\ follower[r].pc = "reading" /\ ~follower[r].finished
    /\ Parsable /\ Page(follower[r].cursor) = <<>>
    /\ follower' = [follower EXCEPT ![r].pc = "looked"]
    /\ UNCHANGED <<file, writer, turnState, disturbed>>
RemainderNever(r) == FALSE                      \* mutant: no second look
Remainder(r) == Page(follower[r].cursor) # <<>>
SeeState(r) ==
    /\ follower[r].pc = "looked"
    /\ IF turnState[1] = "finished"
       THEN follower' = [follower EXCEPT ![r].pc = "reading", ![r].finished = TRUE,
                                         ![r].end = LastIndex]
       ELSE follower' = [follower EXCEPT ![r].pc = "reading"]
    /\ UNCHANGED <<file, writer, turnState, disturbed>>
EndFollow(r) ==
    /\ follower[r].pc = "reading" /\ follower[r].finished
    /\ Parsable /\ ~Remainder(r)
    /\ follower' = [follower EXCEPT ![r].pc = "ended"]
    /\ UNCHANGED <<file, writer, turnState, disturbed>>
TimeOut1(r) ==
    /\ follower[r].pc = "reading"
    /\ follower' = [follower EXCEPT ![r].pc = "cut"]
    /\ UNCHANGED <<file, writer, turnState, disturbed>>

----------------------------------------------------------------------------
TranscriptInit ==
    /\ file = [header |-> "none", events |-> <<>>, tail |-> "clean", damaged |-> FALSE]
    /\ writer = [w \in Hosts |-> NoWriter]
    /\ turnState = <<"finished", 0>>
    /\ follower = [r \in Readers |-> NoFollower]
    /\ disturbed = FALSE
TranscriptNext ==
    \/ \E w \in Hosts :
        \/ CreateFile(w) \/ WriteHeader(w) \/ Host(w) \/ AppendEvent(w) \/ AppendFails(w)
        \/ BeginWrite(w) \/ EndWrite(w) \/ ReadOwn(w) \/ Finalize1(w) \/ KillHost(w)
    \/ PersistUnknown1
    \/ \E r \in Readers :
        \/ OpenLog(r) \/ ShowPage(r) \/ LookAtState(r) \/ SeeState(r) \/ EndFollow(r)
        \/ TimeOut1(r)
TranscriptSpec == TranscriptInit /\ [][TranscriptNext]_tvars

----------------------------------------------------------------------------
\* Hosts may be killed at any point of a write and readers open and repair the
\* file at any time: it stays readable for the next turn, with its events
\* numbered without a gap.  Only a write that failed under a host that went on,
\* or that a reader cut in two, damages it for good.
StaysReadable ==
    /\ file.damaged => disturbed
    /\ ~disturbed => file.events = [i \in 1..Len(file.events) |-> i]

\* `log --follow` shows every event once and in order from where it began, and
\* when it ends because the session has finished it has shown all there was
\* when that was recorded, however the appends, the recording of the state,
\* a next turn and its own two reads interleave.
FollowComplete ==
    \A r \in Readers :
        /\ ~disturbed => follower[r].shown =
               [k \in 1..Len(follower[r].shown) |-> follower[r].start + k]
        /\ follower[r].pc = "ended" => follower[r].cursor >= follower[r].end
=============================================================================
