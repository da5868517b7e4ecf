-------------------------------- MODULE Usage --------------------------------
(***************************************************************************)
(* The cumulative token usage of a session (usage.py, client.py): what each *)
(* turn adds to it, over usage limits and resends, turns that end without  *)
(* a response, and turns whose process died.  Tokens are small numbers; a  *)
(* model's counters are one total and whether its parts are all known.     *)
(***************************************************************************)
EXTENDS Integers, Sequences, FiniteSets

CONSTANTS MaxTurns, MaxSends        \* bounds: turns of a session, sends of all turns

VARIABLES
    profile,    \* usage_profile of the adapter
    usage,      \* meta.usage; gaps < 0: there is none
    context,    \* the occupancy last reported, 0: unknown
    prompted,   \* the turn that runs: its AcpcClient
    spent       \* what the adapter has really consumed, and of it, in sends that
                \* a codex adapter rejected on a limit, which nobody counts

uvars == <<profile, usage, context, prompted, spent>>

Profiles == {"claude_model_usage", "grok_meta_usage", "codex_usage_updates"}
NoUsage == [gaps |-> -1, total |-> 0, parts |-> FALSE, models |-> FALSE, unaccounted |-> 0,
            drift |-> FALSE]
NoClient == [pc |-> "none", used |-> <<>>, oversize |-> FALSE, active |-> 0, gaps |-> 0,
             known |-> FALSE, response |-> "none", total |-> 0, parts |-> TRUE]

Sum2(s) == LET f[i \in 0..Len(s)] == IF i = 0 THEN 0 ELSE f[i - 1] + s[i] IN f[Len(s)]
\* _context_drops: a reading below the one before, 0 being none; and, for
\* codex, the readings that are not drops.
Before1(i) ==
    LET seen == {j \in 1..(i - 1) : prompted.used[j] > 0} IN
    IF seen = {} THEN context ELSE prompted.used[CHOOSE j \in seen : \A k \in seen : k <= j]
Drops == {i \in DOMAIN prompted.used : prompted.used[i] > 0 /\ prompted.used[i] < Before1(i)}
Counted == Sum2([i \in DOMAIN prompted.used |-> IF i \in Drops THEN 0 ELSE prompted.used[i]])

\* _apply_profile and _turn_has_gap: what the turn is known to have used.
Observed ==
    IF profile = "codex_usage_updates" THEN prompted.used # <<>> ELSE prompted.response = "usage"
TurnGap ==
    /\ ~Observed
    /\ prompted.response # "none" \/ ~prompted.known
\* accumulate_turn
Previous == IF usage.gaps < 0 THEN [NoUsage EXCEPT !.gaps = 0] ELSE usage
Added ==
    IF ~Observed THEN Previous
    ELSE LET total == IF profile = "codex_usage_updates" THEN Counted ELSE prompted.total
             parts == profile # "codex_usage_updates" /\ prompted.parts
         IN [Previous EXCEPT !.total = @ + total, !.models = TRUE,
                             !.parts = parts /\ (Previous.models => @)]
Gap == TurnGap \/ prompted.gaps > 0
Accumulated ==
    [Added EXCEPT
        !.gaps = @ + prompted.gaps + (IF TurnGap THEN 1 ELSE 0),
        !.unaccounted = @ + IF profile # "claude_model_usage" \/ Gap THEN Cardinality(Drops) ELSE 0,
        !.drift = @ \/ prompted.oversize]
Recorded ==
    IF usage.gaps < 0 /\ ~Observed /\ Drops = {} /\ Accumulated.gaps = 0 /\ ~prompted.oversize
    THEN NoUsage ELSE Accumulated
Exact(value) ==
    value.gaps = 0 /\ value.unaccounted = 0 /\ value.models /\ value.parts /\ ~value.drift

----------------------------------------------------------------------------
\* begin_prompt_send, for the first send of a turn and for each resend.
Resending == prompted.pc = "rejected"
BeginKept == [prompted EXCEPT !.pc = "sending", !.active = 0]       \* mutant
BeginSend == [prompted EXCEPT !.pc = "sending", !.active = 0, !.known = FALSE]
Sends == spent.sends
SendPrompt ==
    /\ Sends < MaxSends
    /\ \/ prompted.pc = "none" /\ spent.turns < MaxTurns
          /\ prompted' = [NoClient EXCEPT !.pc = "sending"]
          /\ spent' = [spent EXCEPT !.turns = @ + 1, !.sends = @ + 1]
       \/ Resending /\ prompted' = BeginSend /\ spent' = [spent EXCEPT !.sends = @ + 1]
    /\ UNCHANGED <<profile, usage, context>>
\* The adapter works on it: a message, a thought or a tool, ...
Work ==
    /\ prompted.pc = "sending" /\ prompted.active < 2
    /\ prompted' = [prompted EXCEPT !.active = @ + 1]
    /\ spent' = [spent EXCEPT !.tokens = @ + 1]
    /\ UNCHANGED <<profile, usage, context>>
\* ... or a report of the occupancy, now and then one beyond the size it gave,
\* or a notification without a reading (_record_usage).
ReportUsage ==
    /\ prompted.pc = "sending" /\ prompted.active < 2 /\ Len(prompted.used) < 2
    /\ \E used \in 0..2, oversize \in BOOLEAN :
        prompted' = [prompted EXCEPT !.used = Append(@, used), !.active = @ + 1,
                                     !.oversize = @ \/ oversize]
    /\ spent' = [spent EXCEPT !.tokens = @ + 1]
    /\ UNCHANGED <<profile, usage, context>>
\* record_limit_rejection: the tokens of an unanswered send are not reported,
\* which is a gap, but for codex, whose own readings are taken to tell.
RejectSend ==
    /\ prompted.pc = "sending"
    /\ prompted' = [prompted EXCEPT !.pc = "rejected", !.known = TRUE,
            !.gaps = IF prompted.active > 0 /\ profile # "codex_usage_updates" THEN @ + 1 ELSE @]
    /\ spent' = [spent EXCEPT !.limited =
            IF profile = "codex_usage_updates" THEN @ + prompted.active ELSE @]
    /\ UNCHANGED <<profile, usage, context>>
\* The response: its tally covers this send, with or without all the parts, or
\* it carries none.
RespondTo ==
    /\ prompted.pc = "sending"
    /\ \E response \in {"usage", "bare"}, parts \in BOOLEAN :
        prompted' = [prompted EXCEPT !.pc = "answered", !.response = response,
                                     !.parts = parts, !.total = prompted.active]
    /\ UNCHANGED <<profile, usage, context, spent>>
\* finish_usage at the end of a turn: answered, given up on a limit, or ended
\* by a cancel or an error with no response.
EndTurn ==
    /\ prompted.pc # "none"
    /\ usage' = Recorded
    /\ context' = IF prompted.used = <<>> THEN context ELSE prompted.used[Len(prompted.used)]
    /\ prompted' = NoClient
    /\ UNCHANGED <<profile, spent>>
\* The process dies; a reader of the session records the turn as unknown.
MarkUnknown ==
    /\ prompted.pc # "none"
    /\ usage' = [Previous EXCEPT !.gaps = @ + 1]
    /\ prompted' = NoClient
    /\ UNCHANGED <<profile, context, spent>>

----------------------------------------------------------------------------
UsageInit ==
    /\ profile = "claude_model_usage" /\ usage = NoUsage /\ context = 0
    /\ prompted = NoClient /\ spent = [tokens |-> 0, turns |-> 0, sends |-> 0, limited |-> 0]
\* The profile is fixed before the first turn.
ChooseProfile ==
    /\ spent.turns = 0 /\ profile' \in Profiles
    /\ UNCHANGED <<usage, context, prompted, spent>>
UsageNext ==
    \/ ChooseProfile \/ SendPrompt \/ Work \/ ReportUsage \/ RejectSend \/ RespondTo \/ EndTurn
    \/ MarkUnknown
UsageSpec == UsageInit /\ [][UsageNext]_uvars

----------------------------------------------------------------------------
\* A usage that calls itself exact is what the adapter consumed over all turns:
\* no order of usage limits, resends, canceled and lost turns hides tokens behind
\* "exact".  And no usage at all means that nothing was consumed, but in sends
\* that a codex adapter rejected on a limit before it reported any occupancy.
ExactIsAll ==
    prompted.pc = "none" =>
        /\ Exact(usage) => usage.total = spent.tokens
        /\ usage.gaps < 0 => spent.tokens = spent.limited
=============================================================================
