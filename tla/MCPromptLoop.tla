---------------------------- MODULE MCPromptLoop ----------------------------
\* PromptLoop for TLC: resets that have passed, are near, and are too far.
EXTENDS PromptLoop
MCResets == {-4, 1, 2}
MCSends == <<1, 3>>
=============================================================================
