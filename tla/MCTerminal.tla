----------------------------- MODULE MCTerminal -----------------------------
EXTENDS Terminal

Key(sc, e0) == [sc |-> sc, e0 |-> e0]

\* A, the left arrow with the same bit, both shifts, Enter and Backspace.
MCKeys == {Key(30, FALSE), Key(75, TRUE), Key(42, FALSE), Key(54, FALSE), Key(28, FALSE), Key(14, FALSE)}

\* Plain text, a colour change, and sequences cut short after ESC and after ESC [ 3.
MCOutputs == {<<111>>, <<ESC, 91, 55, 59, 51, 49, 109>>, <<ESC>>, <<ESC, 91, 51>>, <<10>>}

MCPromptText == <<62>>

MCHISTORY == <<97>>
MCCLEAR == <<98>>
MCEXIT == <<99>>

Scenario(k, s, bytes, w) == [keys |-> k, serial |-> s, bytes |-> bytes, work |-> w]

MCBudgets ==
    {Scenario(5, 1, {97}, 0),                   \* fingers, with a serial byte in between
     Scenario(3, 2, {120, 13}, 2),              \* keys while a program runs
     Scenario(0, 7, {97, 98, 13, 127}, 0),      \* lines edited, wrapped, entered
     Scenario(0, 6, {98, 99, 32, 34, 13}, 0),   \* words and quotes
     Scenario(0, 4, {120, 27, 200, 13}, 3)}     \* programs that write and draw
=============================================================================
