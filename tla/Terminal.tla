------------------------------ MODULE Terminal ------------------------------
(***************************************************************************)
(* The terminal as its user sees it: keyboard and serial line, the input   *)
(* system calls, the line editor and history of the shell (user/init.c),   *)
(* programs the shell waits for, and the screen.                           *)
(*                                                                         *)
(* System calls run with interrupts off on CPU 0 and only one process runs *)
(* at a time, so a poll of the input together with what the process does   *)
(* until its next poll is one step.  Keys are pressed at any time: their   *)
(* bytes wait in the keyboard controller until someone polls.              *)
(***************************************************************************)
EXTENDS Console, Keyboard, FiniteSetsExt

CONSTANTS
    LINE_MAX, HISTORY_MAX, ARGV_MAX,    \* as in init.c
    FIFO_MAX,       \* the bytes the keyboard controller keeps
    Keys,           \* the keys of the keyboard: [sc, e0]
    Outputs,        \* what programs and commands write, as sequences of bytes
    PromptText,     \* the visible part of the prompt
    HISTORY, CLEAR, EXIT,   \* the names of three built-in commands
    Budgets         \* bounds on a run: the changes of keys, the bytes on the serial
                    \* line and which bytes, the steps of programs

VARIABLES
    con, kb,        \* the state of console.c
    fifo, serial,   \* the bytes waiting in the controller and on the line
    held,           \* the keys that are down
    line, history, history_count,   \* the shell
    mode,           \* "shell" waits for a key, "program" runs, "gone" has exited
    typed,          \* ghost: the characters of the keys pressed, not read yet
    lost, masked,   \* ghost: bytes were lost; the bits for which one of two keys
                    \* was released while the other is held
    edge,           \* ghost: a character of the line was deleted at the left edge
    entered,        \* ghost: the lines entered, the empty ones left out
    budget

input == <<kb, fifo, serial, held, typed, lost, masked>>
shell == <<line, history, history_count, edge, entered>>
vars == <<con, input, shell, mode, budget>>

C_RESET == <<ESC, 91, 48, 109>>
C_GREEN == <<ESC, 91, 57, 50, 109>>

\* Mutant: the colours are reset before the prompt and not after it.
prompt_ResetFirst(s) == console_write(s, C_RESET \o PromptText)

\* prompt, with one colour for its four.
prompt(s) == console_write(s, C_GREEN \o PromptText \o C_RESET)

Init ==
    /\ con = prompt(NewConsole) /\ kb = NewKeyboard
    /\ fifo = <<>> /\ serial = <<>> /\ held = {}
    /\ line = <<>> /\ history = [i \in 0..(HISTORY_MAX - 1) |-> <<>>] /\ history_count = 0
    /\ mode = "shell"
    /\ typed = <<>> /\ lost = FALSE /\ masked = {} /\ edge = FALSE /\ entered = <<>>
    /\ budget \in Budgets

-----------------------------------------------------------------------------
(* The user. *)

Shifts == {42, 54}
Bit(k) == IF k.sc \in Shifts THEN {"SHIFT"} ELSE input_bit_for_scancode(k.sc, k.e0)

Bytes(k, down) ==
    (IF k.e0 THEN <<224>> ELSE <<>>) \o <<IF down THEN k.sc ELSE k.sc + 128>>

\* The character a key stands for when it is pressed.
Legend(k) ==
    IF k.e0 \/ k.sc \notin DOMAIN normal THEN 0
    ELSE IF "SHIFT" \in UNION {Bit(h) : h \in held} \ masked THEN shifted[k.sc] ELSE normal[k.sc]

\* A key goes down, repeats, or goes up.  Bytes that do not fit are lost.
Press(k, down) ==
    /\ budget.keys > 0 /\ budget' = [budget EXCEPT !.keys = @ - 1]
    /\ ~down => k \in held
    /\ held' = IF down THEN held \cup {k} ELSE held \ {k}
    /\ masked' = (masked \ Bit(k))
                  \cup {b \in Bit(k) : ~down /\ \E h \in held \ {k} : b \in Bit(h)}
    /\ IF Len(fifo) + Len(Bytes(k, down)) <= FIFO_MAX
       THEN /\ fifo' = fifo \o Bytes(k, down) /\ lost' = lost
            /\ typed' = IF down /\ Legend(k) # 0 THEN Append(typed, Legend(k)) ELSE typed
       ELSE lost' = TRUE /\ UNCHANGED <<fifo, typed>>
    /\ UNCHANGED <<con, kb, serial, shell, mode>>

SerialArrives ==
    /\ budget.serial > 0 /\ budget' = [budget EXCEPT !.serial = @ - 1]
    /\ serial = <<>> /\ \E b \in budget.bytes : serial' = <<b>>
    /\ UNCHANGED <<con, kb, fifo, held, typed, lost, masked, shell, mode>>

-----------------------------------------------------------------------------
(* console_read_key. *)

\* The serial line first, then one byte of the keyboard.
console_read_key ==
    IF serial # <<>> THEN read_serial(kb, Head(serial))
    ELSE IF fifo # <<>> THEN read_scancode(kb, Head(fifo))
    ELSE Result(kb, NoKey)

\* The call takes the byte; k is what it leaves in the variables of the decoder.
TakeByte(k) ==
    /\ kb' = k
    /\ serial' = <<>>
    /\ IF serial = <<>> /\ fifo # <<>>
       THEN /\ fifo' = Tail(fifo)
            /\ typed' = IF console_read_key.key # NoKey /\ typed # <<>> THEN Tail(typed) ELSE typed
       ELSE UNCHANGED <<fifo, typed>>
    /\ UNCHANGED <<held, lost, masked>>

-----------------------------------------------------------------------------
(* The shell. *)

IsBlank(c) == c \in {32, 9}

trim(s) ==
    LET full == {i \in 1..Len(s) : ~IsBlank(s[i])}
    IN  IF full = {} THEN <<>> ELSE SubSeq(s, Min(full), Max(full))

\* The word at the start of s and what follows it.  A word in quotes ends at the
\* closing quote; the character that ends a word, and the one after a closing
\* quote, are overwritten.
Word(s) ==
    LET quoted == s[1] = 34
        from == IF quoted THEN 2 ELSE 1
        stop == Min({j \in from..Len(s) : IF quoted THEN s[j] = 34 ELSE IsBlank(s[j])} \cup {Len(s) + 1})
    IN  [word |-> SubSeq(s, from, stop - 1),
         rest |-> trim(SubSeq(s, (IF quoted THEN stop + 2 ELSE stop + 1), Len(s)))]

split(s) ==
    LET S[n \in 0..ARGV_MAX] ==
          IF n = 0 THEN [argv |-> <<>>, rest |-> trim(s)]
          ELSE IF S[n - 1].rest = <<>> THEN S[n - 1]
          ELSE [argv |-> Append(S[n - 1].argv, Word(S[n - 1].rest).word), rest |-> Word(S[n - 1].rest).rest]
    IN  S[ARGV_MAX].argv

\* Mutant: the line is remembered after split has cut it into words.
remember_AfterSplit(l) ==
    IF l = <<>> THEN UNCHANGED <<history, history_count, entered>>
    ELSE /\ history' = [history EXCEPT ![history_count % HISTORY_MAX] = IF split(l) = <<>> THEN <<>> ELSE split(l)[1]]
         /\ history_count' = history_count + 1
         /\ entered' = Append(entered, l)

remember(l) ==
    IF l = <<>> THEN UNCHANGED <<history, history_count, entered>>
    ELSE /\ history' = [history EXCEPT ![history_count % HISTORY_MAX] = l]
         /\ history_count' = history_count + 1
         /\ entered' = Append(entered, l)

\* The lines the history command prints, oldest first, and their numbers.
HistoryStart(count) == IF count > HISTORY_MAX THEN count - HISTORY_MAX ELSE 0

HistoryLines(h, count) ==
    [i \in 1..(count - HistoryStart(count)) |-> h[(HistoryStart(count) + i - 1) % HISTORY_MAX]]

\* printf("%u %s\n") for each of them, the number being one digit here.
HistoryText(h, count) ==
    LET T[i \in 0..Len(HistoryLines(h, count))] ==
          IF i = 0 THEN <<>>
          ELSE T[i - 1] \o <<48 + HistoryStart(count) + i - 1, 32>> \o HistoryLines(h, count)[i] \o <<10>>
    IN  T[Len(HistoryLines(h, count))]

\* Enter: the line is remembered and run; commands other than the three write
\* something or start a program, and the prompt follows when they are done.
Enter ==
    /\ remember(line)
    /\ line' = <<>> /\ edge' = FALSE
    /\ \E argv \in {split(line)}, s \in {console_write(con, <<10>>)} :
         \/ /\ argv = <<>>
            /\ mode' = mode /\ con' = prompt(s)
         \/ /\ argv # <<>> /\ argv[1] = HISTORY
            /\ mode' = mode /\ con' = prompt(console_write(s, HistoryText(history', history_count')))
         \/ /\ argv # <<>> /\ argv[1] = CLEAR
            /\ mode' = mode
            /\ con' = prompt(console_write(s, <<ESC, 91, 50, 74, ESC, 91, 72>>))
         \/ /\ argv # <<>> /\ argv[1] = EXIT
            /\ mode' = "gone" /\ con' = s
         \/ /\ argv # <<>> /\ argv[1] \notin {HISTORY, CLEAR, EXIT}
            /\ mode' = "program" /\ con' = s

Delete ==
    /\ IF line = <<>> THEN UNCHANGED <<line, con, edge>>
       ELSE /\ line' = SubSeq(line, 1, Len(line) - 1)
            /\ con' = console_write(con, <<8, 32, 8>>)
            /\ edge' = (edge \/ con.x = 0)
    /\ UNCHANGED <<history, history_count, entered, mode>>

\* Mutant: a character is echoed whether it fits or not.
Insert_EchoesAll(c) ==
    /\ line' = IF Len(line) + 1 < LINE_MAX THEN Append(line, c) ELSE line
    /\ con' = console_write(con, <<c>>)
    /\ UNCHANGED <<history, history_count, entered, edge, mode>>

\* A character that fits is appended and echoed.
Insert(c) ==
    /\ IF Len(line) + 1 < LINE_MAX
       THEN line' = Append(line, c) /\ con' = console_write(con, <<c>>)
       ELSE UNCHANGED <<line, con>>
    /\ UNCHANGED <<history, history_count, entered, edge, mode>>

\* One poll of sys_read, and the body of the loop of main when it brings a key.
ShellStep ==
    /\ mode = "shell"
    /\ TakeByte(console_read_key.kb)
    /\ LET c == console_read_key.key
       IN  \/ /\ c \in {10, 13}
              /\ Enter
           \/ /\ c \in {8, 127}
              /\ Delete
           \/ /\ c >= 32 /\ c \notin {127, NoKey}
              /\ Insert(IF c >= 128 THEN 63 ELSE c)
           \/ /\ c \in (0..31) \ {8, 10, 13} \/ c = NoKey
              /\ UNCHANGED <<con, shell, mode>>
    /\ UNCHANGED budget

-----------------------------------------------------------------------------
(* Programs and built-in commands that write, draw and poll the input. *)

Works == mode = "program" /\ budget.work > 0 /\ budget' = [budget EXCEPT !.work = @ - 1]

ProgramWrites(text) ==
    /\ Works
    /\ con' = console_write(con, text)
    /\ UNCHANGED <<input, shell, mode>>

ProgramDraws ==
    /\ Works
    /\ con' = gfx_present(con)
    /\ UNCHANGED <<input, shell, mode>>

\* ORE_SYS_INPUT_STATE: input_state_poll, which takes a byte as well.
ProgramPolls ==
    /\ Works
    /\ TakeByte([console_read_key.kb EXCEPT !.ascii = 0])
    /\ UNCHANGED <<con, shell, mode>>

\* ORE_SYS_READ of a program.
ProgramReads ==
    /\ Works
    /\ TakeByte(console_read_key.kb)
    /\ UNCHANGED <<con, shell, mode>>

ProgramEnds ==
    /\ mode = "program" /\ mode' = "shell"
    /\ con' = prompt(con)
    /\ UNCHANGED <<input, shell, budget>>

Next ==
    \/ \E k \in Keys, down \in BOOLEAN : Press(k, down)
    \/ SerialArrives
    \/ ShellStep
    \/ \E text \in Outputs : ProgramWrites(text)
    \/ ProgramDraws \/ ProgramPolls \/ ProgramReads \/ ProgramEnds

Spec == Init /\ [][Next]_vars

-----------------------------------------------------------------------------
(* Properties. *)

\* The decoder run over the bytes that still wait.
Decoded ==
    LET D[i \in 0..Len(fifo)] ==
          IF i = 0 THEN [kb |-> kb, chars |-> <<>>]
          ELSE LET r == read_scancode(D[i - 1].kb, fifo[i])
               IN  [kb |-> r.kb, chars |-> IF r.key = NoKey THEN D[i - 1].chars
                                           ELSE Append(D[i - 1].chars, r.key)]
    IN  D[Len(fifo)]

\* However late the bytes of the keyboard are polled, and whoever polls them, the
\* decoder gives each key the character it had when it was pressed, in order, and
\* ends with the bits and the shift of the keys that are down: no prefix byte or
\* shift leaks from one key or one reader to the next.  Excepted are bytes the
\* controller lost and a bit one of whose two keys was released while the other
\* is held (console_read_key, input_set_key).
KeysFollowHands ==
    lost \/ LET down == UNION {Bit(k) : k \in held}
                seen == Decoded.kb.keys \cup (IF Decoded.kb.shift THEN {"SHIFT"} ELSE {})
            IN  /\ seen \ masked = down \ masked
                /\ Decoded.chars = typed /\ ~Decoded.kb.e0

\* The glyphs on the screen just before the cursor are those of the line the shell
\* will run, wrapped and scrolled as may be, unless a character was deleted when
\* the cursor stood at the left edge (the loop of main, put_char).
ScreenShowsLine ==
    mode = "shell" /\ ~edge =>
      \A i \in DOMAIN line :
        LET at == con.y * COLS + con.x - (Len(line) - i + 1)
        IN  at >= 0 => con.cells[<<at % COLS, at \div COLS>>] = Glyph(line[i])

\* Whatever a program has written, unfinished escape sequences and pictures
\* included, the shell waits for keys on a text screen, outside any escape
\* sequence and in the default colours (prompt, handle_escape, console_write).
PromptResets ==
    mode = "shell" =>
      /\ con.esc = 0 /\ ~con.gfx
      /\ con.fg = FG /\ con.bg = PANEL_BG /\ ~con.inverse

\* The history command prints the lines entered last, as they were entered,
\* although running a line cuts it into words (remember, run_command).
HistoryIsRecent ==
    HistoryLines(history, history_count) =
      SubSeq(entered, (IF Len(entered) > HISTORY_MAX THEN Len(entered) - HISTORY_MAX + 1 ELSE 1), Len(entered))

=============================================================================
