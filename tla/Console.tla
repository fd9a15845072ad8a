------------------------------ MODULE Console ------------------------------
(***************************************************************************)
(* The text console of kernel/console.c as functions of its state: the     *)
(* escape sequences, the cursor, the attributes, and the switch between    *)
(* text and graphics.  A character is its byte.  The screen is its cells,  *)
(* each with the glyph drawn last; the pixels and the colours of a cell    *)
(* are left out, the current attributes are kept.                          *)
(***************************************************************************)
EXTENDS Integers, Sequences

CONSTANTS COLS, ROWS    \* the cells of the framebuffer, cols and rows

ASSUME ConsoleAssumption == COLS \in Nat \ {0} /\ ROWS \in Nat \ {0}

ESC == 27
Cells == (0..(COLS - 1)) \X (0..(ROWS - 1))
Blank == [c \in Cells |-> 32]

\* Colours are named by the code that selects them; the bright colours 91 to 96
\* are the plain ones.
FG == 37
PANEL_BG == 0
ansi_color(code) == IF code \in 91..96 THEN code - 60 ELSE code

\* glyph_rows: capitals for small letters, a question mark for what has no glyph.
Glyph(c) ==
    IF c \in 97..122 THEN c - 32
    ELSE IF c \in (65..90) \cup (48..58) \cup {32, 33, 34, 35, 39, 40, 41, 42, 43, 44, 45, 46, 47,
                                             60, 61, 62, 95} THEN c
    ELSE 63

\* console_init.
NewConsole ==
    [x |-> 0, y |-> 0, esc |-> 0, param |-> 0, params |-> <<>>,
     fg |-> FG, bg |-> PANEL_BG, inverse |-> FALSE, gfx |-> FALSE, cells |-> Blank]

clear_screen(s) == [s EXCEPT !.cells = Blank, !.x = 0, !.y = 0]

scroll_up(s) ==
    [s EXCEPT !.cells = [c \in Cells |-> IF c[2] + 1 < ROWS THEN s.cells[<<c[1], c[2] + 1>>] ELSE 32]]

newline(s) ==
    IF s.y + 1 >= ROWS THEN [scroll_up(s) EXCEPT !.x = 0, !.y = ROWS - 1]
    ELSE [s EXCEPT !.x = 0, !.y = @ + 1]

-----------------------------------------------------------------------------
(* Escape sequences. *)

\* One parameter of ESC [ ... m.  ansi_bg maps 100 to 107 to codes that
\* ansi_color does not know, so they change nothing.
Attribute(s, p) ==
    CASE p = 0 -> [s EXCEPT !.fg = FG, !.bg = PANEL_BG, !.inverse = FALSE]
      [] p = 1 -> [s EXCEPT !.fg = 97]
      [] p = 2 -> [s EXCEPT !.fg = 90]
      [] p = 7 -> [s EXCEPT !.inverse = TRUE]
      [] p \in {22, 27} -> [s EXCEPT !.inverse = FALSE]
      [] p \in (30..37) \cup (90..97) -> [s EXCEPT !.fg = ansi_color(p)]
      [] p \in 40..47 -> [s EXCEPT !.bg = ansi_color(p - 10)]
      [] OTHER -> s

sgr_apply(s) ==
    LET A[i \in 0..Len(s.params)] == IF i = 0 THEN s ELSE Attribute(A[i - 1], s.params[i])
    IN  A[Len(s.params)]

esc_reset(s) == [s EXCEPT !.esc = 0, !.param = 0, !.params = <<>>]

\* At most four parameters are kept.
esc_push_param(s) ==
    [s EXCEPT !.params = IF Len(@) < 4 THEN Append(@, s.param) ELSE @, !.param = 0]

\* handle_escape while a sequence is open: after ESC, then after ESC [.  The texts
\* modelled have parameters well below the 32 bits of esc_param.
handle_escape(s, c) ==
    IF s.esc = 1 THEN (IF c = 91 THEN [s EXCEPT !.esc = 2, !.param = 0, !.params = <<>>]
                       ELSE esc_reset(s))
    ELSE CASE c \in 48..57 -> [s EXCEPT !.param = @ * 10 + c - 48]
           [] c = 59 -> esc_push_param(s)
           [] c = 74 -> esc_reset(clear_screen(s))
           [] c = 72 -> esc_reset([s EXCEPT !.x = 0, !.y = 0])
           [] c = 109 -> esc_reset(sgr_apply(esc_push_param(s)))
           [] OTHER -> esc_reset(s)

-----------------------------------------------------------------------------
(* Output. *)

Backspace(s) ==
    LET x == IF s.x > 0 THEN s.x - 1 ELSE 0
    IN  [s EXCEPT !.x = x, !.cells[<<x, s.y>>] = 32]

Draw(s, c) ==
    LET drawn == [s EXCEPT !.cells[<<s.x, s.y>>] = Glyph(c), !.x = @ + 1]
    IN  IF drawn.x >= COLS THEN newline(drawn) ELSE drawn

put_char(s, c) ==
    CASE s.esc # 0 -> handle_escape(s, c)
      [] s.esc = 0 /\ c = ESC -> [s EXCEPT !.esc = 1]
      [] s.esc = 0 /\ c = 13 -> s
      [] s.esc = 0 /\ c = 10 -> newline(s)
      [] s.esc = 0 /\ c = 8 -> Backspace(s)
      [] OTHER -> Draw(s, c)

\* console_write: text takes the screen back from graphics, and clears it.
console_write(s, text) ==
    LET start == IF s.gfx THEN [clear_screen(s) EXCEPT !.gfx = FALSE] ELSE s
        W[i \in 0..Len(text)] == IF i = 0 THEN start ELSE put_char(W[i - 1], text[i])
    IN  IF text = <<>> THEN s ELSE W[Len(text)]

\* console_gfx_present_indexed16: nothing of the text is left.
gfx_present(s) == [s EXCEPT !.gfx = TRUE, !.cells = Blank]

=============================================================================
