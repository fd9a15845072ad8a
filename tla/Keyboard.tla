------------------------------ MODULE Keyboard ------------------------------
(***************************************************************************)
(* The decoder of the PS/2 scan codes in kernel/console.c as a function of *)
(* its state: ps2_shift, ps2_e0, input_keys and input_ascii.  Extended     *)
(* keys send the byte 224 (0xE0) first; a release is the code plus 128.    *)
(* input_frame only counts and is left out.                                *)
(***************************************************************************)
EXTENDS Naturals, Sequences

NewKeyboard == [shift |-> FALSE, e0 |-> FALSE, keys |-> {}, ascii |-> 0]

NoKey == 256    \* console_read_key returns -1

\* The tables of console_read_key for the codes 1 to 57.
normal == <<27, 49, 50, 51, 52, 53, 54, 55, 56, 57, 48, 45, 61, 8, 9,
            113, 119, 101, 114, 116, 121, 117, 105, 111, 112, 91, 93, 10, 0,
            97, 115, 100, 102, 103, 104, 106, 107, 108, 59, 39, 96, 0, 92,
            122, 120, 99, 118, 98, 110, 109, 44, 46, 47, 0, 0, 0, 32>>

shifted == <<27, 33, 64, 35, 36, 37, 94, 38, 42, 40, 41, 95, 43, 8, 9,
             81, 87, 69, 82, 84, 89, 85, 73, 79, 80, 123, 125, 10, 0,
             65, 83, 68, 70, 71, 72, 74, 75, 76, 58, 34, 126, 0, 124,
             90, 88, 67, 86, 66, 78, 77, 60, 62, 63, 0, 0, 0, 32>>

\* The bit of input_keys for a scan code, as a set of at most one.
input_bit_for_scancode(sc, e0) ==
    CASE (e0 /\ sc = 75) \/ (~e0 /\ sc = 30) -> {"LEFT"}
      [] (e0 /\ sc = 77) \/ (~e0 /\ sc = 32) -> {"RIGHT"}
      [] (e0 /\ sc = 72) \/ (~e0 /\ sc = 17) -> {"UP"}
      [] (e0 /\ sc = 80) \/ (~e0 /\ sc = 31) -> {"DOWN"}
      [] ~e0 /\ sc = 57 -> {"FIRE"}
      [] ~e0 /\ sc \in {1, 16} -> {"QUIT"}
      [] OTHER -> {}

\* The same for a character.
input_bit_for_ascii(c) ==
    CASE c \in {97, 65} -> {"LEFT"}
      [] c \in {100, 68} -> {"RIGHT"}
      [] c \in {119, 87} -> {"UP"}
      [] c \in {115, 83} -> {"DOWN"}
      [] c = 32 -> {"FIRE"}
      [] c \in {113, 81, 27} -> {"QUIT"}
      [] OTHER -> {}

input_set_key(k, bit, down) ==
    [k EXCEPT !.keys = IF down THEN @ \cup bit ELSE @ \ bit]

Result(k, key) == [kb |-> k, key |-> key]

\* The character of a key that goes down without the prefix.
Character(k, sc) ==
    LET c == IF sc \notin DOMAIN normal THEN 0 ELSE IF k.shift THEN shifted[sc] ELSE normal[sc]
    IN  IF c = 0 THEN Result(k, NoKey) ELSE Result([k EXCEPT !.ascii = c], c)

\* Mutant: a release leaves the prefix flag set.
read_scancode_KeepsPrefix(k, byte) ==
    LET released == byte >= 128
        sc == byte % 128
        k1 == input_set_key(k, input_bit_for_scancode(sc, k.e0), ~released)
    IN  CASE byte = 224 -> Result([k EXCEPT !.e0 = TRUE], NoKey)
          [] byte # 224 /\ sc \in {42, 54} -> Result([k EXCEPT !.shift = ~released, !.e0 = FALSE], NoKey)
          [] byte # 224 /\ sc \notin {42, 54} /\ released -> Result(k1, NoKey)
          [] byte # 224 /\ sc \notin {42, 54} /\ ~released /\ k.e0 -> Result([k1 EXCEPT !.e0 = FALSE], NoKey)
          [] OTHER -> Character(k1, sc)

\* console_read_key with a byte from the keyboard.
read_scancode(k, byte) ==
    LET released == byte >= 128
        sc == byte % 128
        k1 == input_set_key(k, input_bit_for_scancode(sc, k.e0), ~released)
    IN  CASE byte = 224 -> Result([k EXCEPT !.e0 = TRUE], NoKey)
          [] byte # 224 /\ sc \in {42, 54} ->
                Result([k EXCEPT !.shift = ~released, !.e0 = FALSE], NoKey)
          [] byte # 224 /\ sc \notin {42, 54} /\ (released \/ k.e0) ->
                Result([k1 EXCEPT !.e0 = FALSE], NoKey)
          [] OTHER -> Character(k1, sc)

\* console_read_key with a byte from the serial line.
read_serial(k, byte) == Result([k EXCEPT !.ascii = byte], byte)

=============================================================================
