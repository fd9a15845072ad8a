-------------------------------- MODULE Nic --------------------------------
(***************************************************************************)
(* The driver of the NE2000 network card (kernel/net.c) with the card it   *)
(* talks to, and the system calls NET_RECV and NET_SEND.                   *)
(*                                                                         *)
(* The card keeps received frames in a ring of pages.  It writes at CURR,  *)
(* the driver takes from the page after BNRY.  A frame starts on a page    *)
(* with a header: the page of the next frame and the number of bytes,      *)
(* header included.  The driver runs with interrupts off, one call at a    *)
(* time, but the card works on between any two accesses of the driver.     *)
(*                                                                         *)
(* Memory is counted in units of a header (4 bytes in the code); a page    *)
(* has UNITS of them.  The card is the environment: it is modelled from    *)
(* how the driver uses its registers.                                      *)
(***************************************************************************)
EXTENDS Naturals, Sequences

CONSTANTS
    RX_START, RX_STOP,  \* NE_RX_START, NE_RX_STOP: the pages of the ring
    UNITS,              \* 256 bytes, in units
    MAX_COUNT,          \* 1600: the largest count of a header the driver accepts
    MIN_CAP,            \* 64: the smallest buffer it fills
    MIN_TX,             \* 60: shorter frames are padded
    Lens,               \* the lengths of the frames that arrive
    Caps,               \* the buffer sizes of the callers
    TxFrames,           \* the frames callers send: [id, len]
    POLLS,              \* 1000000: the polls of a wait
    Traffic             \* bounds: [arrivals, sends], the frames that arrive and
                        \* whether callers send

ASSUME NicAssumption ==
    /\ {RX_START, RX_STOP, UNITS, MAX_COUNT, MIN_CAP, MIN_TX, POLLS} \subseteq Nat
    /\ Traffic \subseteq [arrivals : Nat, sends : BOOLEAN]
    /\ RX_START > 0 /\ RX_START + 1 < RX_STOP /\ UNITS > 1
    /\ MAX_COUNT <= (RX_STOP - RX_START) * UNITS
    /\ Lens \cup Caps \subseteq Nat /\ TxFrames \subseteq [id : Nat \ {0}, len : Nat]

VARIABLES
    ready,              \* net_ready; the card also accepts frames from then on
    curr, bnry, mem,    \* the card: CURR, BNRY, the memory of the ring
    incoming, arrived,  \* the frame it is storing, if any; how many there were
    txp, txpage,        \* the card: CR.TXP, the frame in the transmit page
    txread, isr,        \* the part it has read of it; PTX and TXE of ISR
    wire,               \* the last frame that left the card, and how
    pc, cap,            \* the driver: where it is, the caller's buffer
    vcurr, page, next, len, buf,    \* the variables of net_recv_frame
    frame, polls,       \* the caller's frame, the polls of the present loop
    answer, out,        \* what the last send said, what the last recv delivered
    overran, resynced,  \* history: this send gave up waiting for TXP; BNRY was reset
    traffic             \* the bounds of this behaviour

card == <<curr, mem, incoming, arrived>>
transmitter == <<txp, txread, wire>>
recv == <<cap, vcurr, page, next, len, buf>>
send == <<frame, polls, answer, overran>>
ghost == <<resynced, traffic>>
vars == <<ready, card, bnry, transmitter, txpage, isr, pc, recv, send, out, ghost>>

Pages == RX_START..(RX_STOP - 1)
Size == RX_STOP - RX_START
Addresses == (RX_START * UNITS)..(RX_STOP * UNITS - 1)

\* Around the end of the ring, for a page and for an address.
Wrap(p) == IF p >= RX_STOP THEN p - Size ELSE p
WrapUnit(a) == IF a >= RX_STOP * UNITS THEN a - Size * UNITS ELSE a

Data(id, k) == <<"data", id, k>>
Header(n, count) == <<"header", n, count>>
Junk == <<"junk", 0, 0>>
Nothing == [id |-> 0, len |-> 0]
NoFrame == [first |-> Nothing, second |-> Nothing, ok |-> FALSE]

Init ==
    /\ ready = FALSE
    /\ curr = RX_START /\ bnry = RX_START
    /\ mem = [a \in Addresses |-> Junk]
    /\ incoming = Nothing /\ arrived = 0
    /\ txp = FALSE /\ txpage = Nothing /\ txread = Nothing /\ isr = {}
    /\ wire = NoFrame
    /\ pc = "boot"
    /\ cap = 0 /\ vcurr = 0 /\ page = 0 /\ next = 0 /\ len = 0 /\ buf = <<>>
    /\ frame = Nothing /\ polls = 0
    /\ answer = "none" /\ out = <<>> /\ overran = FALSE /\ resynced = FALSE
    /\ traffic \in Traffic

-----------------------------------------------------------------------------
(* The card. *)

PagesOf(n) == (n + UNITS) \div UNITS

\* The pages from CURR up to the one BNRY protects.
Room == IF bnry >= curr THEN bnry - curr ELSE bnry + Size - curr

\* A frame comes in and its data is written; without room it is dropped.
CardStores(n) ==
    /\ ready /\ incoming = Nothing /\ arrived < traffic.arrivals /\ PagesOf(n) <= Room
    /\ LET id == arrived + 1
           at == curr * UNITS
           Place(k) == WrapUnit(at + k)
       IN  /\ incoming' = [id |-> id, len |-> n]
           /\ mem' = [a \in Addresses |->
                        IF \E k \in 1..n : a = Place(k)
                        THEN Data(id, CHOOSE k \in 1..n : a = Place(k)) ELSE mem[a]]
           /\ arrived' = id
    /\ UNCHANGED <<ready, curr, bnry, transmitter, txpage, isr, pc, recv, send, out, ghost>>

\* The frame was good: the header is written and CURR moves on.
CardCommits ==
    /\ incoming # Nothing
    /\ LET n == Wrap(curr + PagesOf(incoming.len))
       IN  /\ mem' = [mem EXCEPT ![curr * UNITS] = Header(n, incoming.len + 1)]
           /\ curr' = n
    /\ incoming' = Nothing
    /\ UNCHANGED <<ready, arrived, bnry, transmitter, txpage, isr, pc, recv, send, out, ghost>>

\* The frame was damaged: its pages are used for the next one.
CardDiscards ==
    /\ incoming # Nothing
    /\ incoming' = Nothing
    /\ UNCHANGED <<ready, curr, mem, arrived, bnry, transmitter, txpage, isr, pc, recv, send,
                   out, ghost>>

\* The transmitter reads the first half of the page, then the second, and
\* reports how it went.
CardReads ==
    /\ txp /\ txread = Nothing
    /\ txread' = txpage
    /\ UNCHANGED <<ready, card, bnry, txp, wire, txpage, isr, pc, recv, send, out, ghost>>

CardSends(ok) ==
    /\ txp /\ txread # Nothing
    /\ txp' = FALSE /\ txread' = Nothing
    /\ wire' = [first |-> txread, second |-> txpage, ok |-> ok]
    /\ isr' = isr \cup {IF ok THEN "PTX" ELSE "TXE"}
    /\ UNCHANGED <<ready, card, bnry, txpage, pc, recv, send, out, ghost>>

Card ==
    \/ \E n \in Lens : CardStores(n)
    \/ CardCommits \/ CardDiscards
    \/ CardReads \/ \E ok \in BOOLEAN : CardSends(ok)

-----------------------------------------------------------------------------
(* net_init. *)

\* The address read from the card is neither all zeros nor all ones.
net_init ==
    /\ pc = "boot" /\ pc' = "idle"
    /\ ready' = TRUE
    /\ bnry' = RX_START /\ curr' = RX_START + 1 /\ isr' = {}
    /\ UNCHANGED <<mem, incoming, arrived, transmitter, txpage, recv, send, out, ghost>>

\* There is no card: every later call is refused.
net_init_absent ==
    /\ pc = "boot" /\ pc' = "idle"
    /\ bnry' = RX_START /\ isr' = {}
    /\ UNCHANGED <<ready, card, transmitter, txpage, recv, send, out, ghost>>

-----------------------------------------------------------------------------
(* ORE_SYS_NET_RECV: net_recv_frame, then the copy to the caller. *)

\* What the call before left behind for the properties is forgotten.
NewCall == out' = <<>> /\ wire' = NoFrame /\ answer' = "none" /\ overran' = FALSE /\ polls' = 0

\* The variables of net_recv_frame go out of scope.
Leave == pc' = "idle" /\ cap' = 0 /\ vcurr' = 0 /\ page' = 0 /\ next' = 0 /\ len' = 0 /\ buf' = <<>>

\* A refused call takes nothing from the ring.
RecvCall(c) ==
    /\ pc = "idle" /\ NewCall /\ frame' = Nothing
    /\ IF ready /\ c >= MIN_CAP THEN pc' = "empty" /\ vcurr' = curr /\ cap' = c
       ELSE UNCHANGED <<pc, vcurr, cap>>
    /\ UNCHANGED <<ready, card, bnry, txp, txread, txpage, isr, page, next, len, buf, ghost>>

\* BNRY is read; nothing is there if the page after it is CURR as read before.
RecvEmpty ==
    /\ pc = "empty"
    /\ IF Wrap(bnry + 1) = vcurr THEN Leave
       ELSE page' = Wrap(bnry + 1) /\ pc' = "header" /\ UNCHANGED <<cap, vcurr, next, len, buf>>
    /\ UNCHANGED <<ready, card, bnry, transmitter, txpage, isr, send, out, ghost>>

BadHeader_AnyNext(n, count) == count < 1 \/ count > MAX_COUNT

BadHeader(n, count) == n \notin Pages \/ count < 1 \/ count > MAX_COUNT

\* What a unit says when it is read as a header: payload can say anything.
AsHeader(u) ==
    IF u[1] = "header" THEN {<<u[2], u[3]>>} ELSE (0..(RX_STOP + 1)) \X (0..(MAX_COUNT + 1))

RecvHeader ==
    /\ pc = "header"
    /\ \E h \in AsHeader(mem[page * UNITS]) :
        IF BadHeader(h[1], h[2])
        THEN bnry' = RX_START /\ resynced' = TRUE /\ Leave
        ELSE /\ next' = h[1]
             /\ len' = IF h[2] - 1 > cap THEN cap ELSE h[2] - 1
             /\ pc' = "copy"
             /\ UNCHANGED <<bnry, resynced, cap, vcurr, page, buf>>
    /\ UNCHANGED <<ready, card, transmitter, txpage, isr, send, out, traffic>>

\* ne_remote_read of n units.
Units(src, n) == [k \in 1..n |-> mem[src + k - 1]]

src == page * UNITS + 1
first == RX_STOP * UNITS - src

\* All of the frame, or the part before the end of the ring.
RecvCopy ==
    /\ pc = "copy"
    /\ IF first >= len
       THEN buf' = Units(src, len) /\ pc' = "done"
       ELSE buf' = Units(src, first) /\ pc' = "rest"
    /\ UNCHANGED <<ready, card, bnry, transmitter, txpage, isr, cap, vcurr, page, next, len, send,
                   out, ghost>>

RecvRest ==
    /\ pc = "rest"
    /\ buf' = buf \o Units(RX_START * UNITS, len - first)
    /\ pc' = "done"
    /\ UNCHANGED <<ready, card, bnry, transmitter, txpage, isr, cap, vcurr, page, next, len, send,
                   out, ghost>>

NewBoundary_Next == next

NewBoundary == IF next - 1 < RX_START THEN RX_STOP - 1 ELSE next - 1

\* BNRY gives the pages back; copy_to_user may still fail.
RecvDone(copied) ==
    /\ pc = "done" /\ Leave
    /\ bnry' = NewBoundary
    /\ out' = IF copied THEN buf ELSE <<>>
    /\ UNCHANGED <<ready, card, transmitter, txpage, isr, send, ghost>>

-----------------------------------------------------------------------------
(* ORE_SYS_NET_SEND: net_send_frame. *)

Padded(n) == IF n < MIN_TX THEN MIN_TX ELSE n

\* A refused call, of a length out of range or without a card, changes nothing.
SendCall(f) ==
    /\ pc = "idle" /\ ready /\ traffic.sends /\ NewCall
    /\ frame' = [f EXCEPT !.len = Padded(@)]
    /\ pc' = "txwait"
    /\ UNCHANGED <<ready, card, bnry, txp, txread, txpage, isr, recv, ghost>>

SendWait_Forever ==
    /\ pc = "txwait"
    /\ IF txp THEN UNCHANGED <<pc, overran, polls>>
       ELSE polls' = 0 /\ pc' = "txwrite" /\ overran' = txp
    /\ UNCHANGED <<ready, card, bnry, transmitter, txpage, isr, recv, frame, answer, out, ghost>>

\* The wait for the frame before: it goes on after POLLS polls in any case.
SendWait ==
    /\ pc = "txwait"
    /\ IF txp /\ polls < POLLS
       THEN polls' = polls + 1 /\ UNCHANGED <<pc, overran>>
       ELSE polls' = 0 /\ pc' = "txwrite" /\ overran' = txp
    /\ UNCHANGED <<ready, card, bnry, transmitter, txpage, isr, recv, frame, answer, out, ghost>>

SendWrite_KeepsIsr ==
    /\ pc = "txwrite" /\ pc' = "txstart"
    /\ txpage' = frame
    /\ UNCHANGED <<ready, card, bnry, transmitter, isr, recv, send, out, ghost>>

\* ISR is cleared, then ne_remote_write fills the transmit page.
SendWrite ==
    /\ pc = "txwrite" /\ pc' = "txstart"
    /\ isr' = {} /\ txpage' = frame
    /\ UNCHANGED <<ready, card, bnry, transmitter, recv, send, out, ghost>>

\* TXP is set; a card that is still sending does not start anew.
SendStart ==
    /\ pc = "txstart" /\ pc' = "txpoll"
    /\ txp' = TRUE
    /\ UNCHANGED <<ready, card, bnry, txread, wire, txpage, isr, recv, send, out, ghost>>

Return(a) == pc' = "idle" /\ answer' = a /\ polls' = 0

\* One poll of ISR; when the polls run out the length is returned as well.
SendPoll ==
    /\ pc = "txpoll"
    /\ IF "PTX" \in isr THEN Return("sent") /\ isr' = isr \ {"PTX"}
       ELSE IF "TXE" \in isr THEN Return("failed") /\ isr' = isr \ {"TXE"}
       ELSE IF polls < POLLS THEN polls' = polls + 1 /\ UNCHANGED <<pc, answer, isr>>
       ELSE Return("timeout") /\ UNCHANGED isr
    /\ UNCHANGED <<ready, card, bnry, transmitter, txpage, recv, frame, overran, out, ghost>>

Driver ==
    \/ RecvEmpty \/ RecvHeader \/ RecvCopy \/ RecvRest
    \/ \E copied \in BOOLEAN : RecvDone(copied)
    \/ SendWait \/ SendWrite \/ SendStart \/ SendPoll

Calls ==
    \/ \E c \in Caps : RecvCall(c)
    \/ \E f \in TxFrames : SendCall(f)

Next == net_init \/ net_init_absent \/ Card \/ Calls \/ Driver

\* A call goes on until it returns: interrupts are off.  Neither the card nor
\* the callers owe anything.
Spec == Init /\ [][Next]_vars /\ WF_vars(Driver)

-----------------------------------------------------------------------------
(* Properties. *)

\* The frames of the ring from the page after BNRY up to CURR, as their bytes
\* lie in memory.
Ring ==
    LET Page(d) == IF curr - d < RX_START THEN curr - d + Size ELSE curr - d
        Bytes(p, n) == [k \in 1..n |-> mem[WrapUnit(p * UNITS + k)]]
        Distance(p) == IF curr >= p THEN curr - p ELSE curr + Size - p
        F[d \in 0..(Size - 1)] ==
            LET h == mem[Page(d) * UNITS]
            IN  IF d = 0 \/ h[1] # "header" \/ Distance(h[2]) >= d THEN <<>>
                ELSE <<Bytes(Page(d), h[3] - 1)>> \o F[Distance(h[2])]
    IN  F[Distance(Wrap(bnry + 1))]

FQ == INSTANCE FrameQueue WITH
    Arrivals <- {[k \in 1..n |-> Data(id, k)] :
                    id \in UNION {1..t.arrivals : t \in Traffic}, n \in Lens},
    MaxLen <- MAX_COUNT - 1,
    queue <- IF resynced \/ ~ready THEN <<>> ELSE Ring,
    out <- IF resynced THEN <<>> ELSE out,
    over <- resynced

\* NET_RECV: whatever the card stores while the driver reads, wherever frames
\* wrap around the end of the ring and however full it is, the callers get the
\* frames in order, once and unaltered, until the first overlong one.
ImplementsFrameQueue == FQ!Spec

\* net_recv_frame: even after BNRY was reset into the middle of a frame, and
\* payload is taken for a header, the driver reads inside the ring only and
\* BNRY stays a page of it.
ReadsInsideRing ==
    /\ bnry \in Pages
    /\ pc = "header" => page * UNITS \in Addresses
    /\ pc = "copy" /\ first >= len => len = 0 \/ src + len - 1 \in Addresses
    /\ pc \in {"copy", "rest"} /\ first < len =>
          /\ src \in Addresses
          /\ RX_START * UNITS + (len - first) - 1 \in Addresses

\* net_send_frame: unless the wait for the transmitter gave up, the outcome it
\* reports is that of its own frame, padded and whole, and never that of an
\* earlier frame whose report came late.
AnswerIsOwn ==
    answer \in {"sent", "failed"} /\ ~overran =>
        wire = [first |-> frame, second |-> frame, ok |-> answer = "sent"]

\* Both calls return although the card may never answer: with interrupts off a
\* wait without end would stop the machine.
NetCallReturns == (pc \notin {"boot", "idle"}) ~> (pc = "idle")

=============================================================================
