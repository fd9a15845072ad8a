------------------------------ MODULE NicProofs ------------------------------
(***************************************************************************)
(* Proofs about the network driver (Nic) for every size of the ring, every *)
(* traffic and every number of polls: it reads inside the ring, and a send *)
(* reports the outcome of its own frame.                                   *)
(***************************************************************************)
EXTENDS Nic, TLAPS

-----------------------------------------------------------------------------
(* Reading the ring. *)

\* A header in memory counts in numbers; what the driver holds while it reads
\* has been checked against the ring.
RingInv ==
    /\ bnry \in Pages
    /\ \A a \in Addresses : mem[a][1] = "header" => mem[a][3] \in Nat
    /\ incoming.len \in Nat
    /\ cap \in Nat
    /\ pc \in {"header", "copy", "rest", "done"} => page \in Pages
    /\ pc \in {"copy", "rest", "done"} => next \in Pages /\ len \in 0..MAX_COUNT /\ len < MAX_COUNT

\* Sums of whole pages, for the solver, which does not multiply variables.
LEMMA PageArithmetic ==
    ASSUME NEW p \in Pages
    PROVE  /\ RX_START * UNITS \in Nat /\ RX_STOP * UNITS \in Nat /\ p * UNITS \in Nat
           /\ Size * UNITS = RX_STOP * UNITS - RX_START * UNITS
           /\ RX_START * UNITS <= p * UNITS
           /\ p * UNITS + UNITS <= RX_STOP * UNITS
<1>1. RX_START \in Nat /\ RX_STOP \in Nat /\ UNITS \in Nat /\ RX_START < RX_STOP
  BY NicAssumption
<1>2. p \in Nat /\ RX_START <= p /\ p + 1 <= RX_STOP
  BY <1>1 DEF Pages
<1>3. RX_START * UNITS \in Nat /\ RX_STOP * UNITS \in Nat /\ p * UNITS \in Nat
  BY <1>1, <1>2
<1>4. Size * UNITS = RX_STOP * UNITS - RX_START * UNITS
  BY <1>1 DEF Size
<1>5. p * UNITS = RX_START * UNITS + (p - RX_START) * UNITS /\ (p - RX_START) * UNITS \in Nat
  BY <1>1, <1>2
<1>6. RX_STOP * UNITS = p * UNITS + UNITS + (RX_STOP - (p + 1)) * UNITS /\ (RX_STOP - (p + 1)) * UNITS \in Nat
  BY <1>1, <1>2
<1> QED
  BY <1>1, <1>3, <1>4, <1>5, <1>6

\* The page after BNRY, around the end of the ring, is in the ring.
LEMMA WrapInRing == ASSUME NEW b \in Pages PROVE Wrap(b + 1) \in Pages
  BY NicAssumption DEF Wrap, Pages, Size

\* The new BNRY is in the ring.
LEMMA BoundaryInRing == ASSUME next \in Pages PROVE NewBoundary \in Pages
  BY NicAssumption DEF NewBoundary, Pages

\* What a header says is a count of units; payload read as one says anything.
LEMMA HeaderCounts ==
    ASSUME RingInv, pc = "header", NEW h \in AsHeader(mem[page * UNITS]), ~BadHeader(h[1], h[2])
    PROVE  h[1] \in Pages /\ h[2] \in 1..MAX_COUNT
<1>1. page \in Pages
  BY DEF RingInv
<1>2. page * UNITS \in Addresses
  BY <1>1, PageArithmetic, NicAssumption DEF Addresses
<1>3. h[2] \in Nat
  <2>1. CASE mem[page * UNITS][1] = "header"
    BY <2>1, <1>2 DEF RingInv, AsHeader
  <2>2. CASE mem[page * UNITS][1] # "header"
    BY <2>2, NicAssumption DEF AsHeader
  <2> QED BY <2>1, <2>2
<1> QED
  BY <1>3, NicAssumption DEF BadHeader

\* Every step keeps the invariant of the reader.
LEMMA RingStep == RingInv /\ [Next]_vars => RingInv'
<1> SUFFICES ASSUME RingInv, [Next]_vars PROVE RingInv'
  OBVIOUS
<1> USE DEF RingInv
<1> USE DEF card, transmitter, recv, send, ghost, vars
<1>1. ASSUME NEW n \in Lens, CardStores(n) PROVE RingInv'
  <2>1. n \in Nat BY NicAssumption
  <2>2. \A a \in Addresses : mem'[a][1] = "header" => mem'[a][3] \in Nat
    BY <1>1 DEF CardStores, Data
  <2> QED BY <1>1, <2>1, <2>2 DEF CardStores
<1>2. CASE CardCommits
  <2>1. \A a \in Addresses : mem'[a][1] = "header" => mem'[a][3] \in Nat
    BY <1>2 DEF CardCommits, Header
  <2> QED BY <1>2, <2>1 DEF CardCommits, Nothing
<1>3. CASE CardDiscards
  BY <1>3 DEF CardDiscards, Nothing
<1>4. CASE CardReads
  BY <1>4 DEF CardReads
<1>5. ASSUME NEW ok \in BOOLEAN, CardSends(ok) PROVE RingInv'
  BY <1>5 DEF CardSends
<1>6. CASE net_init \/ net_init_absent
  BY <1>6, NicAssumption DEF net_init, net_init_absent, Pages
<1>7. ASSUME NEW c \in Caps, RecvCall(c) PROVE RingInv'
  BY <1>7, NicAssumption DEF RecvCall, NewCall
<1>8. ASSUME NEW f \in TxFrames, SendCall(f) PROVE RingInv'
  BY <1>8 DEF SendCall, NewCall
<1>9. CASE RecvEmpty
  BY <1>9, WrapInRing DEF RecvEmpty, Leave
<1>10. CASE RecvHeader
  <2>1. PICK h \in AsHeader(mem[page * UNITS]) :
          IF BadHeader(h[1], h[2])
          THEN bnry' = RX_START /\ resynced' = TRUE /\ Leave
          ELSE /\ next' = h[1]
               /\ len' = IF h[2] - 1 > cap THEN cap ELSE h[2] - 1
               /\ pc' = "copy"
               /\ UNCHANGED <<bnry, resynced, cap, vcurr, page, buf>>
    BY <1>10 DEF RecvHeader
  <2>2. CASE BadHeader(h[1], h[2])
    BY <1>10, <2>1, <2>2, NicAssumption DEF RecvHeader, Leave, Pages
  <2>3. CASE ~BadHeader(h[1], h[2])
    <3>1. h[1] \in Pages /\ h[2] \in 1..MAX_COUNT
      BY <1>10, <2>3, HeaderCounts DEF RecvHeader
    <3> QED BY <1>10, <2>1, <2>3, <3>1, NicAssumption DEF RecvHeader
  <2> QED BY <2>2, <2>3
<1>11. CASE RecvCopy \/ RecvRest
  BY <1>11 DEF RecvCopy, RecvRest
<1>12. ASSUME NEW copied \in BOOLEAN, RecvDone(copied) PROVE RingInv'
  BY <1>12, BoundaryInRing DEF RecvDone, Leave
<1>13. CASE SendWait \/ SendWrite \/ SendStart \/ SendPoll
  BY <1>13 DEF SendWait, SendWrite, SendStart, SendPoll, Return
<1>14. CASE UNCHANGED vars
  BY <1>14
<1> QED
  BY <1>1, <1>2, <1>3, <1>4, <1>5, <1>6, <1>7, <1>8, <1>9, <1>10, <1>11, <1>12, <1>13, <1>14
  DEF Next, Card, Calls, Driver

\* From the invariant, every access is inside the ring.
LEMMA RingReads == RingInv => ReadsInsideRing
<1> SUFFICES ASSUME RingInv PROVE ReadsInsideRing
  OBVIOUS
<1>1. ASSUME pc \in {"header", "copy", "rest"}
      PROVE  /\ page * UNITS \in Addresses
             /\ src \in Addresses
             /\ RX_STOP * UNITS \in Nat /\ RX_START * UNITS \in Nat
             /\ src \in Nat /\ first \in Nat /\ first + src = RX_STOP * UNITS
             /\ RX_START * UNITS + MAX_COUNT <= RX_STOP * UNITS
  <2>1. page \in Pages BY <1>1 DEF RingInv
  <2> QED BY <2>1, PageArithmetic, NicAssumption DEF Addresses, src, first, Size
<1>2. ASSUME pc \in {"copy", "rest"} PROVE len \in Nat /\ len < MAX_COUNT
  BY <1>2, NicAssumption DEF RingInv
<1>3. ASSUME pc = "copy", first >= len PROVE len = 0 \/ src + len - 1 \in Addresses
  BY <1>1, <1>2, <1>3 DEF Addresses
<1>4. ASSUME pc \in {"copy", "rest"}, first < len
      PROVE  RX_START * UNITS + (len - first) - 1 \in Addresses
  BY <1>1, <1>2, <1>4, NicAssumption DEF Addresses
<1> QED
  BY <1>1, <1>3, <1>4 DEF ReadsInsideRing, RingInv

\* net_recv_frame reads inside the ring only and BNRY stays a page of it, for
\* every size of the ring and every content of its memory.
THEOREM ReadsInside == Spec => []ReadsInsideRing
<1>1. Init => RingInv
  BY NicAssumption DEF Init, RingInv, Pages, Junk, Nothing
<1> QED
  BY <1>1, RingStep, RingReads, PTL DEF Spec

-----------------------------------------------------------------------------
(* Sending. *)

Own(ok) == [first |-> frame, second |-> frame, ok |-> ok]
Report(ok) == {IF ok THEN "PTX" ELSE "TXE"}

\* Unless the wait gave up, the transmitter is idle and its reports are cleared
\* when a frame is started; from then on it has read this frame or nothing, and
\* the first report there is, is of this frame.
SendInv ==
    /\ ~txp => txread = Nothing
    /\ answer # "none" => pc = "idle"
    /\ ~overran =>
        /\ pc = "txwrite" => ~txp
        /\ pc = "txstart" => ~txp /\ isr = {} /\ txpage = frame
        /\ pc = "txpoll" =>
            /\ txpage = frame
            /\ txp => isr = {} /\ txread \in {Nothing, frame}
            /\ ~txp => \E ok \in BOOLEAN : wire = Own(ok) /\ isr = Report(ok)
        /\ answer \in {"sent", "failed"} => ~txp /\ wire = Own(answer = "sent")

\* Every step keeps the invariant of the sender.
LEMMA SendStep == SendInv /\ [Next]_vars => SendInv'
<1> SUFFICES ASSUME SendInv, [Next]_vars PROVE SendInv'
  OBVIOUS
<1> USE DEF SendInv, Own, Report
<1> USE DEF card, transmitter, recv, send, ghost, vars
<1>1. ASSUME NEW n \in Lens, CardStores(n) PROVE SendInv'
  BY <1>1 DEF CardStores
<1>2. CASE CardCommits \/ CardDiscards
  BY <1>2 DEF CardCommits, CardDiscards
<1>3. CASE CardReads
  BY <1>3 DEF CardReads
<1>4. ASSUME NEW ok \in BOOLEAN, CardSends(ok) PROVE SendInv'
  BY <1>4 DEF CardSends
<1>5. CASE net_init \/ net_init_absent
  BY <1>5 DEF net_init, net_init_absent
<1>6. ASSUME NEW c \in Caps, RecvCall(c) PROVE SendInv'
  BY <1>6 DEF RecvCall, NewCall
<1>7. ASSUME NEW f \in TxFrames, SendCall(f) PROVE SendInv'
  BY <1>7 DEF SendCall, NewCall
<1>8. CASE RecvEmpty
  BY <1>8 DEF RecvEmpty, Leave
<1>9. CASE RecvHeader
  BY <1>9 DEF RecvHeader, Leave
<1>10. CASE RecvCopy \/ RecvRest
  BY <1>10 DEF RecvCopy, RecvRest
<1>11. ASSUME NEW copied \in BOOLEAN, RecvDone(copied) PROVE SendInv'
  BY <1>11 DEF RecvDone, Leave
<1>12. CASE SendWait
  BY <1>12 DEF SendWait
<1>13. CASE SendWrite
  BY <1>13 DEF SendWrite
<1>14. CASE SendStart
  BY <1>14 DEF SendStart
<1>15. CASE SendPoll
  BY <1>15 DEF SendPoll, Return
<1>16. CASE UNCHANGED vars
  BY <1>16
<1> QED
  BY <1>1, <1>2, <1>3, <1>4, <1>5, <1>6, <1>7, <1>8, <1>9, <1>10, <1>11, <1>12, <1>13, <1>14,
     <1>15, <1>16
  DEF Next, Card, Calls, Driver

\* net_send_frame reports the outcome of its own frame, for every number of polls
\* and every speed of the card, unless the wait for the transmitter gave up.
THEOREM SendAnswers == Spec => []AnswerIsOwn
<1>1. Init => SendInv
  BY DEF Init, SendInv
<1>2. SendInv => AnswerIsOwn
  BY DEF SendInv, AnswerIsOwn, Own
<1> QED
  BY <1>1, <1>2, SendStep, PTL DEF Spec

=============================================================================
