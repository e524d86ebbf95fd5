-------------------------------- MODULE DwI2s --------------------------------
(***************************************************************************)
(* The DesignWare I2S driver (src/device/ip/designware/i2s/dw_i2s.c), one  *)
(* master device with data channel 0, transmitter or receiver.  The device *)
(* object, its registers and FIFO and the thread are one record; a         *)
(* function of the driver is an operator from record to record.  A stereo  *)
(* pair is its position in the buffer of the current transfer; 0 is        *)
(* padding, a leftover, or a pair that arrives after those asked for.      *)
(***************************************************************************)
EXTENDS Integers, Sequences

CONSTANTS Lens,        \* lengths of transfers, in samples: two make a pair
          Depth,       \* pairs in the FIFO: fifo_len, and the 16 of the routines
          Triggers     \* trigger levels: TXCHET or RXCHDT

VARIABLE i2s

I2sConstants == /\ Lens \subseteq Nat \ {0} /\ Depth \in Nat \ {0}
                /\ Triggers # {} /\ Triggers \subseteq 1 .. Depth - 1

NoBuf == [set |-> FALSE, len |-> 0, ofs |-> 0]              \* tx_buf, rx_buf
(* History of the current transfer: its pairs, those that came in, those   *)
(* that are through; a callback awaited; a pair lost, or the level or the  *)
(* FIFO disturbed under it; an end on a whole batch; a pair out of order,  *)
(* or outside the buffer.                                                  *)
NoHist == [all |-> 0, line |-> 0, next |-> 0, owed |-> FALSE, upset |-> FALSE,
           exact |-> FALSE, bad |-> FALSE, past |-> FALSE]

Init == \E dev \in {"tx", "rx"}, t \in Triggers :
  i2s = [dev |-> dev, opn |-> FALSE, en |-> FALSE, cur |-> "FREE",
         ip |-> FALSE, blk |-> FALSE, clk |-> FALSE, ien |-> FALSE,
         trig |-> t, over |-> FALSE, fifo |-> <<>>,
         buf |-> NoBuf, cb |-> FALSE,
         at |-> "idle", rem |-> 0, ofs |-> 0, done |-> 0,     \* the polled call
         h |-> NoHist, null |-> FALSE, call |-> "no", again |-> FALSE]

(* --------------------------- registers and FIFO ------------------------- *)

In(s) == IF s.dev = "tx" THEN "TX" ELSE "RX"                \* I2S_IN_TX, I2S_IN_RX
Running(s) == s.ip /\ s.blk /\ s.clk
Event(s) == IF s.dev = "tx" THEN Len(s.fifo) <= s.trig ELSE Len(s.fifo) > s.trig
Raised(s) == s.ip /\ s.ien /\ (s.over \/ Event(s))
flush_fifo(s) == [s EXCEPT !.fifo = <<>>, !.h.upset = @ \/ s.fifo # <<>>]
block_disable(s) == [s EXCEPT !.blk = FALSE]
dw_i2s_flush(s) == flush_fifo(block_disable(s))
dw_i2s_disable_dev_intr(s) == [s EXCEPT !.ien = FALSE]
dw_i2s_enable_dev_intr(s) == [s EXCEPT !.ien = TRUE]
(* The channel is off only while the block is: RER0 or TER0 adds nothing.  *)
dw_i2s_enable_device(s) == [s EXCEPT !.blk = TRUE]
dw_i2s_disable_device(s) == [s EXCEPT !.blk = FALSE]
clear_overrun_interrupt(s) == [s EXCEPT !.over = FALSE]
dw_i2s_reset_device(s) ==
  clear_overrun_interrupt([dw_i2s_disable_device(s) EXCEPT !.cur = "FREE"])

Through(h, k) == [h EXCEPT !.next = IF k = h.next + 1 THEN k ELSE @,
                           !.bad = @ \/ k # h.next + 1]
(* A store of pair k to LTHR0 and RTHR0: a full FIFO refuses it.           *)
Write(s, k) == [s EXCEPT !.fifo = IF Len(@) < Depth THEN Append(@, k) ELSE @,
                         !.over = @ \/ Len(s.fifo) = Depth,
                         !.h.upset = @ \/ Len(s.fifo) = Depth,
                         !.h.past = @ \/ k > s.h.all]
(* A load of LRBR0 and RRBR0 into pair k of the buffer, or to be dropped;  *)
(* an empty FIFO gives no pair.                                            *)
Read(s, k) ==
  LET v == IF s.fifo = <<>> THEN 0 ELSE Head(s.fifo)
  IN  [s EXCEPT !.fifo = IF @ = <<>> THEN @ ELSE Tail(@),
                !.h = IF k = 0 THEN @
                      ELSE [Through(@, v) EXCEPT !.bad = @ \/ v # k, !.past = @ \/ k > s.h.all]]
Each(F(_, _), s, ks) == LET t[i \in 0 .. Len(ks)] == IF i = 0 THEN s ELSE F(t[i - 1], ks[i])
                        IN  t[Len(ks)]
From(k, n) == [i \in 1 .. n |-> k + i]
Zeros(n) == [i \in 1 .. n |-> 0]

(* ------------------------------ polled calls ---------------------------- *)

(* count: samples still to go; the result's rem: what is left after it.    *)
Batch(s, avail) == IF s.rem \div 2 < avail THEN s.rem \div 2 ELSE avail
Left(s, avail) == IF s.rem \div 2 < avail THEN 0 ELSE s.rem - 2 * avail
dw_i2s_tx_write_samples(s) ==
  LET avail == Depth - s.ofs
      t == Each(Write, s, From(s.done, Batch(s, avail)))
      left == Left(s, avail)
  IN  [t EXCEPT !.rem = left, !.ofs = IF left = 0 THEN 0 ELSE s.trig,
                !.done = @ + (s.rem - left) \div 2]
dw_i2s_rx_read_samples(s) ==
  LET left == Left(s, s.trig)
      t == Each(Read, s, From(s.done, Batch(s, s.trig)))
  IN  [t EXCEPT !.rem = left, !.done = @ + (s.rem - left) \div 2]

(* A transfer begins: what a transmitter's FIFO still holds belongs to no  *)
(* buffer, what a receiver's holds comes first.                            *)
Begin(s, len) ==
  LET n == Len(s.fifo)
      all == len \div 2
  IN  IF s.dev = "tx"
      THEN [s EXCEPT !.fifo = Zeros(n), !.h = [NoHist EXCEPT !.all = all, !.upset = s.over]]
      ELSE [s EXCEPT !.fifo = [i \in 1 .. n |-> IF i <= all THEN i ELSE 0],
                     !.h = [NoHist EXCEPT !.all = all, !.upset = s.over,
                                          !.line = IF n < all THEN n ELSE all]]
dw_i2s_write(s, len) ==
  [dw_i2s_enable_device(Begin(s, len))
     EXCEPT !.cur = In(s), !.clk = TRUE, !.rem = len, !.ofs = 0, !.done = 0,
            !.h.owed = s.h.owed, !.h.exact = s.h.exact, !.h.upset = s.over \/ s.buf.len > 0,
            !.at = IF s.dev = "tx" THEN "copy" ELSE "wait"]
Returns(s) == [s EXCEPT !.cur = "FREE", !.at = "idle", !.done = 0, !.call = "poll"]
(* One turn of the loop: the copy, and the wait for TXFE or RXDA.          *)
Turn(s) == CASE s.at = "copy" -> [dw_i2s_tx_write_samples(s) EXCEPT !.at = "wait"]
             [] s.dev = "tx"  -> IF s.rem = 0 THEN Returns(s) ELSE [s EXCEPT !.at = "copy"]
             [] OTHER         -> LET r == dw_i2s_rx_read_samples(s)
                                 IN  IF r.rem = 0 THEN Returns(r) ELSE r

(* ------------------------- the interrupt routines ----------------------- *)

Called(s, what) == [s EXCEPT !.call = what, !.again = ~ s.h.owed, !.h.owed = FALSE]
(* Mutant: only the last, partial batch frees the device. *)
Success_Busy(s) ==
  LET t == [s EXCEPT !.cur = IF s.buf.len = 0 THEN "FREE" ELSE @]
  IN  IF s.buf.len > 0 THEN t
      ELSE IF s.cb THEN Called([t EXCEPT !.at = "callback"], "done") ELSE Called(t, "end")
(* Mutant: the callback comes with a pair to go. *)
Success_Early(s) ==
  LET t == [s EXCEPT !.cur = "FREE"]
  IN  IF s.buf.len > 3 THEN t
      ELSE IF s.cb THEN Called([t EXCEPT !.at = "callback"], "done") ELSE Called(t, "end")
Success(s) ==
  LET t == [s EXCEPT !.cur = "FREE"]
  IN  IF s.buf.len > 0 THEN t
      ELSE IF s.cb THEN Called([t EXCEPT !.at = "callback"], "done") ELSE Called(t, "end")
(* Mutant: the interrupt stays off after a whole batch. *)
Batched_Off(s, n) ==
  clear_overrun_interrupt(
    [s EXCEPT !.buf.ofs = @ + 1, !.buf.len = @ - 2 * n, !.h.exact = @ \/ s.buf.len = 2 * n])
(* What follows a whole batch of n pairs: the transfer goes on, even when  *)
(* the buffer is used up exactly.                                          *)
Batched(s, n) ==
  dw_i2s_enable_dev_intr(clear_overrun_interrupt(
    [s EXCEPT !.buf.ofs = @ + 1, !.buf.len = @ - 2 * n, !.h.exact = @ \/ s.buf.len = 2 * n]))
(* Mutant: the interrupt is switched on after the last batch too. *)
Last_On(s) == dw_i2s_enable_dev_intr(clear_overrun_interrupt([s EXCEPT !.buf.len = 0]))
Last(s) == clear_overrun_interrupt([s EXCEPT !.buf.len = 0])

(* Mutant: the offset is not scaled by the batch. *)
dw_i2s_mst_int_write_Ofs(s) ==
  LET n == Depth - s.trig
      o == s.buf.ofs
      e == IF s.over THEN Called([s EXCEPT !.cur = "FREE"], "err") ELSE s
      pairs == s.buf.len \div 2
  IN  IF ~ Event(s) THEN e
      ELSE IF s.buf.len >= 2 * n THEN Success(Batched(Each(Write, e, From(o, n)), n))
      ELSE Success(Last(Each(Write, e, From(o, pairs) \o Zeros(n - pairs))))
dw_i2s_mst_int_write(s) ==
  LET n == Depth - s.trig
      o == s.buf.ofs * n
      e == IF s.over THEN Called([s EXCEPT !.cur = "FREE"], "err") ELSE s
      pairs == s.buf.len \div 2
  IN  IF ~ Event(s) THEN e
      ELSE IF s.buf.len >= 2 * n THEN Success(Batched(Each(Write, e, From(o, n)), n))
      ELSE Success(Last(Each(Write, e, From(o, pairs) \o Zeros(n - pairs))))
(* Mutant: the last batch is stored as a whole. *)
dw_i2s_mst_int_rx_Whole(s) ==
  LET n == s.trig
      o == s.buf.ofs * n
  IN  IF s.buf.len >= 2 * n THEN Success(Batched(Each(Read, s, From(o, n)), n))
      ELSE Success(Last(Each(Read, s, From(o, n))))
(* After an overrun the whole FIFO is stored in the buffer, and the pairs  *)
(* read next, of the empty FIFO, over it.                                  *)
dw_i2s_mst_int_rx(s) ==
  LET n == s.trig
      o == s.buf.ofs * n
      e == IF s.over THEN Each(Read, [s EXCEPT !.cur = "FREE"], From(o, Depth)) ELSE s
      pairs == s.buf.len \div 2
  IN  IF ~ Event(s) THEN e
      ELSE IF s.buf.len >= 2 * n THEN Success(Batched(Each(Read, e, From(o, n)), n))
      ELSE Success(Last(Each(Read, e, From(o, pairs) \o Zeros(n - pairs))))
(* dw_i2s_isr_tx and dw_i2s_isr_rx. *)
dw_i2s_isr(s) ==
  LET t == [dw_i2s_disable_dev_intr(s) EXCEPT !.cur = In(s)]
  IN  IF s.cur # "FREE" THEN s                                       \* E_CTX
      ELSE IF ~ s.buf.set THEN [t EXCEPT !.null = TRUE]
      ELSE IF s.dev = "tx" THEN dw_i2s_mst_int_write(t) ELSE dw_i2s_mst_int_rx(t)

(* ---------------------------- open and control -------------------------- *)

dw_i2s_open(s) ==
  IF s.opn THEN s                                                    \* E_OPNED
  ELSE [dw_i2s_disable_dev_intr(dw_i2s_flush(s))
          EXCEPT !.opn = TRUE, !.en = TRUE, !.cur = "FREE", !.ip = TRUE, !.clk = FALSE,
                 !.buf = NoBuf, !.cb = FALSE, !.h = NoHist, !.null = FALSE]
dw_i2s_close(s) ==
  IF ~ s.opn THEN s
  ELSE [dw_i2s_disable_dev_intr(dw_i2s_flush(s))
          EXCEPT !.opn = FALSE, !.en = FALSE, !.cur = "FREE", !.ip = FALSE,
                 !.buf = NoBuf, !.cb = FALSE, !.h = NoHist, !.null = FALSE]
SetBuf(s, len) ==
  IF s.cur # "FREE" THEN s                                           \* E_CTX
  ELSE IF len = 0 THEN [Begin(s, 0) EXCEPT !.buf = NoBuf]
  ELSE [Begin(s, len) EXCEPT !.buf = [set |-> TRUE, len |-> len, ofs |-> 0], !.h.owed = s.ien]
(* I2S_CMD_SET_TXCHET_BUF, I2S_CMD_SET_RXCHDT_BUF.                         *)
SetTrigger(s, t) ==
  IF s.cur # "FREE" THEN s
  ELSE [s EXCEPT !.trig = t, !.h.upset = @ \/ s.buf.ofs > 0]
dw_i2s_control(s, cmd) ==
  CASE cmd = "ENA_DEV" -> [dw_i2s_enable_device(s) EXCEPT !.en = TRUE]
    [] cmd = "DIS_DEV" -> [dw_i2s_disable_device(s) EXCEPT !.en = FALSE]
    [] cmd = "RESET"   -> dw_i2s_reset_device(s)
    [] ~ s.en          -> s                                          \* E_SYS
    [] cmd = "FLUSH"   -> dw_i2s_flush(s)
    [] cmd = "SET_CB"  -> [s EXCEPT !.cb = TRUE]
    [] cmd = "INT_ON"  -> [dw_i2s_enable_dev_intr(s) EXCEPT !.h.owed = @ \/ s.buf.set]
    [] cmd = "INT_OFF" -> [dw_i2s_disable_dev_intr(s) EXCEPT !.h.owed = FALSE]
    [] cmd = "CLK_ON"  -> [s EXCEPT !.clk = TRUE]
    [] cmd = "SET_WSS" -> [s EXCEPT !.clk = FALSE]       \* and SCLKG, and clock off

(* ------------------------------- behaviour ------------------------------ *)

(* The history of a transfer that was upset tells no more than that.       *)
Forget(s) == IF s.h.upset THEN [s EXCEPT !.fifo = Zeros(Len(@)), !.h.next = 0, !.h.line = 0, !.h.bad = FALSE,
                                         !.h.past = FALSE]
             ELSE s
Set(s) == i2s' = Forget(s)
Now == [i2s EXCEPT !.call = "no", !.again = FALSE]
Commands == {"ENA_DEV", "DIS_DEV", "RESET", "FLUSH", "SET_CB", "INT_ON", "INT_OFF",
             "CLK_ON", "SET_WSS"}

Idle == i2s.at = "idle"
Open == Idle /\ Set(dw_i2s_open(Now))
Close == Idle /\ Set(dw_i2s_close(Now))
Control == Idle /\ i2s.opn /\ \E c \in Commands : Set(dw_i2s_control(Now, c))
SetBuffer == Idle /\ i2s.en /\ \E n \in Lens \cup {0} : Set(SetBuf(Now, n))
SetLevel == Idle /\ i2s.en /\ \E t \in Triggers : Set(SetTrigger(Now, t))
(* An odd sample at the end is counted and dropped.                        *)
Transfer == Idle /\ i2s.en /\ i2s.cur = "FREE" /\ \E n \in Lens : Set(dw_i2s_write(Now, n))
CanTurn == i2s.at = "copy" \/ (i2s.at = "wait" /\ Event(i2s))
Poll == CanTurn /\ Set(Turn(Now))
Isr == Raised(i2s) /\ i2s.at # "callback" /\ Set(dw_i2s_isr(Now))
(* The routine is left; before that a callback may switch the interrupt    *)
(* off, or go on with another buffer.                                      *)
Callback ==
  /\ i2s.at = "callback"
  /\ LET t == [Now EXCEPT !.at = "idle"]
     IN  Set(t) \/ Set(dw_i2s_control(t, "INT_OFF"))
         \/ \E n \in Lens : Set(dw_i2s_control(SetBuf(t, n), "INT_ON"))
(* The line: a pair goes out, or comes in and is lost when there is no     *)
(* room; a thread that polls is never late.                                *)
Shift == /\ i2s.dev = "tx" /\ Running(i2s) /\ i2s.fifo # <<>>
         /\ Set([Now EXCEPT !.fifo = Tail(@),
                   !.h = IF Head(i2s.fifo) = 0 THEN @ ELSE Through(@, Head(i2s.fifo))])
CanArrive == i2s.dev = "rx" /\ Running(i2s) /\ (i2s.at \notin {"copy", "wait"} \/ Len(i2s.fifo) < Depth)
Arrive == /\ CanArrive
          /\ LET full == Len(i2s.fifo) = Depth
                 k == IF i2s.h.line < i2s.h.all THEN i2s.h.line + 1 ELSE 0
             IN  Set([Now EXCEPT !.over = @ \/ full, !.h.upset = @ \/ full,
                        !.h.line = IF k = 0 \/ full THEN @ ELSE k,
                        !.fifo = IF full THEN @ ELSE Append(@, k)])

Next == Open \/ Close \/ Control \/ SetBuffer \/ SetLevel \/ Transfer \/ Poll \/ Isr
        \/ Callback \/ Shift \/ Arrive
Spec == Init /\ [][Next]_i2s
(* Weak fairness of the line, of the routine and, while no interrupt is    *)
(* raised, of a polling thread, each guard written in place of ENABLED.    *)
Fairness ==
  /\ []<>(~ (i2s.dev = "tx" /\ Running(i2s) /\ i2s.fifo # <<>>)) \/ []<><<Shift>>_i2s
  /\ []<>(~ CanArrive) \/ []<><<Arrive>>_i2s
  /\ []<>(~ (Raised(i2s) /\ i2s.cur = "FREE" /\ i2s.at = "idle")) \/ []<><<Isr>>_i2s
  /\ []<>(i2s.at # "callback") \/ []<><<Callback>>_i2s
  /\ []<>(~ CanTurn \/ Raised(i2s)) \/ []<><<Poll>>_i2s
FairSpec == Spec /\ Fairness

(* ------------------------------ properties ------------------------------ *)

(* Every field has its type, the FIFO holds what it can, and the state     *)
(* names the direction of the device.                                      *)
TypeOK == /\ i2s.dev \in {"tx", "rx"} /\ i2s.cur \in {"FREE", In(i2s)}
          /\ i2s.trig \in Triggers /\ Len(i2s.fifo) <= Depth
          /\ i2s.at \in {"idle", "copy", "wait", "callback"}
          /\ i2s.buf.len >= 0 /\ i2s.rem >= 0

(* The pairs of a buffer leave, or are stored, once each and in order,     *)
(* polled or by interrupts (dw_i2s_tx_write_samples against the buffer's   *)
(* moving start, dw_i2s_mst_int_write against tx_buf.ofs); the only ways   *)
(* to break it are a FIFO that overflowed or was flushed, and a level or a *)
(* polled call put into the middle of an interrupt transfer.               *)
InOrder == i2s.h.bad => i2s.h.upset

(* No routine reaches beyond the buffer, unless the receiver overran or    *)
(* the level was changed under a transfer (dw_i2s_mst_int_rx stores a      *)
(* whole FIFO after an overrun, whatever is left of the buffer).           *)
InBuffer == i2s.h.past => i2s.h.upset

(* The callback, and the return of a polled call, mean that every pair of  *)
(* the buffer is stored, or is out or in the FIFO.                         *)
Useful(f) == Len(SelectSeq(f, LAMBDA k : k # 0))
ToldWhenThrough ==
  i2s.call \in {"done", "poll"} /\ ~ i2s.h.upset =>
    i2s.h.next + (IF i2s.dev = "tx" THEN Useful(i2s.fifo) ELSE 0) = i2s.h.all

(* A transfer has one callback, unless its length is a multiple of the     *)
(* batch, when the interrupt stays on after the callback, or an overflow   *)
(* was reported first.                                                     *)
CalledOnce == i2s.again => \/ i2s.h.exact \/ i2s.h.upset
                           \/ i2s.h.all = 0

(* The driver refuses calls with E_CTX for ever only after a routine found *)
(* no buffer; every other way out of a routine frees the device.           *)
NotWedged == i2s.at = "idle" /\ i2s.cur # "FREE" => i2s.null

(* An interrupt transfer on a running device ends, unless its client keeps *)
(* replacing the buffer or polling, or an overrun is pending with the FIFO *)
(* flushed under it: then the routine leaves the interrupt off and calls   *)
(* nobody.  A polled call ends, unless it is kept from running by the      *)
(* interrupt that the routine then refuses to serve.                       *)
Armed == i2s.h.owed /\ Running(i2s) /\ ~ i2s.over /\ i2s.cur = "FREE"
BufferEnds == []<>(~ Armed) \/ []<><<SetBuffer \/ Transfer \/ Callback>>_i2s
Polling == i2s.at # "idle" /\ ~ i2s.ien
=============================================================================
