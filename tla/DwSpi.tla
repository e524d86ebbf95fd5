-------------------------------- MODULE DwSpi --------------------------------
(***************************************************************************)
(* The DesignWare SPI driver (src/device/ip/designware/spi/dw_spi.c).  The *)
(* device object, its registers and FIFOs and the thread that uses it are  *)
(* one record; a function of the driver is an operator from record to      *)
(* record.  The thread's calls, the interrupt routine and the shift        *)
(* register interleave; a polled transfer is interrupted between any two   *)
(* of its turns.  The slave answers each frame with the frame's number.    *)
(***************************************************************************)
EXTENDS Integers, Sequences

CONSTANTS Chains,      \* chains of transfers: records [to, tl, ro, rl]
          Sizes,       \* data frame sizes the client asks for, in bits
          Depth,       \* length of either FIFO
          MaxOpen,     \* bound: opn_cnt
          Careless     \* the habits of a client that is not Allowed them

VARIABLE spi

Kind == {"snd", "rcv", "xfer"}
InXfer == {"TX", "RX", "XF"}                              \* DW_SPI_IN_XFER
In(k) == CASE k = "snd" -> {"TX", "XF"} [] k = "rcv" -> {"RX", "XF"} [] OTHER -> InXfer
Running(s) == s.st \cap InXfer
NoXfer == [tx |-> <<>>, rx |-> <<>>, tk |-> 0, rk |-> 0, ti |-> 0, ri |-> 0,
           n |-> 0, len |-> 0]                            \* dw_xfer cleared by memset

SpiConstants == /\ Depth \in Nat \ {0} /\ MaxOpen \in Nat /\ Sizes \subseteq Nat
                /\ Careless \subseteq STRING /\ \A c \in Chains : c # <<>>

Init == spi = [opn |-> 0, st |-> {}, dfs |-> 8, hdfs |-> 0, sel |-> FALSE, ssi |-> FALSE,
               gint |-> FALSE, imr |-> FALSE, irq |-> FALSE, cbs |-> {},
               xf |-> NoXfer, txf |-> <<>>, sh |-> <<>>, rxf |-> <<>>, lost |-> FALSE,
               at |-> "idle", masked |-> FALSE,
               chain |-> <<>>, wire |-> <<>>, got |-> <<>>,   \* history: of this transfer
               owed |-> {}, calls |-> {}, extra |-> FALSE]    \* history: callbacks

(* ------------------------------ registers ------------------------------ *)

(* Clearing SSIENR empties both FIFOs and stops the shift register.        *)
dw_spi_disable(s) == [s EXCEPT !.ssi = FALSE, !.txf = <<>>, !.sh = <<>>, !.rxf = <<>>]
dw_spi_enable(s) == [s EXCEPT !.ssi = TRUE]
dw_spi_reset_fifo(s) == dw_spi_enable(dw_spi_disable(s))
dw_spi_set_freq(s) == dw_spi_reset_fifo(s)
dw_spi_set_clockmode(s) == dw_spi_reset_fifo(s)
dw_spi_set_dfs(s, d) == IF d <= 3 \/ d > 16 THEN s
                        ELSE [dw_spi_reset_fifo(s) EXCEPT !.dfs = d, !.hdfs = d]
dw_spi_busy(s) == s.txf # <<>> \/ s.sh # <<>>
dw_spi_select_slave(s, on) == IF dw_spi_busy(s) THEN s ELSE [s EXCEPT !.sel = on]
dw_spi_hw_init(s) ==
  dw_spi_enable([dw_spi_disable(s) EXCEPT !.imr = FALSE, !.sel = FALSE,
                                      !.dfs = 8, !.hdfs = 8])
(* dw_spi_quad_disable clears CTRLR0 with the frame size and clock mode.   *)
dw_spi_quad_receive(s) == [dw_spi_reset_fifo(s) EXCEPT !.hdfs = 1]
(* ISR: what is raised and not masked, read when the routine starts.       *)
TxEmpty(s) == s.ssi /\ s.imr /\ s.txf = <<>>
RxFull(s) == s.ssi /\ s.imr /\ s.rxf # <<>>
Overrun(s) == s.ssi /\ s.imr /\ s.lost

(* ------------------------ interrupts and aborts ------------------------ *)

dw_spi_enable_device(s) == IF "EN" \in s.st THEN s
                           ELSE [dw_spi_enable(s) EXCEPT !.st = @ \cup {"EN"}]
dw_spi_disable_device(s) == [dw_spi_disable(s) EXCEPT !.st = @ \ {"EN"}]

Quiet(s) == [s EXCEPT !.imr = FALSE, !.gint = FALSE, !.irq = @ /\ ~ s.gint]
dw_spi_dis_cbr(s, k) ==
  IF Running(s) \notin {{}, In(k)} THEN s
  ELSE Quiet([s EXCEPT !.st = @ \ In(k), !.owed = {}])
(* Mutant: the transfer in progress is not looked for. *)
dw_spi_ena_cbr_Always(s, k) ==
  [s EXCEPT !.st = @ \cup In(k), !.imr = TRUE, !.gint = TRUE, !.irq = TRUE, !.owed = {k}]
dw_spi_ena_cbr(s, k) ==
  IF Running(s) # {} THEN s
  ELSE [s EXCEPT !.st = @ \cup In(k), !.imr = TRUE, !.gint = TRUE,
                 !.irq = @ \/ ~ s.gint, !.owed = {k}]
(* Mutant: the status bits stay. *)
dw_spi_disable_interrupt_Kept(s) == [Quiet(s) EXCEPT !.irq = FALSE, !.owed = {}]
dw_spi_disable_interrupt(s) ==
  LET t == dw_spi_dis_cbr(dw_spi_dis_cbr(dw_spi_dis_cbr(s, "snd"), "rcv"), "xfer")
  IN  [t EXCEPT !.imr = FALSE, !.st = @ \ InXfer, !.irq = FALSE, !.gint = FALSE,
                !.owed = {}]
dw_spi_reset_device(s) ==
  dw_spi_enable_device([dw_spi_disable_interrupt(dw_spi_disable_device(s))
                          EXCEPT !.lost = FALSE])

(* The callback of a transfer; extra notes one that nobody waits for.      *)
Calls(s, k, t) == [t EXCEPT !.calls = IF k \in s.cbs THEN {k} ELSE {},
                            !.extra = @ \/ k \notin s.owed]
Abrt(k) == CASE k = "snd" -> "TX_ABRT" [] k = "rcv" -> "RX_ABRT" [] OTHER -> "XFER_ABRT"
(* The second half of an abort; its first half has found In(k) running.    *)
dw_spi_abort(s, k) ==
  LET t == dw_spi_dis_cbr(s, k)
      u == Calls(s, k, [t EXCEPT !.st = @ \cup {Abrt(k)}])
  IN  [u EXCEPT !.st = @ \ {Abrt(k)}]

(* ------------------------------ transfers ------------------------------ *)

Least(a, b) == IF a < b THEN a ELSE b
TotLen(e) == IF e.to + e.tl < e.ro + e.rl THEN e.ro + e.rl ELSE e.to + e.tl
dw_spi_nbytes(dfs) == IF dfs > 8 THEN 2 ELSE 1
TxAvail(s) == Depth - Len(s.txf)
RxAvail(s) == Len(s.rxf)
(* The divisions by nbytes: after a memset of dw_xfer it is zero.          *)
dw_spi_tx_max(s) == Least((s.xf.len - s.xf.ti) \div s.xf.n, TxAvail(s))
dw_spi_rx_max(s) == Least((s.xf.len - s.xf.ri) \div s.xf.n, RxAvail(s))
(* Mutant: the transfer ends when everything is written. *)
dw_spi_xfer_end_Written(s) == s.xf.ti >= s.xf.len
dw_spi_xfer_end(s) == s.xf.ti >= s.xf.len /\ s.xf.ri >= s.xf.len

Dummy == <<0, 0>>
(* One turn of the writer's loop: the chain moves on by one transfer, then *)
(* a frame of the buffer or a dummy is put into the FIFO.                  *)
Send(s) ==
  LET over == s.xf.tk >= TotLen(Head(s.xf.tx))
      c == IF over THEN Tail(s.xf.tx) ELSE s.xf.tx
      k == IF over THEN 0 ELSE s.xf.tk
      e == Head(c)
      data == IF k >= e.to /\ k < e.to + e.tl
              THEN <<Len(s.chain) - Len(c) + 1, k - e.to>> ELSE Dummy
  IN  IF s.xf.tx = <<>> THEN s
      ELSE IF c = <<>> THEN [s EXCEPT !.xf.tx = c]
      ELSE [s EXCEPT !.xf.tx = c, !.xf.tk = k + s.xf.n, !.xf.ti = @ + s.xf.n,
                     !.txf = Append(@, [data |-> data, nr |-> s.xf.ti])]
Receive(s) ==
  LET over == s.xf.rk >= TotLen(Head(s.xf.rx))
      c == IF over THEN Tail(s.xf.rx) ELSE s.xf.rx
      k == IF over THEN 0 ELSE s.xf.rk
      e == Head(c)
      kept == k >= e.ro /\ k < e.ro + e.rl
  IN  IF s.xf.rx = <<>> THEN s
      ELSE IF c = <<>> THEN [s EXCEPT !.xf.rx = c]
      ELSE [s EXCEPT !.xf.rx = c, !.xf.rk = k + s.xf.n, !.xf.ri = @ + s.xf.n,
                     !.rxf = Tail(@), !.got = IF kept THEN Append(@, Head(s.rxf)) ELSE @]
Repeat(F(_), s, n) == LET t[i \in 0 .. n] == IF i = 0 THEN s ELSE F(t[i - 1]) IN t[n]
dw_spi_writer(s) == IF s.xf.tx = <<>> THEN s ELSE Repeat(Send, s, dw_spi_tx_max(s))
dw_spi_reader(s) == IF s.xf.rx = <<>> THEN s ELSE Repeat(Receive, s, dw_spi_rx_max(s))

Total(c) == LET t[i \in 0 .. Len(c)] == IF i = 0 THEN 0 ELSE t[i - 1] + TotLen(c[i])
            IN  t[Len(c)]
dw_spi_init_transfer(s, c) ==
  [s EXCEPT !.xf = [NoXfer EXCEPT !.tx = c, !.rx = c, !.n = dw_spi_nbytes(s.dfs),
                                  !.len = Total(c)],
            !.chain = c, !.wire = <<>>, !.got = <<>>]
(* Mutant: the alignment of a transfer is not looked at. *)
dw_spi_chk_xfer_aligned_Any(c, dfs) == c # <<>>
dw_spi_chk_xfer_aligned(c, dfs) ==
  /\ c # <<>>
  /\ dfs > 8 => \A i \in DOMAIN c : /\ c[i].tl # 0 => c[i].tl % 2 = 0 /\ c[i].to % 2 = 0
                                    /\ c[i].rl # 0 => c[i].rl % 2 = 0 /\ c[i].ro % 2 = 0
TxBuf(n) == <<[to |-> 0, tl |-> n, ro |-> n, rl |-> 0]>>
RxBuf(n) == <<[to |-> n, tl |-> 0, ro |-> 0, rl |-> n]>>

(* --------------------------- the API, one call -------------------------- *)

dw_spi_open(s, master) ==
  IF s.opn > 0 THEN [s EXCEPT !.opn = @ + 1]
  ELSE LET h == dw_spi_hw_init([s EXCEPT !.opn = 1])
           t == IF master THEN dw_spi_set_freq(dw_spi_select_slave(h, FALSE)) ELSE h
           u == dw_spi_init_transfer([t EXCEPT !.st = {"EN"}, !.gint = FALSE], <<>>)
       IN  [dw_spi_disable_interrupt(u) EXCEPT !.cbs = {}]
(* disable_interrupt leaves nothing for the two aborts that follow it.     *)
dw_spi_close(s) ==
  IF s.opn # 1 THEN [s EXCEPT !.opn = IF @ > 0 THEN @ - 1 ELSE 0]
  ELSE LET t == dw_spi_disable_interrupt([s EXCEPT !.opn = 0])
       IN  [dw_spi_disable_device([t EXCEPT !.cbs = {}, !.xf = NoXfer]) EXCEPT !.st = {}]

(* Mutant: a transfer in progress refuses nothing. *)
Refused_Never(s) == FALSE
Refused(s) == "XF" \in s.st                                        \* E_CTX
Accepts(s, c) == ~ Refused(s) /\ dw_spi_chk_xfer_aligned(c, s.dfs)
(* SPI_CMD_SET_TXINT_BUF and SPI_CMD_SET_RXINT_BUF.                        *)
SetBuf(s, c) == IF Accepts(s, c) THEN dw_spi_init_transfer(s, c) ELSE s
(* SPI_CMD_TRANSFER_INT. *)
TransferInt(s, c) == IF Accepts(s, c) THEN dw_spi_ena_cbr(dw_spi_init_transfer(s, c), "xfer")
                     ELSE s

(* The commands that only change registers: refused during a transfer.     *)
Setting(s, cmd, d) ==
  IF Refused(s) THEN s
  ELSE CASE cmd = "SET_CLK_MODE" -> dw_spi_set_clockmode(s)
         [] cmd = "FLUSH"        -> dw_spi_reset_fifo(s)
         [] cmd = "MST_SET_FREQ" -> dw_spi_set_freq(s)
         [] cmd = "MST_SEL_DEV"  -> dw_spi_select_slave(s, TRUE)
         [] cmd = "MST_DSEL_DEV" -> dw_spi_select_slave(s, FALSE)
         [] cmd = "SET_DFS"      -> dw_spi_set_dfs(s, d)
(* The commands with no check on a transfer.                               *)
dw_spi_control(s, cmd) ==
  CASE cmd = "ENA_DEV" -> dw_spi_enable_device(s)
    [] cmd = "DIS_DEV" -> dw_spi_disable_device(s)
    [] cmd = "RESET"   -> dw_spi_reset_device(s)
    [] "EN" \notin s.st -> s                                       \* E_SYS
    [] cmd = "SET_CB"  -> [s EXCEPT !.cbs = Kind \cup {"err"}]
    [] cmd = "TXINT"   -> dw_spi_ena_cbr(s, "snd")
    [] cmd = "RXINT"   -> dw_spi_ena_cbr(s, "rcv")
    [] cmd = "TXINT0"  -> dw_spi_dis_cbr(s, "snd")
    [] cmd = "RXINT0"  -> dw_spi_dis_cbr(s, "rcv")
    [] cmd = "XFER0"   -> dw_spi_dis_cbr(s, "xfer")

(* dw_spi_isr; then: the chain the callback starts, if it starts one.      *)
Ended(s, then) ==
  LET k == CHOOSE x \in Kind \cup {"none"} :
             IF Running(s) \in {In(y) : y \in Kind} THEN x \in Kind /\ In(x) = Running(s)
                                                    ELSE x = "none"
      t == IF k = "none" THEN dw_spi_disable_interrupt(s) ELSE Calls(s, k, dw_spi_dis_cbr(s, k))
      u == IF then # <<>> /\ t.calls # {} THEN TransferInt(t, then) ELSE t
  IN  [u EXCEPT !.xf = NoXfer]
(* After the error callback dw_xfer is cleared, so that the reader divides *)
(* by zero; with a division that does not trap the rest finds a transfer   *)
(* of length zero that has ended.                                          *)
Failed(s) == [dw_spi_disable_interrupt([s EXCEPT !.lost = FALSE])
                EXCEPT !.calls = {"err"} \cap s.cbs, !.xf = NoXfer]
dw_spi_isr(s, then) ==
  LET r == dw_spi_reader(s)
      w == IF TxEmpty(s) THEN dw_spi_writer(r) ELSE r
  IN  IF s.xf.len = 0 THEN dw_spi_disable_interrupt(s)
      ELSE IF Overrun(s) THEN Failed(s)
      ELSE IF dw_spi_xfer_end(w) THEN Ended(w, then) ELSE w

(* ------------------------------- behaviour ------------------------------ *)

Set(s) == spi' = [s EXCEPT !.calls = {}]
(* What the client must see to, because the driver does not: the device is *)
(* disabled and read in quad mode between transfers, the FIFOs are flushed *)
(* after a transfer that was cut short, and the frame size is set again    *)
(* after a quad read.                                                      *)
Quietly(habit) == habit \in Careless \/ Running(spi) = {}
Ready == /\ spi.at = "idle" /\ "EN" \in spi.st /\ spi.sel
         /\ "stale" \notin Careless /\ Running(spi) = {} =>
              ~ dw_spi_busy(spi) /\ spi.rxf = <<>> /\ spi.hdfs = spi.dfs

Open == spi.at = "idle" /\ spi.opn < MaxOpen
        /\ \E m \in BOOLEAN : Set(dw_spi_open(spi, m))
Close == spi.at = "idle" /\ Set(dw_spi_close(spi))
Control == /\ spi.at = "idle" /\ spi.opn > 0
           /\ \E c \in {"SET_CB", "ENA_DEV", "RESET", "TXINT0", "RXINT0", "XFER0"} :
                Set(dw_spi_control(spi, c))
Disable == /\ spi.at = "idle" /\ spi.opn > 0 /\ Quietly("disable")
           /\ Set(dw_spi_control(spi, "DIS_DEV"))
QuadRead == /\ spi.at = "idle" /\ "EN" \in spi.st /\ Quietly("quad")
            /\ Set(dw_spi_quad_receive(spi))
Settings == /\ spi.at = "idle" /\ "EN" \in spi.st
            /\ \/ \E c \in {"SET_CLK_MODE", "FLUSH", "MST_SET_FREQ", "MST_SEL_DEV", "MST_DSEL_DEV"} :
                    Set(Setting(spi, c, 0))
               \/ \E d \in Sizes : Set(Setting(spi, "SET_DFS", d))
(* The buffer is set and the interrupt enabled by two calls.               *)
Arm == /\ Ready
       /\ \E n \in 1 .. 2 * Depth :
            \/ /\ Accepts(spi, TxBuf(n)) \/ Running(spi) # {}
               /\ Set(dw_spi_control(SetBuf(spi, TxBuf(n)), "TXINT"))
            \/ /\ Accepts(spi, RxBuf(n)) \/ Running(spi) # {}
               /\ Set(dw_spi_control(SetBuf(spi, RxBuf(n)), "RXINT"))
Start == /\ Ready
         /\ \E c \in Chains : Set(TransferInt(spi, c))

(* dw_spi_write, dw_spi_read and SPI_CMD_TRANSFER_POLLING.                 *)
dw_spi_write == /\ Ready /\ "XF" \notin spi.st
                /\ \E c \in Chains : /\ dw_spi_chk_xfer_aligned(c, spi.dfs)
                                     /\ Set([dw_spi_init_transfer(spi, c)
                                               EXCEPT !.st = @ \cup {"XF"}, !.at = "write"])
dw_spi_poll_transfer ==
  /\ spi.at \in {"write", "read"}
  /\ IF spi.at = "write" THEN Set([dw_spi_writer(spi) EXCEPT !.at = "read"])
     ELSE LET r == dw_spi_reader(spi)
          IN  Set(IF dw_spi_xfer_end(r) THEN [r EXCEPT !.st = @ \ {"XF"}, !.at = "idle"]
                                        ELSE [r EXCEPT !.at = "write"])

(* The three aborts: the state is looked at, then the interrupt is closed. *)
(* A client with no critical section is interrupted in between.            *)
Abort == /\ spi.at = "idle" /\ "EN" \in spi.st
         /\ \E k \in Kind : /\ Running(spi) = In(k)
                            /\ Set([spi EXCEPT !.at = k, !.masked = "unmasked" \notin Careless])
AbortRest == /\ spi.at \in Kind
             /\ spi' = [dw_spi_abort(spi, spi.at) EXCEPT !.at = "idle", !.masked = FALSE]

Raised == spi.irq /\ ~ spi.masked /\ (TxEmpty(spi) \/ RxFull(spi) \/ Overrun(spi))
Isr == /\ Raised
       /\ \E c \in {<<>>} \cup (IF "restart" \in Careless THEN Chains ELSE {}) :
            spi' = dw_spi_isr([spi EXCEPT !.calls = {}], c)

(* The shift register: a frame of the transmit FIFO goes out while one     *)
(* comes in.  The routine and the polling loop are never a FIFO late.      *)
Load == /\ spi.ssi /\ spi.sel /\ spi.sh = <<>> /\ spi.txf # <<>>
        /\ Set([spi EXCEPT !.sh = <<Head(spi.txf)>>, !.txf = Tail(@),
                           !.wire = Append(@, Head(spi.txf).data)])
Shift == /\ spi.sh # <<>>
         /\ "late" \in Careless \/ Len(spi.rxf) < Depth
         /\ LET full == Len(spi.rxf) >= Depth
            IN  Set([spi EXCEPT !.sh = <<>>, !.lost = @ \/ full,
                       !.rxf = IF full THEN @ ELSE Append(@, Head(spi.sh).nr)])

Next == Open \/ Close \/ Control \/ Disable \/ QuadRead \/ Settings \/ Arm \/ Start
        \/ dw_spi_write \/ dw_spi_poll_transfer \/ Abort \/ AbortRest \/ Isr \/ Load \/ Shift
Spec == Init /\ [][Next]_spi
(* Weak fairness of the controller, of the interrupt that is let through,  *)
(* and of the thread that has begun a call; each guard is written out in   *)
(* the place of ENABLED.                                                   *)
Works == Raised /\ dw_spi_isr([spi EXCEPT !.calls = {}], <<>>) # spi
Fairness == /\ []<>(~ Works) \/ []<><<Isr>>_spi
            /\ []<>(~ (spi.ssi /\ spi.sel /\ spi.sh = <<>> /\ spi.txf # <<>>)) \/ []<><<Load>>_spi
            /\ []<>(spi.sh = <<>> \/ Len(spi.rxf) >= Depth) \/ []<><<Shift>>_spi
            /\ []<>(spi.at \notin {"write", "read"}) \/ []<><<dw_spi_poll_transfer>>_spi
            /\ []<>(spi.at \notin Kind) \/ []<><<AbortRest>>_spi
FairSpec == Spec /\ Fairness

(* ------------------------------ properties ------------------------------ *)

(* Every field has its type, and a FIFO never holds more than it can.      *)
TypeOK == /\ spi.opn \in 0 .. MaxOpen
          /\ spi.st \subseteq {"EN"} \cup InXfer \cup {Abrt(k) : k \in Kind}
          /\ spi.at \in {"idle", "write", "read"} \cup Kind
          /\ spi.owed \subseteq Kind /\ spi.calls \subseteq Kind \cup {"err"}
          /\ Len(spi.txf) <= Depth /\ Len(spi.rxf) <= Depth /\ Len(spi.sh) <= 1

(* Through every polled and every interrupt transfer, what the writer has  *)
(* counted and the reader has not is exactly what is in the two FIFOs and  *)
(* the shift register: no frame is lost, repeated or left over from an     *)
(* earlier transfer (dw_spi_writer, dw_spi_reader, dw_spi_init_transfer).  *)
Conservation == Running(spi) # {} /\ spi.xf.len > 0 =>
  /\ spi.xf.ti = spi.xf.ri + spi.xf.n * (Len(spi.txf) + Len(spi.sh) + Len(spi.rxf))
  /\ spi.xf.ti <= spi.xf.len

(* The frames a chain asks for, element by element, and the answers it     *)
(* keeps: the reference for the writer's and the reader's walks.           *)
Frames(c) == LET n == dw_spi_nbytes(spi.dfs)
                 Of(i) == [j \in 1 .. TotLen(c[i]) \div n |-> [e |-> i, k |-> (j - 1) * n]]
                 t[i \in 0 .. Len(c)] == IF i = 0 THEN <<>> ELSE t[i - 1] \o Of(i)
             IN  t[Len(c)]
Wire(c) == LET f == Frames(c)
           IN  [j \in DOMAIN f |-> LET e == c[f[j].e]
                                   IN  IF f[j].k \in e.to .. e.to + e.tl - 1
                                       THEN <<f[j].e, f[j].k - e.to>> ELSE Dummy]
Got(c) == LET f == Frames(c)
              n == dw_spi_nbytes(spi.dfs)
              Kept(j) == f[j].k \in c[f[j].e].ro .. c[f[j].e].ro + c[f[j].e].rl - 1
          IN  SelectSeq([j \in DOMAIN f |-> IF Kept(j) THEN (j - 1) * n ELSE -1],
                        LAMBDA v : v >= 0)
Complete(s) == s.wire = Wire(s.chain) /\ s.got = Got(s.chain)

(* A transfer's callback outside an abort, and the return of a polled      *)
(* transfer, mean that every frame of the whole chain went out in order    *)
(* and every answer asked for is in its buffer.                            *)
CompleteWhenDone ==
  [][/\ spi.at \notin Kind /\ spi'.calls \cap Kind # {} => Complete(spi')
     /\ spi.at = "read" /\ spi'.at = "idle" => Complete(spi')]_spi

(* A callback is never made for a transfer that was already called back,   *)
(* withdrawn or reset (dw_spi_isr against dw_spi_abort_tx).                   *)
CalledOnce == ~ spi.extra

(* A transfer that never ends: dw_spi_chk_xfer_aligned lets 16-bit frames  *)
(* through whose empty part starts at an odd offset; the total is odd then *)
(* and its last byte is no frame.                                          *)
Endless(s) == s.xf.n = 2 /\ s.xf.len % 2 = 1

(* While the client waits for a callback its transfer is in progress, set  *)
(* up, and all three gates of its interrupt are open; while nobody waits   *)
(* nothing is in progress and the gates are closed.                        *)
WaitedFor == spi.at = "idle" => /\ spi.gint = spi.imr /\ spi.imr = spi.irq
                                /\ spi.irq <=> spi.owed # {}
                                /\ Running(spi) # {} <=> spi.owed # {}
                                /\ \A k \in spi.owed : Running(spi) = In(k) /\ spi.xf.len > 0
=============================================================================
