-------------------------------- MODULE SsIic --------------------------------
(***************************************************************************)
(* The subsystem I2C master: the device layer (subsystem/iic/              *)
(* ss_i2c_master.c), whose calls wait for their end, over the controller's *)
(* interrupt-driven driver (i2c_master.c) without DMA.  One record holds   *)
(* device, controller, bus and thread.  A byte is its number in its call's *)
(* buffer; the bytes of an earlier call are 0.                             *)
(***************************************************************************)
EXTENDS Integers, Sequences

CONSTANTS Lens,        \* lengths of transfers
          Depth,       \* fifo_depth
          StopLines    \* {TRUE, FALSE}: whether STOP_DET reaches its vector
                       \* though the driver never sets its mask bit

VARIABLE iic

SsIicConstants == Lens \subseteq Nat \ {0} /\ Depth \in Nat \ {0} /\ StopLines \subseteq BOOLEAN

NoTx == [size |-> 0, count |-> 0, data |-> FALSE]
NoRx == [size |-> 0, count |-> 0, req |-> 0, data |-> FALSE]
(* Of the call in progress: bytes the slave took, whether one of them was  *)
(* not the next or followed a START of its own, whether a stored one was   *)
(* not the next; which byte is to be read next.                            *)
NoHist == [sent |-> 0, bad |-> FALSE, wrong |-> FALSE, next |-> 1]

Init == \E line \in StopLines :
  iic = [line |-> line, opn |-> FALSE, en |-> FALSE, cbs |-> {}, cond |-> "stop", mask |-> {},
         abrt |-> FALSE, over |-> FALSE, stopped |-> FALSE, fifo |-> <<>>, shift |-> <<>>, rxf |-> <<>>,
         bus |-> "free", htx |-> FALSE, hrx |-> FALSE, tx |-> NoTx, rx |-> NoRx, flags |-> {},
         at |-> "idle", dir |-> "tx", val |-> {}, runaway |-> FALSE, left |-> FALSE,
         h |-> NoHist, cause |-> {}, result |-> "none"]

(* ------------------- i2c_master.c: the FIFOs ----------------------------- *)

(* While an abort is not acknowledged the FIFO stays empty.                *)
Push(u, cmds) == IF u.abrt \/ ~ u.en THEN u ELSE [u EXCEPT !.fifo = @ \o cmds]
Lower(a, b) == IF a < b THEN a ELSE b
(* cnt = 0 makes the loop that stops at cnt - 1 run through all of memory. *)
(* tx_data is NULL when an interrupt of an earlier transfer ended this one.*)
(* Mutant: the STOP is put on the last byte that fits. *)
fill_txfifo_Stop(u) ==
  LET cnt == Lower(u.tx.size - u.tx.count, Depth - Len(u.fifo))
      byte(i) == [rw |-> "w", n |-> IF u.tx.data THEN u.tx.count + i ELSE 0, cond |-> IF i = cnt THEN u.cond ELSE "none"]
  IN  IF cnt = 0 THEN [u EXCEPT !.runaway = TRUE]
      ELSE [Push(u, [i \in 1 .. cnt |-> byte(i)]) EXCEPT !.tx.count = @ + cnt]
fill_txfifo(u) ==
  LET cnt == Lower(u.tx.size - u.tx.count, Depth - Len(u.fifo))
      cond(i) == IF u.tx.count + i = u.tx.size THEN u.cond ELSE "none"
      byte(i) == [rw |-> "w", n |-> IF u.tx.data THEN u.tx.count + i ELSE 0, cond |-> cond(i)]
  IN  IF cnt = 0 THEN [u EXCEPT !.runaway = TRUE]
      ELSE [Push(u, [i \in 1 .. cnt |-> byte(i)]) EXCEPT !.tx.count = @ + cnt]
fill_txfifo_for_rx(u) ==
  LET cnt == Lower(u.rx.size - u.rx.req, Depth - Len(u.fifo))
      cond(i) == IF i = cnt /\ u.rx.req + cnt = u.rx.size THEN u.cond ELSE "none"
  IN  IF cnt = 0 THEN [u EXCEPT !.runaway = TRUE]
      ELSE [Push(u, [i \in 1 .. cnt |-> [rw |-> "r", n |-> 1, cond |-> cond(i)]]) EXCEPT !.rx.req = @ + cnt]
(* Mutant: the register is read once before the loop. *)
retrieve_rxfifo_Peek(u) ==
  LET f == SubSeq(u.rxf, 2, Len(u.rxf))
      cnt == Lower(u.rx.size - u.rx.count, Len(f))
  IN  [u EXCEPT !.rxf = SubSeq(f, cnt + 1, Len(f)), !.rx.count = @ + cnt,
                !.h.wrong = @ \/ \E i \in 1 .. cnt : f[i] # u.rx.count + i]
retrieve_rxfifo(u) ==
  LET cnt == Lower(u.rx.size - u.rx.count, Len(u.rxf))
  IN  [u EXCEPT !.rxf = SubSeq(@, cnt + 1, Len(@)), !.rx.count = @ + cnt,
                !.h.wrong = @ \/ \E i \in 1 .. cnt : u.rxf[i] # u.rx.count + i]

(* ------------------- i2c_master.c: open, close, read, write -------------- *)

io_i2c_master_open(u) == [u EXCEPT !.en = TRUE, !.mask = {}, !.htx = FALSE, !.hrx = FALSE, !.tx = NoTx, !.rx = NoRx,
                                   !.cond = "stop", !.left = FALSE, !.h = NoHist]
(* The abort and the disabling leave an idle controller.                   *)
io_i2c_master_close(u) == [u EXCEPT !.en = FALSE, !.mask = {}, !.abrt = FALSE, !.over = FALSE, !.stopped = FALSE,
                                    !.fifo = <<>>, !.shift = <<>>, !.rxf = <<>>, !.bus = "free", !.cbs = {}]
io_i2c_master_read(u, n) ==
  LET t == [u EXCEPT !.rx = [size |-> n, count |-> 0, req |-> 0, data |-> TRUE]]
  IN  IF u.htx THEN [t EXCEPT !.at = "wait"] ELSE [t EXCEPT !.hrx = TRUE, !.at = "fill"]
io_i2c_master_write(u, n) ==
  LET t == [u EXCEPT !.tx = [size |-> n, count |-> 0, data |-> TRUE]]
  IN  IF u.hrx THEN [t EXCEPT !.at = "wait"] ELSE [t EXCEPT !.htx = TRUE, !.at = "fill"]

(* ------------------- ss_i2c_master.c: callbacks -------------------------- *)

(* Mutant: the flag stays set. *)
ss_iic_master_tx_cb_Deaf(u) == u
ss_iic_master_tx_cb(u) == IF "tx" \in u.cbs THEN [u EXCEPT !.flags = @ \ {"TX"}] ELSE u
ss_iic_master_rx_cb(u) == IF "rx" \in u.cbs THEN [u EXCEPT !.flags = @ \ {"RX"}] ELSE u
(* An error that comes when the call has returned stays in the flags.      *)
ss_iic_master_err_cb(u) ==
  LET t == IF u.at \in {"idle", "ioctl", "disable"} THEN [u EXCEPT !.cause = @ \cup {"late"}] ELSE u
  IN  IF "err" \in u.cbs THEN [t EXCEPT !.flags = @ \cup {"ERROR"}] ELSE t

(* ------------------- i2c_master.c: the interrupt routines ---------------- *)

Err(u) == u.abrt \/ u.over
RxAvail(u) == "rx" \in u.mask /\ u.rxf # <<>>
TxReq(u) == "tx" \in u.mask /\ u.fifo = <<>> /\ u.en
StopDet(u) == u.stopped
Pending(u) == u.opn /\ ~ u.runaway /\ (Err(u) \/ RxAvail(u) \/ TxReq(u) \/ StopDet(u))
(* The transmit routine finds nothing to do and leaves its interrupt on.   *)
Storm(u) == TxReq(u) /\ ~ u.htx /\ ~ u.hrx /\ ~ Err(u) /\ ~ RxAvail(u)

i2c_mst_err_ISR_proc(u) ==
  LET t == IF u.abrt THEN ss_iic_master_err_cb([u EXCEPT !.abrt = FALSE]) ELSE u
  IN  IF u.over THEN ss_iic_master_err_cb([t EXCEPT !.over = FALSE]) ELSE t
(* Mutant: the receiver is reported when one byte came. *)
i2c_mst_rx_avail_ISR_proc_One(u) ==
  ss_iic_master_rx_cb([retrieve_rxfifo(u) EXCEPT !.mask = @ \ {"rx"}, !.hrx = FALSE, !.rx.data = FALSE])
i2c_mst_rx_avail_ISR_proc(u) ==
  LET t == retrieve_rxfifo(u)
  IN  IF t.rx.size = t.rx.count
      THEN ss_iic_master_rx_cb([t EXCEPT !.mask = @ \ {"rx"}, !.hrx = FALSE, !.rx.data = FALSE])
      ELSE t
TxDone(u) == ss_iic_master_tx_cb([u EXCEPT !.htx = FALSE, !.tx.data = FALSE])
RxDone(u) == ss_iic_master_rx_cb([retrieve_rxfifo(u) EXCEPT !.hrx = FALSE, !.rx.data = FALSE])
(* Mutant: the end of the buffer is not noticed. *)
i2c_mst_tx_req_ISR_proc_On(u) == IF u.htx THEN fill_txfifo(u) ELSE u
i2c_mst_tx_req_ISR_proc(u) ==
  LET t == IF ~ u.htx THEN u
           ELSE IF u.tx.size = u.tx.count THEN TxDone([u EXCEPT !.mask = @ \ {"tx"}])
           ELSE [fill_txfifo(u) EXCEPT !.cause = IF "nack" \in @ THEN @ \cup {"resumed"} ELSE @]
  IN  IF ~ t.hrx THEN t
      ELSE IF t.rx.size = t.rx.req THEN [t EXCEPT !.mask = @ \ {"tx"}]
      ELSE fill_txfifo_for_rx(t)
Done(u) == [u EXCEPT !.mask = @ \ {"tx", "rx"}]        \* prevent threshold interrupts
i2c_mst_stop_det_ISR_proc(u) ==
  LET t == IF u.htx THEN TxDone(u) ELSE IF u.hrx THEN RxDone(u) ELSE u
      v == IF u.htx /\ t.rx.data THEN [fill_txfifo_for_rx([t EXCEPT !.hrx = TRUE]) EXCEPT !.mask = @ \cup {"tx", "rx"}]
           ELSE IF ~ u.htx /\ u.hrx /\ t.tx.data THEN [fill_txfifo([t EXCEPT !.htx = TRUE]) EXCEPT !.mask = @ \cup {"tx"}]
           ELSE IF u.htx \/ u.hrx THEN Done(t) ELSE t
  IN  [v EXCEPT !.stopped = FALSE]
(* The vectors' order: error, receive, transmit, stop.                     *)
Routine(u) == IF Err(u) THEN i2c_mst_err_ISR_proc(u)
              ELSE IF RxAvail(u) THEN i2c_mst_rx_avail_ISR_proc(u)
              ELSE IF TxReq(u) THEN i2c_mst_tx_req_ISR_proc(u)
              ELSE i2c_mst_stop_det_ISR_proc(u)

(* ------------------- ss_i2c_master.c: the device layer ------------------- *)

AllCbs == {"tx", "rx", "err"}
ss_iic_master_open(u) ==
  IF u.opn THEN u ELSE [io_i2c_master_open(u) EXCEPT !.opn = TRUE, !.cbs = AllCbs, !.flags = {}, !.cause = {}, !.h = NoHist, !.left = FALSE]
ss_iic_master_close(u) == IF u.opn THEN [io_i2c_master_close(u) EXCEPT !.opn = FALSE] ELSE u
(* IIC_CMD_RESET: nobody installs the callbacks again.                     *)
ss_iic_master_reset_device(u) == [io_i2c_master_open(io_i2c_master_close(u)) EXCEPT !.flags = {}, !.cause = @ \ {"late"}]
(* The bytes of the last call still on their way are not this one's; left: *)
(* they are more than a written byte on the line.                          *)
Old(s) == [i \in DOMAIN s |-> [s[i] EXCEPT !.n = 0]]
Unfinished(u) == u.fifo # <<>> \/ u.rxf # <<>> \/ \E i \in DOMAIN u.shift : u.shift[i].rw = "r"
Begin(u, dir) ==
  [u EXCEPT !.dir = dir, !.h = NoHist, !.cause = (@ \cap {"late"}) \cup (IF u.cond = "restart" THEN {"restart"} ELSE {}),
            !.left = Unfinished(u), !.fifo = Old(@), !.shift = Old(@), !.rxf = [i \in DOMAIN @ |-> 0]]
ss_iic_master_write(u, n) ==
  IF u.flags # {} THEN [u EXCEPT !.result = "E_NORES"]
  ELSE io_i2c_master_write([Begin(u, "tx") EXCEPT !.flags = {"TX"}], n)
ss_iic_master_read(u, n) ==
  IF u.flags # {} THEN [u EXCEPT !.result = "E_NORES"]
  ELSE io_i2c_master_read([Begin(u, "rx") EXCEPT !.flags = {"RX"}], n)
WaitedFor == IF iic.dir = "tx" THEN "TX" ELSE "RX"
(* io_i2c_master_ioctl and IIC_CMD_DIS_DEV clear ENABLE and wait: the FIFOs*)
(* empty, the byte on the line is finished.                                *)
ss_iic_master_disable_device(u, at) == [u EXCEPT !.en = FALSE, !.fifo = <<>>, !.rxf = <<>>, !.at = at]
Disabled(u) == [u EXCEPT !.bus = "free", !.stopped = @ \/ (u.line /\ u.bus # "free")]
ss_iic_master_enable_device(u) == [u EXCEPT !.en = TRUE]
ss_iic_master_dis_cbr(u, which) == [u EXCEPT !.mask = @ \ (IF which = "tx" THEN {"tx"} ELSE {"tx", "rx"})]
(* IIC_CMD_SET_TXCB and its like replace the device layer's own callback.  *)
SetCallback(u, which) == [u EXCEPT !.cbs = @ \ {which}]

(* ------------------------------- behaviour ------------------------------- *)

Now == [iic EXCEPT !.result = "none"]
Set(u) == iic' = u
Runs == ~ Pending(iic) /\ ~ iic.runaway
Idle == Runs /\ iic.at = "idle"

Open == Idle /\ Set(ss_iic_master_open(Now))
Close == Idle /\ Set(ss_iic_master_close(Now))
Reset == Idle /\ iic.opn /\ Set(ss_iic_master_reset_device(Now))
(* Bound: after a call that met bytes of an earlier one no other is made.  *)
Bound == ~ iic.left
Write == Idle /\ iic.opn /\ Bound /\ \E n \in Lens : Set(ss_iic_master_write(Now, n))
Read == Idle /\ iic.opn /\ Bound /\ \E n \in Lens : Set(ss_iic_master_read(Now, n))
(* The first bytes go into the FIFO, then the mask is read and written.    *)
Fill == Runs /\ iic.at = "fill"
        /\ Set([(IF iic.dir = "tx" THEN fill_txfifo(Now) ELSE fill_txfifo_for_rx(Now)) EXCEPT !.at = "load"])
Load == Runs /\ iic.at = "load" /\ Set([Now EXCEPT !.at = "store", !.val = iic.mask])
Store == Runs /\ iic.at = "store"
         /\ Set([Now EXCEPT !.at = "wait", !.val = {},
                            !.mask = iic.val \cup (IF iic.dir = "tx" THEN {"tx"} ELSE {"tx", "rx"})])
Ended == iic.at = "wait" /\ WaitedFor \notin iic.flags
(* Mutant: the error flag stays set. *)
Return_Kept == Runs /\ Ended
               /\ Set([Now EXCEPT !.at = "idle", !.result = IF "ERROR" \in iic.flags THEN "E_SYS" ELSE "ok"])
Return == Runs /\ Ended
          /\ Set([Now EXCEPT !.at = "idle", !.flags = {}, !.result = IF "ERROR" \in iic.flags THEN "E_SYS" ELSE "ok"])
(* A client changes one setting, before its first transfer.                *)
Fresh == Idle /\ iic.opn /\ iic.tx = NoTx /\ iic.rx = NoRx /\ iic.cbs = AllCbs /\ iic.cond = "stop"
SetNextCond == Fresh /\ \E c \in {"stop", "restart", "none"} : Set([Now EXCEPT !.cond = c])
SetCb == Fresh /\ \E c \in AllCbs : Set(SetCallback(Now, c))
SetInt == Idle /\ iic.opn /\ \E d \in {"tx", "rx"} : Set(ss_iic_master_dis_cbr(Now, d))
Ioctl == Idle /\ iic.opn /\ iic.en /\ Set(ss_iic_master_disable_device(Now, "ioctl"))
Disable == Idle /\ iic.opn /\ iic.en /\ Set(ss_iic_master_disable_device(Now, "disable"))
DisableEnd == /\ Runs /\ iic.at \in {"ioctl", "disable"} /\ iic.shift = <<>>
              /\ LET t == [Disabled(Now) EXCEPT !.at = "idle"]
                 IN  Set(IF iic.at = "ioctl" THEN ss_iic_master_enable_device(t) ELSE t)
Enable == Idle /\ iic.opn /\ Set(ss_iic_master_enable_device(Now))
(* A STOP of an earlier call that is served in this one ends this one.     *)
Isr == /\ Pending(iic)
       /\ LET early == ~ Err(iic) /\ ~ RxAvail(iic) /\ ~ TxReq(iic) /\ iic.at # "idle" /\ "nack" \notin iic.cause
                       /\ ((iic.htx /\ iic.h.sent < iic.tx.size) \/ (iic.hrx /\ iic.h.next <= iic.rx.size))
          IN  Set(Routine([Now EXCEPT !.cause = IF early THEN @ \cup {"stale"} ELSE @]))

(* ------------------------------- the bus --------------------------------- *)

(* An element of the FIFO is taken to the line, then answered.  What is    *)
(* not acknowledged aborts: FIFO emptied, STOP.  A RESTART comes before    *)
(* the byte that carries it, a STOP after it.                              *)
ToLine == /\ iic.en /\ ~ iic.abrt /\ ~ iic.runaway /\ iic.fifo # <<>> /\ iic.shift = <<>>
          /\ Set([Now EXCEPT !.fifo = Tail(@), !.shift = <<Head(iic.fifo)>>])
Starts(u, e) == u.bus # e.rw \/ e.cond = "restart"
Stops(u, e) == [u EXCEPT !.shift = <<>>, !.bus = IF e.cond = "stop" THEN "free" ELSE e.rw,
                         !.stopped = @ \/ (u.line /\ e.cond = "stop")]
Taken(u, e) ==
  IF e.n = 0 THEN Stops(u, e)
  ELSE [Stops(u, e) EXCEPT !.h.sent = e.n, !.h.bad = @ \/ e.n # u.h.sent + 1 \/ (e.n > 1 /\ Starts(u, e))]
Arrives(u, e) ==
  LET t == [Stops(u, e) EXCEPT !.h.next = IF e.n = 0 THEN @ ELSE Lower(@ + 1, u.rx.size + 1)]
  IN  IF Len(u.rxf) < Depth THEN [t EXCEPT !.rxf = Append(@, IF e.n = 0 THEN 0 ELSE u.h.next)]
      ELSE [t EXCEPT !.over = TRUE, !.cause = @ \cup {"over"}]
NotAcked(u, e) == [u EXCEPT !.shift = <<>>, !.fifo = <<>>, !.abrt = TRUE, !.bus = "free", !.stopped = u.line,
                            !.cause = @ \cup {"nack"}]
Answer == /\ iic.shift # <<>>
          /\ LET e == iic.shift[1]
             IN  \/ Set(IF e.rw = "w" THEN Taken(Now, e) ELSE Arrives(Now, e))
                 \/ (e.rw = "w" \/ Starts(iic, e)) /\ Set(NotAcked(Now, e))

Next == Open \/ Close \/ Reset \/ Write \/ Read \/ Fill \/ Load \/ Store \/ Return \/ SetNextCond \/ SetCb \/ SetInt
        \/ Ioctl \/ Disable \/ DisableEnd \/ Enable \/ Isr \/ ToLine \/ Answer
Spec == Init /\ [][Next]_iic

(* The routines run, the thread runs when they let it, the bus answers.    *)
InBetween == Runs /\ (iic.at \in {"fill", "load", "store"} \/ Ended
                      \/ (iic.at \in {"ioctl", "disable"} /\ iic.shift = <<>>))
BusCan == iic.shift # <<>> \/ (iic.en /\ ~ iic.abrt /\ ~ iic.runaway /\ iic.fifo # <<>>)
Fairness ==
  /\ ([]<>(~ Pending(iic) \/ Storm(iic)) \/ []<><<Isr>>_iic)
  /\ ([]<>(~ InBetween) \/ []<><<Fill \/ Load \/ Store \/ Return \/ DisableEnd>>_iic)
  /\ ([]<>(~ BusCan) \/ []<><<ToLine \/ Answer>>_iic)
FairSpec == Spec /\ Fairness

(* ------------------------------ properties ------------------------------- *)

(* The values of device, driver and bus; no count passes its size.         *)
TypeOK ==
  /\ iic.cbs \subseteq AllCbs /\ iic.cond \in {"stop", "restart", "none"} /\ iic.mask \subseteq {"tx", "rx"}
  /\ iic.tx.count <= iic.tx.size /\ iic.rx.req <= iic.rx.size /\ iic.rx.count <= iic.rx.size
  /\ Len(iic.fifo) <= Depth /\ Len(iic.rxf) <= Depth /\ Len(iic.shift) <= 1
  /\ iic.bus \in {"free", "w", "r"} /\ iic.flags \subseteq {"TX", "RX", "ERROR"}
  /\ iic.at \in {"idle", "fill", "load", "store", "wait", "ioctl", "disable"}
(* The bytes of a write reach the slave in order and as one message; not   *)
(* so when next_cond is RESTART, which is sent before the last byte, when  *)
(* the routine goes on with the bytes behind one that was not acknowledged,*)
(* or when a STOP of an earlier call ended the write.                      *)
OneMessage == iic.h.bad => iic.cause \cap {"restart", "resumed", "stale"} # {}
(* A read stores the bytes it asked for, in order, unless the receive FIFO *)
(* overran or an earlier call was ended by a STOP before its own.          *)
OwnBytes == iic.h.wrong => "over" \in iic.cause \/ iic.left
(* A call that returns without error has moved all its bytes, but for the  *)
(* last one, which a write leaves on the line; not so if a STOP of an      *)
(* earlier call ended it or the error callback was replaced.               *)
ReturnMeansDone ==
  iic.result = "ok" => \/ iic.dir = "tx" /\ iic.h.sent + Len(iic.shift) >= iic.tx.size
                       \/ iic.dir = "rx" /\ iic.rx.count = iic.rx.size
                       \/ "err" \notin iic.cbs \/ "stale" \in iic.cause
(* An idle device takes calls, unless an error came when its call had      *)
(* returned: the flag answers E_NORES from then on.                        *)
NotWedged == iic.at = "idle" /\ iic.flags # {} => "late" \in iic.cause
(* The loops that fill the FIFO find room; not so after a STOP of an       *)
(* earlier call ended one whose bytes are still in the FIFO.               *)
NoRunaway == iic.runaway => iic.left
(* A call that is to end: its callback was not replaced or lost in a reset,*)
(* the device is enabled, the last byte was not received before the        *)
(* transmit interrupt was served (which then never ends), no received byte *)
(* was lost, and it was acknowledged or STOP_DET reaches the routine.      *)
InCall == /\ iic.at # "idle" /\ iic.en /\ ~ Storm(iic) /\ ~ iic.runaway /\ "over" \notin iic.cause
          /\ (WaitedFor = "TX" => "tx" \in iic.cbs) /\ (WaitedFor = "RX" => "rx" \in iic.cbs)
          /\ (iic.line \/ "nack" \notin iic.cause)
=============================================================================
