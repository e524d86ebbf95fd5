-------------------------------- MODULE SsSpi --------------------------------
(***************************************************************************)
(* The subsystem SPI master: the device layer (subsystem/spi/              *)
(* ss_spi_master.c) over the controller's driver (spi_master.c), with      *)
(* 8-bit frames and without DMA.  One record holds device, controller and  *)
(* thread.  A byte to send is its number in the buffer; a frame received   *)
(* is its number in the transfer.                                          *)
(***************************************************************************)
EXTENDS Integers, Sequences, FiniteSets

CONSTANTS Sizes,       \* lengths of transfers in one direction
          Pairs,       \* lengths of transfers in both
          Depth,       \* fifo_depth
          MaxUsers,    \* users of the device
          MaxCauses,   \* bound: a client that has met more of the causes makes no more calls
          Width        \* opn_cnt counts modulo this: 2^32 in the code

VARIABLE spi

SsSpiConstants == Sizes \subseteq Nat \ {0} /\ Pairs \subseteq (Nat \X Nat) \ {<<0, 0>>} /\ Depth \in Nat \ {0} /\ Width \in Nat \ (0 .. 3)

NoBuf == [size |-> 0, count |-> 0, len |-> 0]     \* len: of the client's buffer
Buf(size, len) == [size |-> size, count |-> 0, len |-> len]
(* What is known of the transfer: bytes sent, frames received, whether one *)
(* went missing, lies outside a buffer or ended up in a wrong place.       *)
NoHist == [sent |-> 0, frame |-> 0, bad |-> FALSE, past |-> FALSE]

Init == spi = [opn |-> 0, users |-> 0, dev |-> FALSE, mode |-> "both", imr |-> {}, over |-> FALSE,
               txf |-> <<>>, rxf |-> <<>>, togo |-> 0, ndf |-> 0, htx |-> FALSE, hrx |-> FALSE,
               tx |-> NoBuf, rx |-> NoBuf, flags |-> {}, xrx |-> 0, at |-> "idle",
               poll |-> [tx |-> 0, rx |-> 0, len |-> 0],
               job |-> "none", again |-> FALSE, wrong |-> FALSE, early |-> FALSE,
               cause |-> {}, h |-> NoHist, returned |-> "no"]

(* -------------------- spi_master.c: the controller's driver ------------- *)

io_spi_master_open(u) == 
  [u EXCEPT !.dev = TRUE, !.imr = {"err"}, !.htx = FALSE, !.hrx = FALSE, !.mode = "both",
            !.cause = @ \ {"errored", "wiped", "mode"}]
io_spi_master_close(u) ==
  [u EXCEPT !.dev = FALSE, !.imr = {}, !.over = FALSE, !.mode = "both",
            !.txf = <<>>, !.rxf = <<>>, !.togo = 0]
Flush(u) == [u EXCEPT !.txf = <<>>, !.rxf = <<>>, !.togo = 0]       \* SPIEN off and on
set_transfer_mode(u, mode) == [Flush(u) EXCEPT !.mode = mode]

(* Mutant: the FIFO is always filled up. *)
fill_txfifo_Up(u) ==
  LET n == Depth - Len(u.txf)
  IN  [u EXCEPT !.txf = @ \o [i \in 1 .. n |-> 0], !.tx.count = @ + n, !.h.past = @ \/ u.tx.count + n > u.tx.len]
(* Mutant: the FIFO is filled from the start of the buffer. *)
fill_txfifo_Start(u) ==
  LET n == IF u.tx.size - u.tx.count > Depth - Len(u.txf) THEN Depth - Len(u.txf) ELSE u.tx.size - u.tx.count
  IN  [u EXCEPT !.txf = @ \o [i \in 1 .. n |-> i], !.tx.count = @ + n]
(* A byte behind the end of the client's buffer is 0.                      *)
fill_txfifo(u) ==
  LET left == u.tx.size - u.tx.count
      free == Depth - Len(u.txf)
      n == IF left > free THEN free ELSE left
      byte(i) == IF u.tx.count + i <= u.tx.len THEN u.tx.count + i ELSE 0
  IN  [u EXCEPT !.txf = @ \o [i \in 1 .. n |-> byte(i)], !.tx.count = @ + n,
                !.h.past = @ \/ u.tx.count + n > u.tx.len]
retrieve_rxfifo(u) ==
  LET left == u.rx.size - u.rx.count
      n == IF left > Len(u.rxf) THEN Len(u.rxf) ELSE left
  IN  [u EXCEPT !.rxf = SubSeq(@, n + 1, Len(@)), !.rx.count = @ + n,
                !.h.bad = @ \/ \E i \in 1 .. n : u.rxf[i] # u.rx.count + i,
                !.h.past = @ \/ (n > 0 /\ u.rx.count + n > u.rx.len)]

(* In receive mode a dummy write starts the frames.                        *)
io_spi_master_read(u, buf) ==
  LET t == [Flush(u) EXCEPT !.rx = buf, !.hrx = TRUE, !.ndf = buf.size]
  IN  IF u.mode = "rx" THEN [t EXCEPT !.togo = buf.size, !.imr = @ \cup {"rx", "idle"}] ELSE t
(* Mutant: the idle interrupt stays masked. *)
io_spi_master_write_NoIdle(u, buf) ==
  [fill_txfifo([u EXCEPT !.tx = buf, !.htx = TRUE]) EXCEPT !.imr = @ \cup {"tx", "rx"}]
io_spi_master_write(u, buf) ==
  LET t == [u EXCEPT !.tx = buf, !.htx = TRUE,
                     !.rx.size = IF u.mode = "both" /\ @ > buf.size THEN buf.size ELSE @]
  IN  [fill_txfifo(t) EXCEPT !.imr = @ \cup {"tx", "idle"} \cup (IF u.mode = "tx" THEN {} ELSE {"rx"})]

(* -------------------- ss_spi_master.c: starting a transfer -------------- *)

Busy(u) == "BUSY" \in u.flags
Started(u, job) == [u EXCEPT !.job = job, !.h = NoHist, !.cause = @ \ {"over", "late", "uneven", "flushed"}]
(* SPI_CMD_TRANSFER_INT: tx and rx are the lengths, ofs the offsets: none, *)
(* the receiver's behind what is sent, or another one.                     *)
Transfer(u, tx, rx, ofs) ==
  LET s == Started([u EXCEPT !.flags = {"BUSY", "TXRX"}, !.xrx = rx], "xfer")
      Ready(m, f) == [set_transfer_mode(s, m) EXCEPT !.flags = @ \cup f]
      tot == IF tx > rx THEN tx ELSE rx
  IN  IF rx = 0 THEN io_spi_master_write(Ready("tx", {"TXR"}), Buf(tx, tx))
      ELSE IF tx = 0 THEN io_spi_master_read(Ready("rx", {"RXR"}), Buf(rx, rx))
      ELSE IF ofs = "behind"
      THEN io_spi_master_write(io_spi_master_read(Ready("eeprom", {"RXR", "TXR"}), Buf(rx, rx)), Buf(tx, tx))
      ELSE IF ofs = "other" THEN [u EXCEPT !.flags = s.flags, !.xrx = rx, !.cause = @ \cup {"refused"}]
      ELSE LET t == io_spi_master_write(io_spi_master_read(Ready("both", {"RXR", "TXR"}), Buf(tot, rx)),
                                        Buf(tot, tx))
           IN  IF tx # rx THEN [t EXCEPT !.cause = @ \cup {"uneven"}] ELSE t
(* All bytes have left, all frames are in the buffer.                      *)
Complete(u) == /\ u.mode # "rx" => u.h.sent = u.tx.len /\ u.txf = <<>>
               /\ u.mode # "tx" => u.rx.count = u.rx.size
(* After an error the error interrupt stays masked.                        *)
Early(u) == ~ Complete(u) /\ u.cause \cap {"errored", "late", "flushed"} = {}
(* What the client's callback does: it may start the transfer again.       *)
Callback(u, kind) ==
  LET t == [u EXCEPT !.wrong = @ \/ u.job # kind, !.early = @ \/ (u.job = kind /\ Early(u)), !.job = "none"]
  IN  IF u.again /\ ~ Busy(u) THEN Transfer(t, 1, 1, "none") ELSE t

(* Mutant: the end of sending does not release the device. *)
ss_spi_master_tx_cb_Busy(u) ==
  LET t == IF "TXRX" \in u.flags
           THEN IF u.xrx # 0 THEN u
                ELSE LET s == [u EXCEPT !.flags = @ \ {"TXRX"}] IN IF "TXR" \in u.flags THEN Callback(s, "xfer") ELSE s
           ELSE IF "TXR" \in u.flags THEN Callback(u, "tx") ELSE u
  IN  [t EXCEPT !.flags = @ \ {"TXR"}]
ss_spi_master_tx_cb(u) ==
  LET t == IF "TXRX" \in u.flags
           THEN IF u.xrx # 0 THEN u
                ELSE LET s == [u EXCEPT !.flags = @ \ {"TXRX"}] IN IF "TXR" \in u.flags THEN Callback(s, "xfer") ELSE s
           ELSE IF "TXR" \in u.flags THEN Callback(u, "tx") ELSE u
  IN  [t EXCEPT !.flags = @ \ {"TXR", "BUSY"}]
(* The flags of a transfer that the callback started are cleared with it.  *)
ss_spi_master_rx_cb(u) ==
  LET t == IF "RXR" \notin u.flags THEN u
           ELSE IF "TXRX" \in u.flags THEN Callback(u, "xfer") ELSE Callback(u, "rx")
      w == IF t.job # "none" /\ u.again THEN [t EXCEPT !.cause = @ \cup {"wiped"}] ELSE t
  IN  IF "TXRX" \in u.flags THEN [w EXCEPT !.flags = @ \ {"RXR", "TXR", "BUSY", "TXRX"}]
      ELSE [w EXCEPT !.flags = @ \ {"RXR", "BUSY"}]
ss_spi_master_err_cb(u) == [u EXCEPT !.flags = {"ERROR"}, !.job = "none"]

(* -------------------- spi_master.c: the interrupt routines -------------- *)

RxFull(u) == "rx" \in u.imr /\ u.rxf # <<>>
TxEmpty(u) == "tx" \in u.imr /\ u.txf = <<>>
IdleLine(u) == "idle" \in u.imr /\ u.txf = <<>> /\ u.togo = 0
Error(u) == "err" \in u.imr /\ u.over
Pending(u) == u.dev /\ (Error(u) \/ RxFull(u) \/ TxEmpty(u) \/ IdleLine(u))

spi_mst_rx_ISR_proc(u) ==
  LET t == retrieve_rxfifo(u)
  IN  IF t.rx.size <= t.rx.count THEN [t EXCEPT !.imr = @ \ {"rx"}] ELSE t
(* Mutant: sending ends when the FIFO has been filled once. *)
spi_mst_tx_ISR_proc_Once(u) == [u EXCEPT !.imr = @ \ {"tx"}]
spi_mst_tx_ISR_proc(u) ==
  IF u.tx.size <= u.tx.count THEN [u EXCEPT !.imr = @ \ {"tx"}] ELSE fill_txfifo(u)
(* Mutant: handling_tx stays set. *)
IdleTx_Kept(u) == [ss_spi_master_tx_cb(u) EXCEPT !.imr = @ \ {"tx", "idle"}]
IdleTx(u) == [ss_spi_master_tx_cb([u EXCEPT !.htx = FALSE]) EXCEPT !.imr = @ \ {"tx", "idle"}]
IdleRx(u) == [ss_spi_master_rx_cb(retrieve_rxfifo([u EXCEPT !.hrx = FALSE])) EXCEPT !.imr = @ \ {"rx", "idle"}]
spi_mst_idle_ISR_proc(u) ==
  LET t == IF u.htx THEN IdleTx(u) ELSE u
  IN  IF t.hrx THEN IdleRx(t) ELSE t
spi_mst_err_ISR_proc(u) ==
  [ss_spi_master_err_cb([u EXCEPT !.imr = {}]) EXCEPT !.over = FALSE, !.cause = @ \cup {"errored"}]
(* The vectors' order: error, receive, transmit, idle.                     *)
Routine(u) == IF Error(u) THEN spi_mst_err_ISR_proc(u)
              ELSE IF RxFull(u) THEN spi_mst_rx_ISR_proc(u)
              ELSE IF TxEmpty(u) THEN spi_mst_tx_ISR_proc(u)
              ELSE spi_mst_idle_ISR_proc(u)

(* -------------------- ss_spi_master.c: the device layer ----------------- *)

ss_spi_master_open(u) ==
  IF u.opn > 0 THEN u
  ELSE [Flush(io_spi_master_open(u)) EXCEPT !.opn = 1, !.flags = {}]
ss_spi_master_close(u) ==
  LET t == [u EXCEPT !.opn = (u.opn + Width - 1) % Width]
  IN  IF t.opn = 0 THEN [io_spi_master_close(t) EXCEPT !.flags = {}] ELSE t
(* The commands for clock mode, frequency and frame size do not look at    *)
(* BUSY: in a transfer they empty its FIFOs.                               *)
Configure(u) == [Flush(u) EXCEPT !.cause = IF u.job = "none" THEN @ ELSE @ \cup {"flushed"}]
ss_spi_master_write(u, n) ==
  [io_spi_master_write(set_transfer_mode(Started([u EXCEPT !.flags = {"BUSY"}], "none"), "tx"), Buf(n, n))
     EXCEPT !.at = "writing"]
ss_spi_master_read(u, n) ==
  [io_spi_master_read(set_transfer_mode(Started([u EXCEPT !.flags = {"BUSY"}], "none"), "rx"), Buf(n, n))
     EXCEPT !.at = "reading"]
(* SPI_CMD_SET_TXINT and SPI_CMD_SET_RXINT, after the buffer commands.     *)
SetTxInt(u, n) ==
  io_spi_master_write(set_transfer_mode(Started([u EXCEPT !.flags = @ \cup {"TXR", "BUSY"}], "tx"), "tx"), Buf(n, n))
SetRxInt(u, n) ==
  io_spi_master_read(set_transfer_mode(Started([u EXCEPT !.flags = @ \cup {"RXR", "BUSY"}], "rx"), "rx"), Buf(n, n))
(* SPI_CMD_TRANSFER_POLLING leaves the mode as the last transfer left it.  *)
StartPoll(u, n) ==
  [Flush([u EXCEPT !.flags = {"BUSY"}]) EXCEPT !.at = "polling", !.poll = [tx |-> 0, rx |-> 0, len |-> n],
     !.cause = IF u.mode = "both" THEN @ ELSE @ \cup {"mode"}]
PollTx(u) ==
  LET room == Depth - Len(u.txf)
      left == u.poll.len - u.poll.tx
      n == IF room > left THEN left ELSE room
  IN  [u EXCEPT !.txf = @ \o [i \in 1 .. n |-> 0], !.poll.tx = @ + n, !.at = "pollrx"]
PollRx(u) ==
  LET left == u.poll.len - u.poll.rx
      n == IF Len(u.rxf) > left THEN left ELSE Len(u.rxf)
  IN  [u EXCEPT !.rxf = SubSeq(@, n + 1, Len(@)), !.poll.rx = @ + n, !.at = "polling"]

(* ------------------------------- behaviour ------------------------------ *)

Now == [spi EXCEPT !.returned = "no", !.early = FALSE, !.wrong = FALSE]
Set(u) == spi' = u
Runs == ~ Pending(spi)
Idle == Runs /\ spi.at = "idle"
Quiet == spi.job = "none"               \* no transfer of the client's is running
Bound == spi.users < MaxUsers
Calls == Idle /\ spi.dev /\ ~ Busy(spi) /\ Cardinality(spi.cause) <= MaxCauses

Open == Idle /\ Bound /\ Set([ss_spi_master_open(Now) EXCEPT !.users = @ + 1])
Close == Idle /\ Quiet /\ spi.users > 0 /\ Set([ss_spi_master_close(Now) EXCEPT !.users = @ - 1])
SetMode == Idle /\ spi.dev /\ Set(Configure(Now))
(* SPI_CMD_SET_TXINT_BUF, SPI_CMD_SET_RXINT_BUF.                           *)
SetBuf == Calls /\ \E f \in {"TXR", "RXR"} : Set([Now EXCEPT !.flags = @ \cup {f}])
Command == /\ Calls
           /\ \/ \E n \in Sizes : Set(SetTxInt(Now, n)) \/ Set(SetRxInt(Now, n))
              \/ \E p \in Pairs, ofs \in {"none", "behind", "other"} : Set(Transfer(Now, p[1], p[2], ofs))
Write == Calls /\ \E n \in Sizes : Set(ss_spi_master_write(Now, n))
Read == Calls /\ \E n \in Sizes : Set(ss_spi_master_read(Now, n))
Poll == Calls /\ \E n \in Sizes : Set(StartPoll(Now, n))
PollMore == spi.poll.tx < spi.poll.len \/ spi.poll.rx < spi.poll.len
PollStep == Runs /\ \/ spi.at = "polling" /\ PollMore /\ Set(PollTx(Now))
                    \/ spi.at = "pollrx" /\ Set(PollRx(Now))
PollEnd == /\ Runs /\ spi.at = "polling" /\ ~ PollMore
           /\ Set([Now EXCEPT !.at = "idle", !.flags = @ \ {"BUSY"}])
Waiting == spi.at \in {"writing", "reading"}
Return == /\ Runs /\ Waiting /\ ~ Busy(spi)
          /\ Set([Now EXCEPT !.at = "idle", !.flags = {},
                    !.early = ("ERROR" \notin spi.flags) /\ Early(spi),
                    !.returned = IF "ERROR" \in spi.flags THEN "error" ELSE spi.at])
Isr == Pending(spi) /\ \E b \in BOOLEAN : Set([Routine([Now EXCEPT !.again = b]) EXCEPT !.again = FALSE])

(* The shifter: a byte leaves and, unless only sending, a frame arrives;   *)
(* after the last byte of an eeprom access the frames follow by themselves.*)
Frame(u) == LET t == [u EXCEPT !.h.frame = IF @ > u.rx.size THEN @ ELSE @ + 1]
            IN  IF Len(u.rxf) < Depth THEN [t EXCEPT !.rxf = Append(@, t.h.frame)]
                ELSE [t EXCEPT !.over = TRUE, !.cause = @ \cup {"over"}]
Out(u) == LET b == Head(u.txf)
          IN  [u EXCEPT !.txf = Tail(@), !.h.sent = IF b > 0 THEN b ELSE @,
                        !.h.bad = @ \/ (b > 0 /\ b # u.h.sent + 1)]
Shift == /\ spi.dev /\ spi.txf # <<>> /\ spi.togo = 0
         /\ LET t == Out(Now)
                last == spi.mode = "eeprom" /\ t.txf = <<>>
            IN  Set(IF spi.mode = "both" THEN Frame(t)
                    ELSE IF last THEN [t EXCEPT !.togo = spi.ndf,
                                         !.cause = IF t.tx.count < t.tx.size THEN @ \cup {"late"} ELSE @]
                    ELSE t)
Receive == spi.dev /\ spi.togo > 0 /\ Set([Frame(Now) EXCEPT !.togo = @ - 1])

Next == Open \/ Close \/ SetMode \/ SetBuf \/ Command \/ Write \/ Read \/ Poll \/ PollStep \/ PollEnd \/ Return \/ Isr
        \/ Shift \/ Receive
Spec == Init /\ [][Next]_spi

(* The routines run, the thread runs when they let it, the line shifts.    *)
InBetween == Runs /\ (spi.at \in {"polling", "pollrx"} \/ (Waiting /\ ~ Busy(spi)))
Fairness ==
  /\ ([]<>(~ Pending(spi)) \/ []<><<Isr>>_spi)
  /\ ([]<>(~ InBetween) \/ []<><<Return \/ PollStep \/ PollEnd>>_spi)
  /\ ([]<>(~ (spi.dev /\ (spi.txf # <<>> \/ spi.togo > 0))) \/ []<><<Shift \/ Receive>>_spi)
FairSpec == Spec /\ Fairness

(* ------------------------------ properties ------------------------------ *)

BufType == [size : Nat, count : Nat, len : Nat]
(* The values of driver and device; neither count passes its size.         *)
TypeOK ==
  /\ spi.opn \in 0 .. Width - 1 /\ spi.dev \in BOOLEAN /\ spi.mode \in {"both", "tx", "rx", "eeprom"}
  /\ spi.imr \subseteq {"tx", "rx", "idle", "err"} /\ spi.tx \in BufType /\ spi.rx \in BufType
  /\ spi.tx.count <= spi.tx.size /\ spi.rx.count <= spi.rx.size
  /\ Len(spi.txf) <= Depth /\ Len(spi.rxf) <= Depth /\ spi.togo \in Nat
  /\ spi.flags \subseteq {"TXR", "RXR", "BUSY", "TXRX", "ERROR"}
  /\ spi.job \in {"none", "tx", "rx", "xfer"}
  /\ spi.at \in {"idle", "writing", "reading", "polling", "pollrx"}
(* Bytes leave in order, frames are stored in the order of their arrival,  *)
(* unless the receive FIFO overran or a command emptied the FIFOs.         *)
InOrder == spi.h.bad => spi.cause \cap {"over", "flushed"} # {}
(* No byte outside a buffer is sent or stored, unless a transfer in both   *)
(* directions has two lengths: the driver is given the longer for both.    *)
InBuffer == spi.h.past => "uneven" \in spi.cause
(* A callback or a return without error means that all bytes have left and *)
(* all frames are stored; not so once an error has masked the error        *)
(* interrupt, when the FIFO ran empty in the middle of an eeprom write, or *)
(* when a command emptied the FIFOs.                                       *)
DoneMeansComplete == ~ spi.early
(* A callback is about the transfer that was started, unless an error or a *)
(* transfer started in a callback left handling_tx or handling_rx set.     *)
RightCallback == spi.wrong => spi.cause \cap {"errored", "wiped"} # {}
(* BUSY is set only while something is in progress; the refusal of other   *)
(* offsets (E_NOSPT) leaves it set.                                        *)
NotWedged == spi.at = "idle" /\ Busy(spi) => spi.job # "none" \/ "refused" \in spi.cause
(* A transfer and a call that are to end: not those whose flags and idle   *)
(* interrupt were cleared behind the callback that started them, nor polled*)
(* ones in the mode an earlier transfer left, nor those that lost a frame. *)
InTransfer == spi.job # "none" /\ "wiped" \notin spi.cause
InCall == Waiting \/ (spi.at \in {"polling", "pollrx"} /\ spi.cause \cap {"mode", "over"} = {})
=============================================================================
