-------------------------------- MODULE SsUart --------------------------------
(***************************************************************************)
(* The subsystem UART: the device layer (subsystem/uart/ss_uart.c) over    *)
(* the controller's driver (subsystem/uart/uart.c), in the build without   *)
(* DMA.  One record holds the device, its FIFOs and the thread.  A byte of *)
(* the current transmit buffer is its number, from 1; 0 stands for bytes   *)
(* of earlier buffers and of the polled calls.                             *)
(***************************************************************************)
EXTENDS Integers, Sequences

CONSTANTS Clients,     \* what a client uses: subsets of Uses
          Lens,        \* lengths of buffers, in bytes
          Depth,       \* fifo_depth
          Width        \* opn_cnt counts modulo this: 2^32 in the code

VARIABLE uart

Uses == {"tx", "rx", "flow", "poll", "int", "share"}
SsUartConstants == Clients \subseteq SUBSET Uses /\ Lens \subseteq Nat /\ Depth \in Nat \ {0} /\ Width \in Nat \ (0 .. 3)

NoBuf == [set |-> FALSE, size |-> 0, count |-> 0]
(* What became of the buffer: the byte sent last, one left out, one read   *)
(* from behind the buffer.  cause: what the client or an unlucky interrupt *)
(* did to it.                                                              *)
NoHist == [next |-> 0, bad |-> FALSE, past |-> FALSE]
Causes == {"clobbered", "raced", "stale", "reopened", "pulse",
           "rearmedTx", "rearmedRx", "overclosed"}

Init == \E c \in Clients :
        uart = [uses |-> c, opn |-> 0, dev |-> FALSE, ier |-> {}, flow |-> FALSE, ncts |-> "low",
                cts |-> "low", dcts |-> FALSE, brk |-> FALSE,
                tx |-> NoBuf, rx |-> NoBuf, txf |-> <<>>, rxf |-> 0,
                flags |-> {}, user |-> FALSE, isr |-> FALSE,
                at |-> "idle", ld |-> {}, change |-> <<{}, {}>>, then |-> "idle",
                h |-> NoHist, cause |-> {}, broken |-> FALSE, returned |-> "no"]

(* ---------------------- uart.c: the controller's driver ----------------- *)

(* What the identification register tells, by priority; the threshold bit  *)
(* only moves the level of the transmit interrupt, which is zero here.     *)
Break(u) == "line" \in u.ier /\ u.brk
RxAvail(u) == "rx" \in u.ier /\ u.rxf > 0
TxEmpty(u) == "tx" \in u.ier /\ u.txf = <<>>
Modem(u) == "modem" \in u.ier /\ u.dcts
Pending(u) == u.dev /\ (Break(u) \/ RxAvail(u) \/ TxEmpty(u) \/ Modem(u))

io_uart_open(u) == [u EXCEPT !.dev = TRUE, !.ier = {}, !.txf = <<>>, !.rxf = 0, !.ncts = u.cts]
(* The buffers of this session stay with the device.                       *)
io_uart_close(u) ==
  [u EXCEPT !.dev = FALSE, !.ier = {}, !.txf = <<>>, !.rxf = 0, !.user = FALSE,
            !.cause = IF u.tx.size > 0 THEN @ \cup {"reopened"} ELSE @]
set_flow_control(u, on) ==
  IF on THEN [u EXCEPT !.flow = TRUE, !.ier = @ \cup {"modem"}, !.ncts = u.cts, !.dcts = FALSE]
  ELSE [u EXCEPT !.flow = FALSE, !.ier = @ \ {"modem"}]

(* The enable register is loaded here and stored in a later step.          *)
Load(u, on, off, then) == [u EXCEPT !.ld = u.ier, !.change = <<on, off>>, !.at = "store",
                                    !.then = then]
Store(u) == [u EXCEPT !.ier = (u.ld \cup u.change[1]) \ u.change[2],
                      !.ld = {}, !.change = <<{}, {}>>, !.at = u.then, !.then = "idle"]
Cap(n) == IF n < 0 \/ n > Depth THEN Depth ELSE n          \* n: unsigned difference
(* Numbers of the buffer's next n bytes, 0 for what lies behind it; the    *)
(* FIFO drops what it has no room for.  Counting stops at Top.             *)
Bytes(from, n, size) == [i \in 1 .. n |-> IF from + i <= size THEN from + i ELSE 0]
Top(u) == u.tx.size + Depth + 1
FillWith(u, n, bytes) ==
  LET room == Depth - Len(u.txf)
  IN  [u EXCEPT !.txf = @ \o SubSeq(bytes, 1, IF n < room THEN n ELSE room),
                !.tx.count = IF @ + n < Top(u) THEN @ + n ELSE Top(u),
                !.h.bad = @ \/ n > room, !.h.past = @ \/ u.tx.count + n > u.tx.size]
(* Mutant: the FIFO is filled from the start of the buffer. *)
Fill_Start(u, n) == FillWith(u, n, Bytes(0, n, u.tx.size))
Fill(u, n) == FillWith(u, n, Bytes(u.tx.count, n, u.tx.size))
(* The buffer is taken; what is still in the FIFO belongs to none.         *)
io_uart_write_Buffer(u, buf) ==
  [u EXCEPT !.tx = buf, !.txf = [i \in DOMAIN @ |-> 0], !.h = NoHist,
            !.cause = @ \ {"clobbered", "raced", "reopened", "pulse", "rearmedTx"}]
Clear(u) == ~ u.flow \/ u.ncts = "low"                     \* to send
(* The modem interrupt may already have begun the transfer, even ended it. *)
io_uart_write_Start(u, then) ==
  LET t == IF u.txf = <<>> /\ u.tx.count = 0 THEN u ELSE [u EXCEPT !.cause = @ \cup {"raced"}]
  IN  IF Clear(u) /\ u.tx.size # u.tx.count
      THEN Load(Fill(t, Cap(u.tx.size - u.tx.count)), {"tx", "thr"}, {}, then)
      ELSE [u EXCEPT !.at = then]
io_uart_read(u, buf, then) ==
  LET t == [u EXCEPT !.rx = buf, !.broken = FALSE, !.cause = @ \ {"rearmedRx"}]
  IN  IF buf.size > 0 THEN Load(t, {"rx", "line"}, {}, then) ELSE [t EXCEPT !.at = then]

(* ------------------- ss_uart.c: the callbacks it installs --------------- *)

(* again: a buffer that the client's callback starts, or NoBuf.            *)
ss_uart_tx_cb(u, again) ==
  IF "TX" \in u.flags THEN [u EXCEPT !.flags = @ \ {"TX"}]
  ELSE IF ~ u.user \/ ~ again.set THEN u
  ELSE LET t == io_uart_write_Buffer(u, again)
       IN  IF Clear(t) THEN [Fill(t, Cap(again.size)) EXCEPT !.ier = @ \cup {"tx", "thr"}] ELSE t
ss_uart_rx_cb(u, again) ==
  IF "RX" \in u.flags THEN [u EXCEPT !.flags = @ \ {"RX"}]
  ELSE IF ~ u.user \/ ~ again.set THEN u
  ELSE [u EXCEPT !.rx = again, !.ier = @ \cup {"rx", "line"}, !.broken = FALSE, !.cause = @ \ {"rearmedRx"}]

(* ---------------------- uart.c: the interrupt routine ------------------- *)

BreakDetected(u, again) ==
  ss_uart_rx_cb([u EXCEPT !.brk = FALSE, !.ier = @ \ {"rx", "line"}, !.broken = TRUE,
                          !.rxf = IF @ > 0 THEN @ - 1 ELSE 0], again)
(* Mutant: the interrupt stays enabled behind the last byte. *)
RxDataAvailable_On(u, again) ==
  LET t == [u EXCEPT !.rx.count = IF @ > u.rx.size THEN @ ELSE @ + 1, !.rxf = @ - 1]
  IN  IF ~ u.rx.set \/ t.rx.count = t.rx.size THEN ss_uart_rx_cb(t, again) ELSE t
RxDataAvailable(u, again) ==
  LET t == [u EXCEPT !.rx.count = IF @ > u.rx.size THEN @ ELSE @ + 1, !.rxf = @ - 1]
  IN  IF ~ u.rx.set THEN ss_uart_rx_cb(u, again)
      ELSE IF t.rx.count = t.rx.size
           THEN ss_uart_rx_cb([t EXCEPT !.ier = @ \ {"rx", "line"}], again) ELSE t
(* Mutant: the callback is made when the last byte enters the FIFO. *)
TransmitterEmpty_Early(u, again) ==
  IF ~ u.tx.set THEN ss_uart_tx_cb(u, again)
  ELSE LET t == Fill(u, Cap(u.tx.size - u.tx.count))
       IN  IF t.tx.count = t.tx.size THEN ss_uart_tx_cb([t EXCEPT !.ier = @ \ {"tx", "thr"}], again) ELSE t
(* tx_size is cleared after the callback, also the size of a buffer that   *)
(* the callback has just started.                                          *)
TransmitterEmpty(u, again) ==
  IF ~ u.tx.set THEN ss_uart_tx_cb(u, again)
  ELSE IF u.tx.count = u.tx.size
  THEN LET t == ss_uart_tx_cb([u EXCEPT !.ier = @ \ {"tx", "thr"}], again)
       IN  [t EXCEPT !.tx.size = 0,
                     !.cause = IF t.tx = u.tx THEN @ ELSE @ \cup {"clobbered"}]
  ELSE Fill(u, Cap(u.tx.size - u.tx.count))
(* Mutant: the modem interrupt does not look for a waiting buffer. *)
ModemStatus_Deaf(u) == [u EXCEPT !.dcts = FALSE, !.ncts = u.cts]
ModemStatus(u) ==
  [u EXCEPT !.dcts = FALSE, !.ncts = u.cts,
            !.ier = IF u.cts = "low" /\ u.tx.size > 0 THEN @ \cup {"tx"} ELSE @]
uart_isr_proc(u, again) ==
  IF Break(u) THEN BreakDetected(u, again)
  ELSE IF RxAvail(u) THEN RxDataAvailable(u, again)
  ELSE IF TxEmpty(u) THEN TransmitterEmpty(u, again)
  ELSE ModemStatus(u)

(* ------------------------ ss_uart.c: the device layer ------------------- *)

ss_uart_open(u) ==
  LET n == (u.opn + 1) % Width
      t == [u EXCEPT !.opn = n]
  IN  IF n > 1 \/ u.dev THEN t                       \* E_OK or E_OPNED, E_SYS
      ELSE [set_flow_control(io_uart_open(t), FALSE) EXCEPT !.flags = {}]
(* Mutant: the controller is closed with the first close. *)
ss_uart_close_Any(u) == io_uart_close([u EXCEPT !.opn = (u.opn + Width - 1) % Width])
ss_uart_close(u) ==
  LET t == [u EXCEPT !.opn = (u.opn + Width - 1) % Width,
                     !.cause = IF u.opn = 0 THEN @ \cup {"overclosed"} ELSE @]
  IN  IF t.opn = 0 THEN io_uart_close(t) ELSE t
Buf(n) == [set |-> TRUE, size |-> n, count |-> 0]
(* UART_CMD_SET_TXINT_BUF, UART_CMD_SET_RXINT_BUF; zero is the NULL buffer.*)
SetTxBuf(u, n) == [io_uart_write_Buffer(u, IF n = 0 THEN NoBuf ELSE Buf(n))
                     EXCEPT !.at = "start", !.then = "idle"]
SetRxBuf(u, n) == io_uart_read(u, IF n = 0 THEN NoBuf ELSE Buf(n), "idle")
io_uart_tx_int(u, on) ==
  IF on THEN [Load(u, {"tx", "thr"}, {}, "idle") EXCEPT !.cause = @ \cup {"rearmedTx"}]
  ELSE Load(u, {}, {"tx", "thr"}, "idle")
io_uart_rx_int(u, on) ==
  IF on THEN [Load(u, {"rx"}, {}, "idle") EXCEPT !.cause = @ \cup {"rearmedRx"}]
  ELSE Load(u, {}, {"rx"}, "idle")
ss_uart_write(u, n) == [io_uart_write_Buffer([u EXCEPT !.flags = {"TX"}], Buf(n))
                          EXCEPT !.at = "start", !.then = "writing"]
ss_uart_read(u, n) == io_uart_read([u EXCEPT !.flags = {"RX"}], Buf(n), "reading")
(* Called in a critical section or a handler: every interrupt is off, and  *)
(* each byte is waited for.                                                *)
io_uart_poll_start(u) == [u EXCEPT !.ld = u.ier, !.ier = {"thr"}, !.at = "polling"]
io_uart_poll_end(u) == [u EXCEPT !.ier = u.ld, !.ld = {}, !.at = "idle"]

(* ------------------------------- behaviour ------------------------------ *)

Now == [uart EXCEPT !.returned = "no"]
Set(u) == uart' = u
Runs == ~ uart.isr /\ (Pending(uart) => uart.at = "polling")   \* the thread
Idle == Runs /\ uart.at = "idle"

Does(x) == x \in uart.uses
Open == Idle /\ (uart.opn # 0 => Does("share")) /\ uart.opn # Width - 2 /\ Set(ss_uart_open(Now))     \* bound
Close == Idle /\ (uart.opn = 0 => Does("share")) /\ Set(ss_uart_close(Now))      \* of a closed device too
SetCallback == Idle /\ uart.dev /\ Set([Now EXCEPT !.user = TRUE])
(* The command reads its argument as an address: either setting follows.   *)
SetHwfc == Idle /\ Does("flow") /\ uart.dev /\ \E on \in BOOLEAN : Set(set_flow_control(Now, on))
(* One buffer of either direction at a time.                               *)
TxBusy == "tx" \in uart.ier \/ uart.tx.size > uart.tx.count
RxBusy == "rx" \in uart.ier
SetBuffer == /\ Idle /\ uart.dev
             /\ \E n \in Lens : \/ Does("tx") /\ ~ TxBusy /\ Set(SetTxBuf(Now, n))
                                \/ Does("rx") /\ ~ RxBusy /\ Set(SetRxBuf(Now, n))
(* Without a buffer an enabled interrupt would be called back for ever.    *)
SetInt == /\ Idle /\ Does("int") /\ uart.dev
          /\ \E on \in BOOLEAN : \/ uart.tx.set /\ Set(io_uart_tx_int(Now, on))
                                 \/ uart.rx.set /\ Set(io_uart_rx_int(Now, on))
Call == /\ Idle /\ uart.dev
        /\ \E n \in Lens \ {0} : \/ Does("tx") /\ ~ TxBusy /\ Set(ss_uart_write(Now, n))
                                 \/ Does("rx") /\ ~ RxBusy /\ Set(ss_uart_read(Now, n))
StartTx == Runs /\ uart.at = "start" /\ Set(io_uart_write_Start([Now EXCEPT !.then = "idle"], uart.then))
StoreIer == Runs /\ uart.at = "store" /\ Set(Store(Now))
Waits(f, at) == Runs /\ uart.at = at /\ f \notin uart.flags
Return == \/ Waits("TX", "writing") /\ Set([Now EXCEPT !.at = "idle", !.flags = {}, !.returned = "write"])
          \/ Waits("RX", "reading") /\ Set([Now EXCEPT !.at = "idle", !.flags = {}, !.returned = "read"])
PollCall == ~ uart.isr /\ uart.at = "idle" /\ Does("poll") /\ uart.dev /\ Set(io_uart_poll_start(Now))
(* Mutant: the FIFO's room is not waited for. *)
PollByte_Blind == uart.at = "polling" /\ Len(uart.txf) <= Depth /\ Set([Now EXCEPT !.txf = Append(@, 0)])
PollByte == /\ uart.at = "polling" /\ Len(uart.txf) < Depth
            /\ Set([Now EXCEPT !.txf = Append(@, 0)])
PollRead == uart.at = "polling" /\ uart.rxf > 0 /\ Set([Now EXCEPT !.rxf = @ - 1])
PollEnd == uart.at = "polling" /\ Set(io_uart_poll_end(Now))

(* The routine loops until nothing is pending; the line is slower.         *)
Isr == /\ Pending(uart) /\ uart.at # "polling"
       /\ \E n \in {0} \cup Lens : LET t == uart_isr_proc(Now, IF n = 0 THEN NoBuf ELSE Buf(n))
                                   IN  Set([t EXCEPT !.isr = Pending(t),
                                              !.cause = IF t.at = "store" /\ t.ier # uart.ier
                                                        THEN @ \cup {"stale"} ELSE @])

Shift == /\ uart.dev /\ uart.txf # <<>> /\ ~ uart.isr
         /\ LET k == Head(uart.txf)
            IN  Set([Now EXCEPT !.txf = Tail(@), !.h.next = IF k > 0 THEN k ELSE @,
                       !.h.bad = @ \/ (k > 0 /\ k # uart.h.next + 1)])
Arrive == uart.dev /\ Does("rx") /\ uart.rxf < Depth /\ ~ uart.isr /\ Set([Now EXCEPT !.rxf = @ + 1])
LineBreak == uart.dev /\ "line" \in uart.ier /\ ~ uart.brk /\ ~ uart.isr /\ Set([Now EXCEPT !.brk = TRUE])
(* The line may fall and rise again before the routine looks at it.        *)
Cts == /\ Does("flow") /\ ~ uart.isr
       /\ Set([Now EXCEPT !.cts = IF @ = "low" THEN "high" ELSE "low", !.dcts = TRUE,
                          !.cause = IF Modem(uart) THEN @ \cup {"pulse"} ELSE @])

Next == Open \/ Close \/ SetCallback \/ SetHwfc \/ SetBuffer \/ SetInt \/ Call \/ StartTx
        \/ StoreIer \/ Return \/ PollCall \/ PollByte \/ PollRead \/ PollEnd \/ Isr
        \/ Shift \/ Arrive \/ LineBreak \/ Cts
Spec == Init /\ [][Next]_uart

(* The thread is scheduled whenever the routine lets it, the routine runs, *)
(* the line sends, and a peer that holds the line high lets go of it.      *)
InBetween == (Runs /\ uart.at \in {"start", "store"}) \/ Waits("TX", "writing") \/ Waits("RX", "reading")
             \/ uart.at = "polling"
Fairness ==
  /\ (<>[](~ InBetween) \/ []<><<StartTx \/ StoreIer \/ Return \/ PollEnd>>_uart)
  /\ ([]<>(~ Pending(uart)) \/ []<><<Isr>>_uart)
  /\ (<>[](uart.txf = <<>> \/ ~ uart.dev \/ uart.isr) \/ []<><<Shift>>_uart)
  /\ (<>[](uart.rxf = Depth \/ ~ uart.dev \/ uart.isr \/ ~ Does("rx")) \/ []<><<Arrive>>_uart)
  /\ (([]<>(uart.cts = "low")) \/ []<><<Cts>>_uart)
FairSpec == Spec /\ Fairness

(* ------------------------------ properties ------------------------------ *)

BufType == [set : BOOLEAN, size : Nat, count : Nat]
(* The values of the device: the FIFOs never hold more than their depth.   *)
TypeOK ==
  /\ uart.opn \in 0 .. Width - 1 /\ uart.dev \in BOOLEAN /\ uart.flow \in BOOLEAN
  /\ uart.ier \subseteq {"rx", "tx", "line", "modem", "thr"} /\ uart.ld \subseteq {"rx", "tx", "line", "modem", "thr"}
  /\ uart.ncts \in {"low", "high"} /\ uart.cts \in {"low", "high"}
  /\ uart.tx \in BufType /\ uart.rx \in BufType
  /\ uart.txf \in Seq(Nat) /\ Len(uart.txf) <= Depth /\ uart.rxf \in 0 .. Depth
  /\ uart.flags \subseteq {"TX", "RX"} /\ uart.cause \subseteq Causes
  /\ uart.at \in {"idle", "start", "store", "writing", "reading", "polling"}

TxCauses == {"clobbered", "raced", "stale", "reopened", "rearmedTx"}
(* The bytes of a buffer leave once each and in order, unless the callback *)
(* started the buffer, the modem interrupt overtook the call or the FIFO   *)
(* still held other bytes, or an enable bit was lost or set by hand.       *)
InOrder == uart.h.bad => uart.cause \cap TxCauses # {}
(* And no byte behind the end of a buffer is read or written.              *)
InBuffer == /\ uart.h.past => uart.cause \cap TxCauses # {}
            /\ uart.rx.count > uart.rx.size => uart.cause \cap {"stale", "rearmedRx"} # {}
(* write returns when its last byte has left, read when its buffer is full *)
(* or the line was broken (ss_uart_write, ss_uart_read wait for the flag). *)
ReturnMeansDone ==
  /\ (uart.returned = "write" /\ uart.cause \cap TxCauses = {})
       => (uart.h.next = uart.tx.count /\ uart.txf = <<>>)
  /\ (uart.returned = "read" /\ uart.cause \cap {"stale", "rearmedRx"} = {})
       => (uart.broken \/ uart.rx.count = uart.rx.size)
(* The controller runs exactly while the device is open to someone, unless *)
(* a closed device was closed (ss_uart_close counts below zero).           *)
OpenMatches == uart.dev = (uart.opn > 0) \/ "overclosed" \in uart.cause
(* A call that waits for its flag and is to return: the peer that ends its *)
(* wait holds the line until the routine has looked at it.                 *)
InCall == uart.at \in {"writing", "reading"} /\ "pulse" \notin uart.cause
=============================================================================
