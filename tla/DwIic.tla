-------------------------------- MODULE DwIic --------------------------------
(***************************************************************************)
(* The DesignWare I2C driver (src/device/ip/designware/iic/dw_iic.c) as    *)
(* master and as slave.  The device object, the controller's registers and *)
(* FIFOs and the thread's place in a polled call are one record.  The      *)
(* routine reads IC_INTR_STAT in one step and does the rest in another, so *)
(* that the bus moves in between.  Commands and bytes carry the transfer   *)
(* they belong to (its parity) and their number in it.                     *)
(***************************************************************************)
EXTENDS Integers, Sequences

CONSTANTS Lens,        \* lengths of the client's buffers
          Depth        \* length of either FIFO

VARIABLE iic

IicConstants == Lens \subseteq Nat \ {0} /\ Depth \in Nat \ {0}

NoBuf == [set |-> FALSE, len |-> 0, ofs |-> 0]
NoCall == [op |-> "none", i |-> 0, n |-> 0, asked |-> FALSE]
Init == iic = [opn |-> FALSE, mode |-> "master", st |-> {}, cur |-> "free", ints |-> {}, mask |-> {}, irq |-> FALSE, cbs |-> FALSE,
               tb |-> NoBuf, rb |-> NoBuf, rq |-> NoBuf,
               ssi |-> FALSE, txf |-> <<>>, rxf |-> <<>>, raw |-> {}, snap |-> {},
               at |-> NoCall, isr |-> FALSE, par |-> FALSE,
               line |-> <<>>, wait |-> FALSE,
               calls |-> {}, owed |-> {},                    \* history: callbacks
               alien |-> FALSE, dropped |-> FALSE, missed |-> FALSE, stale |-> FALSE]

(* ------------------------------ registers ------------------------------ *)

MasterTx == {"TX_EMPTY", "TX_ABRT"}                  \* IC_INT_MST_TX_ENABLE
MasterRx == {"TX_EMPTY", "RX_FULL", "TX_ABRT"}       \* IC_INT_MST_RX_ENABLE
(* Mutant: the read request is left masked. *)
SlaveTx_Masked == {"TX_ABRT"}
SlaveTx == {"RD_REQ", "TX_ABRT"}
SlaveRx == {"RX_FULL"}

(* Turned off, the controller empties its FIFOs and lets go of the bus.     *)
dw_iic_disable(s) == [s EXCEPT !.ssi = FALSE, !.txf = <<>>, !.rxf = <<>>, !.raw = {},
                               !.line = <<>>, !.wait = FALSE, !.stale = FALSE, !.missed = FALSE]
dw_iic_enable(s) == [s EXCEPT !.ssi = TRUE]
(* The settings that turn the controller off and on again.                 *)
dw_iic_set_speedmode(s) == dw_iic_enable(dw_iic_disable(s))
dw_iic_putready(s) == Len(s.txf) < Depth
dw_iic_getready(s) == s.rxf # <<>>
(* While TX_ABRT stands the transmit FIFO is held empty.                   *)
dw_iic_putdata(s, c) == IF "TX_ABRT" \in s.raw \/ ~ s.ssi THEN [s EXCEPT !.dropped = TRUE]
                        ELSE [s EXCEPT !.txf = Append(@, c)]
IC_RAW_INTR_STAT(s) == s.raw \cup (IF s.txf = <<>> THEN {"TX_EMPTY"} ELSE {})
                             \cup (IF s.rxf # <<>> THEN {"RX_FULL"} ELSE {})
IC_INTR_STAT(s) == IF s.ssi THEN IC_RAW_INTR_STAT(s) \cap s.mask ELSE {}
(* IC_CLR_INTR; missed notes an abort or a request that nobody looked at.  *)
dw_iic_clear_interrupt_all(s) ==
  [s EXCEPT !.raw = {}, !.missed = @ \/ s.raw \cap {"TX_ABRT", "RD_REQ"} # {}]
dw_iic_flush_tx(s) == dw_iic_clear_interrupt_all(s)
(* Once a flag is cleared the rest of the status is not looked at.          *)
dw_iic_get_slv_state(s) ==
  [s EXCEPT !.raw = IF "RX_DONE" \in @ THEN @ \ {"RX_DONE"}
                    ELSE IF "STOP" \in @ THEN @ \ {"STOP"} ELSE @ \ {"TX_ABRT"}]
(* dw_iic_mst_chkerr and dw_iic_slv_chkerr clear the abort they report.    *)
dw_iic_chkerr(s) == IF "TX_ABRT" \in s.raw THEN [s EXCEPT !.raw = @ \ {"TX_ABRT"}] ELSE s
(* Mutant: the last command carries no STOP. *)
Command_NoStop(s, rd, i, n) == [rd |-> rd, par |-> s.par, i |-> i, last |-> i = n]
(* A STOP or a RESTART goes with the last command of a transfer.            *)
Command(s, rd, i, n) == [rd |-> rd, par |-> s.par, i |-> i, last |-> i = n - 1]

(* ------------------------ interrupts and aborts ------------------------ *)

Enables(s, d) == IF s.mode = "master" THEN (IF d = "tx" THEN MasterTx ELSE MasterRx)
                                      ELSE (IF d = "tx" THEN SlaveTx ELSE SlaveRx)
(* Mutant: the interrupt is closed while the other direction needs it. *)
dw_iic_dis_cbr_Both(s, d) ==
  [s EXCEPT !.mask = @ \ Enables(s, d), !.ints = @ \ {d, "gint"}, !.irq = FALSE,
            !.owed = @ \ {d}]
dw_iic_dis_cbr(s, d) ==
  LET t == [s EXCEPT !.mask = @ \ Enables(s, d), !.ints = @ \ {d}, !.owed = @ \ {d}]
  IN  IF "gint" \in t.ints /\ t.ints = {"gint"} THEN [t EXCEPT !.irq = FALSE, !.ints = {}]
      ELSE t
dw_iic_ena_cbr(s, d) ==
  [s EXCEPT !.ints = @ \cup {d, "gint"}, !.mask = @ \cup Enables(s, d),
            !.irq = @ \/ "gint" \notin s.ints, !.owed = @ \cup {d}]
dw_iic_disable_interrupt(s) ==
  [dw_iic_dis_cbr(dw_iic_dis_cbr(s, "tx"), "rx") EXCEPT !.irq = FALSE, !.ints = {}]
(* A callback; lost marks the success of a send that has lost a byte.      *)
Cb(s, c) == [s EXCEPT !.calls = IF ~ s.cbs THEN @
                                ELSE @ \cup {c} \cup (IF c = "tx" /\ s.dropped /\ ~ s.missed THEN {"lost"} ELSE {})]
dw_iic_abort(s, d) ==
  LET t == IF d \in s.ints THEN Cb(dw_iic_dis_cbr(s, d), "abort") ELSE s
  IN  IF s.mode = "master" /\ s.cur = d THEN [t EXCEPT !.cur = "free"] ELSE t
dw_iic_enable_device(s) == IF "EN" \in s.st THEN s
                           ELSE [dw_iic_enable(s) EXCEPT !.st = @ \cup {"EN"}]
dw_iic_disable_device(s) == [dw_iic_disable(s) EXCEPT !.st = @ \ {"EN"}]
(* The interrupt and the buffers of a transfer in progress are left alone. *)
dw_iic_reset_device(s) ==
  dw_iic_enable_device([dw_iic_disable_device(s) EXCEPT !.cur = "free"])

(* dw_iic_master_init and dw_iic_slave_init.                                *)
dw_iic_init(s, mode) == dw_iic_enable([s EXCEPT !.mode = mode, !.mask = {}])
dw_iic_open(s, mode) ==
  LET t == [dw_iic_disable_device(s) EXCEPT !.opn = TRUE]
      u == [dw_iic_init(t, mode) EXCEPT !.st = {"EN"}, !.cur = "free", !.ints = {}]
  IN  [dw_iic_disable_interrupt(u) EXCEPT !.tb = NoBuf, !.rb = NoBuf, !.rq = NoBuf,
                                          !.cbs = FALSE]
dw_iic_close(s) ==
  LET t == dw_iic_disable_interrupt(s)
  IN  [dw_iic_disable_device(t) EXCEPT !.opn = FALSE, !.st = {},
                                       !.tb = NoBuf, !.rb = NoBuf, !.cbs = FALSE]

Other(d) == IF d = "tx" THEN "rx" ELSE "tx"
(* IIC_CMD_SET_TXINT and IIC_CMD_SET_RXINT, refused with E_CTX while the   *)
(* master moves data the other way.                                        *)
SetInt(s, d, on) ==
  IF s.mode = "master" /\ s.cur = Other(d) THEN s
  ELSE IF on THEN [dw_iic_ena_cbr(s, d) EXCEPT !.cur = d]
  ELSE [dw_iic_dis_cbr(s, d) EXCEPT !.cur = "free"]
(* IIC_CMD_SET_TXINT_BUF and IIC_CMD_SET_RXINT_BUF.                        *)
SetBuf(s, d, n) ==
  LET b == [NoBuf EXCEPT !.set = TRUE, !.len = n]
  IN  IF s.mode = "master" /\ s.cur = d THEN s
      ELSE IF d = "tx" THEN [s EXCEPT !.tb = b] ELSE [s EXCEPT !.rb = b, !.rq = b]
NewPar(s) == [s EXCEPT !.par = s.mode = "master" /\ ~ @, !.dropped = FALSE, !.missed = @ /\ s.mode = "slave"]
(* A client's transfer by interrupt: both commands, and a new parity.      *)
Arm(s, d, n) ==
  LET t == IF s.mode = "slave" \/ s.cur = "free" THEN NewPar(s) ELSE s
  IN  SetInt(SetBuf(t, d, n), d, TRUE)

(* ------------------------------ the routine ----------------------------- *)

Repeat(F(_), s, n) == LET t[i \in 0 .. n] == IF i = 0 THEN s ELSE F(t[i - 1]) IN t[n]
(* What a callback does: the client starts a transfer the other way; an    *)
(* abort that is still to be handled then hits the new transfer.           *)
React(s, d, n) == IF n = 0 \/ ~ s.cbs THEN s
                  ELSE [Arm(s, d, n) EXCEPT !.missed = "TX_ABRT" \in s.snap]

(* Mutant: the error ends the transfer without its callback. *)
Failed_Silent(s, d) == [dw_iic_dis_cbr(dw_iic_chkerr(s), d) EXCEPT !.cur = "free"]
Failed(s, d) == [Cb(dw_iic_dis_cbr(dw_iic_chkerr(s), d), "err") EXCEPT !.cur = "free"]
(* The turns until putready says no: a FIFO held empty is always ready.     *)
Room(s) == IF "TX_ABRT" \in s.raw THEN s.tb.len + s.rq.len ELSE Depth - Len(s.txf)
Least(a, b) == IF a < b THEN a ELSE b
(* A turn of the writer's loop; with the last byte the transfer is called  *)
(* back as sent, and then its buffer is cleared.                           *)
SendOne(s) ==
  [dw_iic_putdata(s, Command(s, FALSE, s.tb.ofs, s.tb.len)) EXCEPT !.tb.ofs = @ + 1]
dw_iic_mst_int_write(s, n) ==
  LET left == s.tb.len - s.tb.ofs
      w == Repeat(SendOne, s, Least(left, Room(s)))
      t == IF "TX_EMPTY" \notin s.snap THEN s
           ELSE IF left > Room(s) THEN w
           ELSE [React(Cb([dw_iic_dis_cbr(w, "tx") EXCEPT !.cur = "free"], "tx"), "rx", n)
                   EXCEPT !.tb = NoBuf]
      u == IF "TX_ABRT" \in s.snap THEN [Failed(t, "tx") EXCEPT !.tb = NoBuf] ELSE t
  IN  IF s.tb.set THEN u ELSE [dw_iic_dis_cbr(s, "tx") EXCEPT !.cur = "free"]

AskOne(s) ==
  [dw_iic_putdata(s, Command(s, TRUE, s.rq.ofs, s.rq.len)) EXCEPT !.rq.ofs = @ + 1]
TakeOne(s) == [s EXCEPT !.rxf = Tail(@), !.rb.ofs = @ + 1,
                        !.alien = @ \/ Head(s.rxf) # <<s.par, s.rb.ofs>>]
(* Mutant: one request more than the buffer has room for. *)
Requests_More(s) == Least(s.rq.len + 1 - s.rq.ofs, Room(s))
Requests(s) == Least(s.rq.len - s.rq.ofs, Room(s))
dw_iic_mst_int_read(s, n) ==
  LET q == Repeat(AskOne, s, Requests(s))
      asked == IF "TX_EMPTY" \notin s.snap THEN s
               ELSE IF dw_iic_putready(q) THEN [q EXCEPT !.mask = @ \ {"TX_EMPTY"}] ELSE q
      r == Repeat(TakeOne, asked, Least(Len(s.rxf), s.rb.len - s.rb.ofs))
      t == IF "RX_FULL" \notin s.snap THEN asked
           ELSE IF r.rb.ofs < r.rb.len THEN r
           ELSE [React(Cb([dw_iic_dis_cbr(r, "rx") EXCEPT !.cur = "free"], "rx"), "tx", n)
                   EXCEPT !.rb = NoBuf, !.rq = NoBuf]
      u == IF "TX_ABRT" \in s.snap
           THEN [Failed(t, "rx") EXCEPT !.rb = NoBuf, !.rq = NoBuf] ELSE t
  IN  IF s.rb.set THEN u ELSE [dw_iic_dis_cbr(s, "rx") EXCEPT !.cur = "free"]

(* A slave's callbacks write one byte and read all there are.              *)
Answer(s) == IF dw_iic_putready(s) THEN [dw_iic_putdata(s, Command(s, FALSE, 0, 0))
                                           EXCEPT !.raw = @ \ {"RD_REQ"}] ELSE s
dw_iic_slv_int_process(s) ==
  LET t == IF "RD_REQ" \notin s.snap THEN s
           ELSE IF s.cbs THEN Answer(s) ELSE dw_iic_dis_cbr(s, "tx")
      u == IF "RX_FULL" \notin s.snap THEN t
           ELSE IF s.cbs THEN [t EXCEPT !.rxf = <<>>] ELSE dw_iic_dis_cbr(t, "rx")
  IN  IF "TX_ABRT" \in s.snap THEN Cb(dw_iic_chkerr(u), "err") ELSE u

(* Mutant: the receiving half also runs for a transmission. *)
dw_iic_isr_Read(s, n) ==
  dw_iic_clear_interrupt_all(
    IF s.mode = "slave" THEN dw_iic_slv_int_process(s) ELSE dw_iic_mst_int_read(s, n))
dw_iic_isr(s, n) ==
  dw_iic_clear_interrupt_all(
    IF s.mode = "slave" THEN dw_iic_slv_int_process(s)
    ELSE IF s.cur = "tx" THEN dw_iic_mst_int_write(s, n)
    ELSE dw_iic_mst_int_read(s, n))

(* --------------------------- polled transfers --------------------------- *)

Begin(s, op, n) == [NewPar(s) EXCEPT !.at = [NoCall EXCEPT !.op = op, !.n = n]]
Next1(s) == IF s.at.i + 1 = s.at.n THEN [s EXCEPT !.at = NoCall]
            ELSE [s EXCEPT !.at.i = @ + 1, !.at.asked = FALSE]
GiveUp(s, e) == [s EXCEPT !.at = NoCall, !.stale = @ \/ (e = "timeout" /\ s.mode = "master")]
(* A turn of dw_iic_mst_write_data or dw_iic_mst_read_data.                 *)
dw_iic_mst_write_data(s) ==
  IF dw_iic_putready(s) THEN Next1(dw_iic_putdata(s, Command(s, FALSE, s.at.i, s.at.n)))
  ELSE GiveUp(s, "timeout")
dw_iic_mst_read_data(s) ==
  IF ~ s.at.asked
  THEN IF dw_iic_putready(s)
       THEN [dw_iic_putdata(s, Command(s, TRUE, s.at.i, s.at.n)) EXCEPT !.at.asked = TRUE]
       ELSE GiveUp(s, "timeout")
  ELSE IF dw_iic_getready(s)
  THEN Next1([s EXCEPT !.rxf = Tail(@), !.alien = @ \/ Head(s.rxf) # <<s.par, s.at.i>>])
  ELSE IF "TX_ABRT" \in s.raw THEN GiveUp(dw_iic_chkerr(s), "noack")
  ELSE GiveUp(s, "timeout")
(* A turn of dw_iic_slv_write_data or dw_iic_slv_read_data.                 *)
dw_iic_slv_write_data(s) ==
  CASE "RD_REQ" \in s.raw -> IF dw_iic_putready(s) THEN Next1(Answer(s)) ELSE s
    [] "RD_REQ" \notin s.raw /\ "RX_DONE" \in s.raw ->
         GiveUp([s EXCEPT !.raw = @ \ {"RX_DONE"}], "mststop")
    [] "RD_REQ" \notin s.raw /\ "RX_DONE" \notin s.raw /\ "STOP" \in s.raw ->
         GiveUp([s EXCEPT !.raw = @ \ {"STOP"}], "mststop")
    [] OTHER -> GiveUp(s, "timeout")
dw_iic_slv_read_data(s) ==
  IF dw_iic_getready(s) THEN Next1([s EXCEPT !.rxf = Tail(@)])
  ELSE IF "STOP" \in s.raw THEN GiveUp([s EXCEPT !.raw = @ \ {"STOP"}], "mststop")
  ELSE GiveUp(s, "timeout")

(* ------------------------------- behaviour ------------------------------ *)

Fresh == [iic EXCEPT !.calls = {}, !.alien = FALSE]
Idle == iic.at = NoCall /\ ~ iic.isr
Enabled == Idle /\ iic.opn /\ "EN" \in iic.st
(* What the client must see to, because the driver does not: no polled     *)
(* call, setting or reset during a transfer by interrupt.                  *)
Quiet == iic.ints = {}

Open == Idle /\ ~ iic.opn /\ \E m \in {"master", "slave"} : iic' = dw_iic_open(Fresh, m)
Close == Idle /\ iic.opn /\ iic' = dw_iic_close(Fresh)
SetCbs == Enabled /\ iic' = [Fresh EXCEPT !.cbs = TRUE]
Device == /\ Idle /\ iic.opn
          /\ \/ iic' = dw_iic_enable_device(Fresh)
             \/ Quiet /\ iic' = dw_iic_reset_device(Fresh)
             \/ Quiet /\ iic' = dw_iic_disable_device(Fresh)
Settings == /\ Enabled
            /\ \/ Quiet /\ iic' = dw_iic_set_speedmode(Fresh)
               \/ iic' = dw_iic_flush_tx(Fresh)
               \/ iic.mode = "slave" /\ iic' = dw_iic_get_slv_state(Fresh)
(* What a withdrawn transfer has put into the FIFOs stays there.            *)
Withdrawn(s) == [s EXCEPT !.stale = @ \/ (s.mode = "master" /\ iic.owed # s.owed)]
Abort == Enabled /\ \E d \in {"tx", "rx"} :
                      iic' = Withdrawn(dw_iic_abort(Fresh, d))
TurnOff == Enabled /\ \E d \in {"tx", "rx"} : iic' = Withdrawn(SetInt(Fresh, d, FALSE))
(* A transfer whose abort was missed is withdrawn before the next starts.  *)
Start == Enabled /\ (iic.owed = {} \/ ~ iic.missed) /\
           \E d \in {"tx", "rx"}, n \in Lens : iic' = Arm(Fresh, d, n)
dw_iic_write == /\ Enabled /\ Quiet
                /\ \E n \in Lens : iic' = Begin(Fresh, "write", n)
dw_iic_read == /\ Enabled /\ Quiet
               /\ \E n \in Lens : iic' = Begin(Fresh, "read", n)
(* The thread goes on with its polled call: a turn that finds nothing is   *)
(* the last of its retries, or one more.                                   *)
Poll == /\ iic.at.op # "none" /\ ~ iic.isr
        /\ LET w == iic.at.op = "write"
           IN  IF iic.mode = "master"
               THEN iic' = IF w THEN dw_iic_mst_write_data(Fresh) ELSE dw_iic_mst_read_data(Fresh)
               ELSE iic' = IF w THEN dw_iic_slv_write_data(dw_iic_chkerr(Fresh))
                                ELSE dw_iic_slv_read_data(dw_iic_chkerr(Fresh))

Raised == iic.irq /\ ~ iic.isr /\ IC_INTR_STAT(iic) # {}
IsrEnter == Raised /\ iic' = [Fresh EXCEPT !.isr = TRUE, !.snap = IC_INTR_STAT(iic)]
IsrRun == /\ iic.isr
          /\ \E n \in {0} \cup Lens :
               iic' = [dw_iic_isr(Fresh, n) EXCEPT !.isr = FALSE, !.snap = {}]

(* The bus: a byte moves, or nobody acknowledges it.                       *)
Busy == iic.ssi /\ iic.mode = "master" /\ iic.txf # <<>>
BusCan == Busy /\ (Head(iic.txf).rd => Len(iic.rxf) < Depth)
BusMoves ==
  /\ BusCan
  /\ LET c == Head(iic.txf)
     IN  iic' = [Fresh EXCEPT !.txf = Tail(@), !.line = IF c.last THEN <<>> ELSE <<c.par>>,
                              !.alien = @ \/ iic.line = <<~ c.par>>,
                              !.rxf = IF c.rd THEN Append(@, <<c.par, c.i>>) ELSE @]
BusNoAck == Busy /\ iic' = [Fresh EXCEPT !.txf = <<>>, !.raw = @ \cup {"TX_ABRT"}, !.line = <<>>,
                                         !.dropped = @ \/ Head(iic.txf).par = iic.par]
(* Another master reads from and writes to this slave.                     *)
Addressed == iic.ssi /\ iic.mode = "slave"
OtherWrites == Addressed /\ Len(iic.rxf) < Depth /\ iic' = [Fresh EXCEPT !.rxf = Append(@, <<iic.par, 0>>)]
OtherReads == /\ Addressed /\ ~ iic.wait
              /\ iic' = [Fresh EXCEPT !.wait = TRUE, !.raw = @ \cup (IF iic.txf = <<>> THEN {"RD_REQ"} ELSE {})]
OtherTakes == /\ Addressed /\ iic.wait /\ iic.txf # <<>>
              /\ \E done \in {{}, {"RX_DONE"}} :
                   iic' = [Fresh EXCEPT !.wait = FALSE, !.missed = FALSE, !.txf = Tail(@), !.raw = @ \cup done]
OtherStops == Addressed /\ ~ iic.wait /\ iic' = [Fresh EXCEPT !.raw = @ \cup {"STOP"}]

Next == Open \/ Close \/ SetCbs \/ Device \/ Settings \/ Abort \/ TurnOff \/ Start
        \/ dw_iic_write \/ dw_iic_read \/ Poll \/ IsrEnter \/ IsrRun
        \/ BusMoves \/ BusNoAck \/ OtherWrites \/ OtherReads \/ OtherTakes \/ OtherStops
Spec == Init /\ [][Next]_iic
(* Weak fairness of the interrupt that is let through, of its routine and  *)
(* of the bus; each guard is written out in the place of ENABLED.          *)
Fairness == /\ []<>(~ Raised) \/ []<><<IsrEnter>>_iic
            /\ []<>(~ iic.isr) \/ []<><<IsrRun>>_iic
            /\ []<>(~ BusCan) \/ []<><<BusMoves \/ BusNoAck>>_iic
            /\ []<>(~ (Addressed /\ iic.wait /\ iic.txf # <<>>)) \/ []<><<OtherTakes>>_iic
FairSpec == Spec /\ Fairness

(* ------------------------------ properties ------------------------------ *)

(* Every field has its type and neither FIFO holds more than it can.       *)
TypeOK == /\ iic.ints \subseteq {"gint", "tx", "rx"} /\ iic.cur \in {"free", "tx", "rx"}
          /\ iic.mask \subseteq MasterTx \cup MasterRx \cup SlaveTx \cup SlaveRx
          /\ Len(iic.txf) <= Depth /\ Len(iic.rxf) <= Depth
          /\ iic.calls \subseteq {"tx", "rx", "err", "abort", "lost"}

(* A byte that a polled read or a receive by interrupt stores was asked    *)
(* for by that very call at that place, and a call's bytes share no bus    *)
(* transaction with another call's, unless an earlier call timed out or    *)
(* was withdrawn and the controller was not turned off since, or an abort  *)
(* was missed (dw_iic_mst_read_data, dw_iic_mst_int_read).              *)
OwnBytes == iic.alien => iic.stale \/ iic.missed

(* While a master's receive by interrupt is in progress, what was asked    *)
(* for and not yet stored is in the FIFOs (dw_iic_mst_int_read).           *)
Reads(f) == SelectSeq(f, LAMBDA c : c.rd)
RequestsMatch ==
  /\ iic.mode = "master" /\ iic.owed = {"rx"}
  /\ ~ iic.stale /\ ~ iic.dropped /\ ~ iic.missed
  => iic.rq.ofs = iic.rb.ofs + Len(Reads(iic.txf)) + Len(iic.rxf)

(* A send that lost a byte to an abort is not called back as a success     *)
(* alone, but for the abort that arrives while the routine runs and is     *)
(* cleared at its end; a receive never ends both ways                      *)
(* (dw_iic_mst_int_write, dw_iic_mst_int_read).                            *)
OutcomeTold == /\ "lost" \in iic.calls => "err" \in iic.calls \/ iic.missed
               /\ ~ iic.stale => ~ {"rx", "err"} \subseteq iic.calls

(* Between calls the three gates of the interrupt agree, and whoever waits *)
(* for a master's transfer has it in progress and unmasked.                *)
Gates == Idle => /\ iic.irq <=> iic.ints # {}
                 /\ iic.ints # {} <=> iic.ints \cap {"tx", "rx"} # {}
                 /\ iic.owed = iic.ints \ {"gint"}
                 /\ iic.mode = "master" /\ ~ iic.missed =>
                      \A d \in iic.owed : iic.cur = d /\ "TX_ABRT" \in iic.mask

(* A master's transfer by interrupt that is to end in a callback or be     *)
(* withdrawn: its abort was not missed.                                    *)
Waits == iic.mode = "master" /\ iic.owed # {} /\ iic.calls = {} /\ ~ iic.missed

(* A master that reads from this slave and is to be answered: the slave    *)
(* answers by interrupt, the request was not missed.                       *)
Asked == iic.wait /\ iic.mode = "slave" /\ iic.cbs /\ "tx" \in iic.ints /\ ~ iic.missed
=============================================================================
