-------------------------------- MODULE SsI2s --------------------------------
(***************************************************************************)
(* The subsystem's I2S masters: the device layer (subsystem/i2s/           *)
(* ss_i2s_master.c) over the transmitter's driver (i2s_tx_master.c) or the *)
(* receiver's (i2s_rx_master.c), without DMA.  A behaviour is one of either*)
(* direction.  A sample of the call in progress is its number; 0 is any    *)
(* other one.                                                              *)
(***************************************************************************)
EXTENDS Integers, Sequences

CONSTANTS Lens,        \* lengths of the calls, in samples
          Depth,       \* fifo_size
          Thresholds   \* FIFO thresholds a client may set

VARIABLE i2s

SsI2sConstants == /\ Lens \subseteq Nat /\ Depth \in Nat \ {0}
                  /\ 0 \in Thresholds /\ Thresholds \subseteq 0 .. Depth - 1

(* What is known of the samples of a call: the last one that passed, the   *)
(* last one on the line, and whether one came out of turn.                 *)
NoHist == [next |-> 0, line |-> 0, bad |-> FALSE]
(* sticky: an overrun stays pending when the unit is switched off, the     *)
(* overrun register being read nowhere; the sources do not say.            *)
Init == \E d \in {"tx", "rx"}, k \in BOOLEAN :
  i2s = [dev |-> d, sticky |-> k, opn |-> 0, imr |-> {}, en |-> FALSE, clk |-> FALSE,
         blk |-> FALSE, thr |-> 0, over |-> FALSE, fifo |-> <<>>, started |-> FALSE,
         queued |-> FALSE, size |-> 0, len |-> 0, cb |-> "none", flags |-> {},
         at |-> "idle", cause |-> {}, h |-> NoHist, returned |-> FALSE]

(* ---------- i2s_tx_master.c and i2s_rx_master.c: the two drivers -------- *)

(* Switching the unit off empties its FIFO. *)
Off(s) == [s EXCEPT !.en = FALSE, !.fifo = <<>>, !.over = @ /\ s.sticky]
io_i2s_tx_master_open(s) ==
  [s EXCEPT !.started = FALSE, !.len = 0, !.queued = FALSE, !.en = TRUE, !.h = NoHist,
            !.cause = IF s.over THEN {"errored"} ELSE {}]
io_i2s_rx_master_open(s) == io_i2s_tx_master_open(s)
io_i2s_tx_master_close(s) ==
  [Off(s) EXCEPT !.imr = {}, !.clk = FALSE, !.blk = FALSE, !.thr = 0, !.cb = "none", !.started = FALSE]
io_i2s_rx_master_close(s) == io_i2s_tx_master_close(s)

(* Mutant: the first buffer does not start the clock. *)
io_i2s_tx_master_write_Stopped(s, n) ==
  IF s.queued \/ n = 0 THEN s
  ELSE [s EXCEPT !.queued = TRUE, !.size = n, !.started = TRUE,
                 !.fifo = IF s.started THEN @ ELSE <<>>,
                 !.blk = TRUE, !.imr = IF s.started THEN @ ELSE {"data", "over"}]
(* The buffer is queued (both places are free: an earlier call has waited  *)
(* for its buffer's end); only the first one since the device was opened   *)
(* starts the line and unmasks the interrupts.                             *)
io_i2s_tx_master_write(s, n) ==
  IF n = 0 THEN s
  ELSE LET t == [s EXCEPT !.queued = TRUE, !.size = n]
       IN  IF s.started THEN t
           ELSE [t EXCEPT !.started = TRUE, !.fifo = <<>>, !.clk = TRUE, !.blk = TRUE,
                          !.imr = {"data", "over"}]
io_i2s_rx_master_read(s, n) == io_i2s_tx_master_write(s, n)
(* The thresholds are to be set before the first call.                     *)
io_i2s_tx_master_ioctl(s, v) == [s EXCEPT !.thr = v]

(* ---------------- ss_i2s_master.c: the driver's callback ---------------- *)

(* ss_i2s_mst_int_tx_cb, ss_i2s_mst_int_rx_cb.  The callbacks of           *)
(* DEV_I2S_INFO, which nobody sets, are not called.                        *)
ss_i2s_mst_int_tx_cb(s) == [s EXCEPT !.flags = {}]
Callback(s) == IF s.cb = "driver" THEN ss_i2s_mst_int_tx_cb(s) ELSE s

(* ---------------------- the interrupt routines -------------------------- *)

(* n samples move between buffer and FIFO.                                 *)
Least(a, b) == IF a < b THEN a ELSE b
(* Mutant: every batch is taken from the start of the buffer. *)
i2s_tx_master_write_samples_Start(s, count) ==
  LET n == Least(count, s.size - s.len)
      t == [s EXCEPT !.fifo = @ \o [i \in 1 .. n |-> i], !.len = @ + n]
  IN  IF ~ s.queued THEN s
      ELSE IF t.len = t.size THEN Callback([t EXCEPT !.queued = FALSE, !.len = 0]) ELSE t
i2s_tx_master_write_samples(s, count) ==
  LET n == Least(count, s.size - s.len)
      t == [s EXCEPT !.fifo = @ \o [i \in 1 .. n |-> s.len + i], !.len = @ + n]
  IN  IF ~ s.queued THEN s
      ELSE IF t.len = t.size THEN Callback([t EXCEPT !.queued = FALSE, !.len = 0]) ELSE t
(* Mutant: the callback comes with a sample to go. *)
i2s_rx_master_read_samples_Early(s, count) ==
  LET n == Least(count, s.size - s.len)
      t == [s EXCEPT !.fifo = SubSeq(@, n + 1, Len(@)), !.len = @ + n, !.h.next = s.len + n,
                     !.h.bad = @ \/ \E i \in 1 .. n : s.fifo[i] # s.len + i]
  IN  IF ~ s.queued THEN s
      ELSE IF t.len + 1 >= t.size THEN Callback([t EXCEPT !.queued = FALSE, !.len = 0]) ELSE t
i2s_rx_master_read_samples(s, count) ==
  LET n == Least(count, s.size - s.len)
      t == [s EXCEPT !.fifo = SubSeq(@, n + 1, Len(@)), !.len = @ + n, !.h.next = s.len + n,
                     !.h.bad = @ \/ \E i \in 1 .. n : s.fifo[i] # s.len + i]
  IN  IF ~ s.queued THEN s
      ELSE IF t.len = t.size THEN Callback([t EXCEPT !.queued = FALSE, !.len = 0]) ELSE t

(* The loop over the batch ends early when no buffer is left for it: the   *)
(* data interrupt is then masked, and stays so.  (A callback cannot queue  *)
(* another one: ss_i2s_mst_write refuses to run in a routine.)             *)
(* The interrupts are masked until the first buffer: xfr_started is set.   *)
Starved(s) == [s EXCEPT !.imr = {"over"}, !.cause = @ \cup {"starved"}]
Short(s, count) == ~ s.queued \/ s.size - s.len < count
(* Mutant: the level of the FIFO is not looked at. *)
i2s_tx_master_tx_ISR_proc_Full(s) ==
  LET t == i2s_tx_master_write_samples(s, Depth)
  IN  IF Short(s, Depth) THEN Starved(t) ELSE t
i2s_tx_master_tx_ISR_proc(s) ==
  LET count == Depth - s.thr
      t == i2s_tx_master_write_samples(s, count)
  IN  IF Short(s, count) THEN Starved(t) ELSE t
i2s_rx_master_rx_ISR_proc(s) ==
  LET count == s.thr + 1
      t == i2s_rx_master_read_samples(s, count)
  IN  IF Short(s, count) THEN Starved(t) ELSE t
(* The unit is stopped.  ss_i2s_mst_int_err_cb looks for an error flag that *)
(* nobody sets: it neither ends the call nor tells the client.             *)
i2s_rx_master_err_ISR_proc(s) ==
  [Off(s) EXCEPT !.imr = {}, !.clk = FALSE, !.cause = @ \cup {"errored"}]

Error(s) == "over" \in s.imr /\ s.over
Data(s) == "data" \in s.imr /\ s.en /\ IF s.dev = "tx" THEN Len(s.fifo) <= s.thr ELSE Len(s.fifo) > s.thr
Pending(s) == s.opn > 0 /\ (Error(s) \/ Data(s))
(* The data interrupt has the lower number.                                *)
Routine(s) == IF ~ Data(s) THEN i2s_rx_master_err_ISR_proc(s)
              ELSE IF s.dev = "tx" THEN i2s_tx_master_tx_ISR_proc(s) ELSE i2s_rx_master_rx_ISR_proc(s)

(* ------------------ ss_i2s_master.c: the device layer ------------------- *)

(* The receiver's error callback goes to the transmitter of the same       *)
(* number, or through its null pointer.                                    *)
ss_i2s_mst_open(s) ==
  IF s.opn > 0 THEN [s EXCEPT !.opn = @ + 1]
  ELSE [(IF s.dev = "tx" THEN io_i2s_tx_master_open(s) ELSE io_i2s_rx_master_open(s))
          EXCEPT !.opn = 1, !.cb = "driver"]
ss_i2s_mst_close(s) ==
  LET t == [s EXCEPT !.opn = @ - 1]
  IN  IF t.opn > 0 THEN t
      ELSE [(IF s.dev = "tx" THEN io_i2s_tx_master_close(t) ELSE io_i2s_rx_master_close(t)) EXCEPT !.flags = {}]
(* What the FIFO holds when a call begins: a receiver's comes first.       *)
Begin(s, n) ==
  LET Number(i) == IF s.dev = "rx" /\ i <= n THEN i ELSE 0
      f == [i \in 1 .. Len(s.fifo) |-> Number(i)]
  IN  [s EXCEPT !.size = n, !.fifo = f, !.at = "call",
                !.h = [NoHist EXCEPT !.line = IF s.dev = "rx" /\ s.started THEN Least(Len(f), n) ELSE 0]]
ss_i2s_mst_write(s, n) == io_i2s_tx_master_write([Begin(s, n) EXCEPT !.flags = {"TX"}], n)
ss_i2s_mst_read(s, n) == io_i2s_rx_master_read([Begin(s, n) EXCEPT !.flags = {"RX"}], n)
(* The commands that do something: the client's callback replaces the      *)
(* driver's, which ends the calls; and the thresholds, of both directions, *)
(* which are passed on before the command is refused.                      *)
ss_i2s_mst_control(s, cmd) ==
  CASE cmd = "SET_CB"  -> [s EXCEPT !.cb = "client"]
    [] cmd = "ENA_DEV" -> [s EXCEPT !.en = TRUE]
    [] cmd = "DIS_DEV" -> Off(s)

(* ------------------------------- behaviour ------------------------------ *)

Now == [i2s EXCEPT !.returned = FALSE]
Set(s) == i2s' = s
Idle == i2s.at = "idle" /\ ~ Pending(i2s)
MaxOpen == 2
Open == Idle /\ i2s.opn < MaxOpen /\ Set(ss_i2s_mst_open(Now))
Close == Idle /\ i2s.opn > 0 /\ Set(ss_i2s_mst_close(Now))
Control == Idle /\ i2s.opn > 0 /\ \E c \in {"SET_CB", "ENA_DEV", "DIS_DEV"} : Set(ss_i2s_mst_control(Now, c))
SetThreshold == /\ Idle /\ i2s.opn > 0 /\ ~ i2s.started
                /\ \E v \in Thresholds : Set(io_i2s_tx_master_ioctl(Now, v))
Call == /\ Idle /\ i2s.opn > 0 /\ i2s.flags = {}
        /\ \E n \in Lens : Set(IF i2s.dev = "tx" THEN ss_i2s_mst_write(Now, n) ELSE ss_i2s_mst_read(Now, n))
CanReturn == i2s.at = "call" /\ i2s.flags = {} /\ ~ Pending(i2s)
Return == CanReturn /\ Set([Now EXCEPT !.at = "idle", !.returned = TRUE])
Isr == Pending(i2s) /\ Set(Routine(Now))

(* The number of the sample on a receiver's line.                          *)
Arriving == IF i2s.at = "call" /\ i2s.h.line < i2s.size THEN i2s.h.line + 1 ELSE 0
(* The line: a sample leaves, or arrives whether or not there is room.     *)
Running(s) == s.en /\ s.clk /\ s.blk
CanShift == i2s.dev = "tx" /\ Running(i2s) /\ i2s.fifo # <<>>
Shift == /\ CanShift
         /\ LET k == Head(i2s.fifo)
            IN  Set([Now EXCEPT !.fifo = Tail(@), !.h.next = IF k = 0 THEN @ ELSE k,
                                !.h.bad = @ \/ (k # 0 /\ k # i2s.h.next + 1)])
CanArrive == i2s.dev = "rx" /\ Running(i2s)
Arrive == /\ CanArrive
          /\ IF Len(i2s.fifo) = Depth 
             THEN Set([Now EXCEPT !.over = TRUE, !.h.line = IF Arriving = 0 THEN @ ELSE Arriving])
             ELSE Set([Now EXCEPT !.fifo = Append(@, Arriving), !.h.line = IF Arriving = 0 THEN @ ELSE Arriving])

Next == Open \/ Close \/ Control \/ SetThreshold \/ Call \/ Return \/ Isr \/ Shift \/ Arrive
Spec == Init /\ [][Next]_i2s
(* Weak fairness of the line, the routine, and the thread when a routine   *)
(* lets it run, each guard written in place of ENABLED.                    *)
Fairness ==
  /\ []<>(~ CanShift) \/ []<><<Shift>>_i2s
  /\ []<>(~ CanArrive) \/ []<><<Arrive>>_i2s
  /\ []<>(~ Pending(i2s)) \/ []<><<Isr>>_i2s
  /\ []<>(~ CanReturn) \/ []<><<Return>>_i2s
FairSpec == Spec /\ Fairness

(* ------------------------------ properties ------------------------------ *)

(* Every field has its type, and the count of samples stays in the buffer. *)
TypeOK == /\ i2s.dev \in {"tx", "rx"} /\ i2s.opn \in 0 .. MaxOpen /\ i2s.imr \subseteq {"data", "over"}
          /\ i2s.thr \in Thresholds /\ i2s.cb \in {"none", "driver", "client"}
          /\ i2s.flags \subseteq {"TX", "RX"} /\ i2s.at \in {"idle", "call"}
          /\ i2s.len <= i2s.size /\ i2s.cause \subseteq {"starved", "errored"}

(* The samples of a call leave, or are stored, once each and in order,     *)
(* unless the receiver overran (xfr_len against the batches of the two     *)
(* routines), and what the routine writes fits into the transmitter's FIFO *)
(* (sample_cnt in i2s_tx_master_tx_ISR_proc): it is never overrun.         *)
InOrder == i2s.h.bad => i2s.over \/ "errored" \in i2s.cause
NoOverflow == Len(i2s.fifo) <= Depth

(* A call returns when its last sample is stored, or is out or in the FIFO:*)
(* it is the driver's callback that clears the flag it waits for.          *)
ReturnMeansDone ==
  i2s.returned =>
    i2s.h.next + (IF i2s.dev = "tx" THEN Len(SelectSeq(i2s.fifo, LAMBDA k : k # 0)) ELSE 0) = i2s.size

(* A call ends, unless an earlier one left the data interrupt masked       *)
(* (nothing but the first one since the device was opened unmasks it), the *)
(* receiver overran, then or before, the device is disabled, the client    *)
(* replaced the callback, or the length is 0.                              *)
InCall == i2s.at = "call" /\ i2s.cause = {} /\ i2s.en /\ i2s.cb = "driver" /\ i2s.size > 0
CallsEnd == InCall ~> ~ InCall
=============================================================================
