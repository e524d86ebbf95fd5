------------------------------- MODULE DwUart -------------------------------
(***************************************************************************)
(* The DesignWare UART driver (src/device/ip/designware/uart/dw_uart.c):   *)
(* one thread calls the API, the interrupt routine preempts it between any *)
(* two of its accesses to shared words, and the line moves bytes on its    *)
(* own.  A call is the sequence of its accesses, kept in todo; a word that *)
(* is modified with |= or &= is loaded and stored in two steps.  Bytes to *)
(* send are numbered in the order in which the client provides them.       *)
(***************************************************************************)
EXTENDS Integers, Sequences

CONSTANTS Lens,        \* lengths of the client's buffers
          Bauds,       \* baud rates asked for
          Freq,        \* dw_apb_bus_freq
          Depth,       \* length of either FIFO
          MaxByte,     \* bound: bytes to send
          MaxOpen,     \* bound: opn_cnt
          Careless     \* the calls made without the discipline of Allowed

ASSUME UartAssumption == /\ Lens \subseteq Nat /\ Bauds \subseteq Nat \ {0}
                         /\ Freq \in Nat /\ Depth \in Nat \ {0}
                         /\ MaxByte \in Nat /\ MaxOpen \in Nat
                         /\ Careless \subseteq STRING

Dir == {"tx", "rx"}
Context == {"thread", "isr"}
Other(d) == IF d = "tx" THEN "rx" ELSE "tx"
NoBuf == [set |-> FALSE, first |-> 0, len |-> 0, ofs |-> 0]    \* memset to 0

VARIABLES opn_cnt, status, baudrate,
          buf,          \* tx_buf and rx_buf
          cbs,          \* the directions whose callback is set
          int_status,   \* subset of {"gint", "tx", "rx"}
          ier,          \* IER: subset of Dir
          dlab, div,    \* LCR.DLAB and the divisor latch
          fifo,         \* the two FIFOs
          irq,          \* the interrupt controller lets intno through
          masked,       \* the client is inside a critical section
          todo, tmp,    \* per context: accesses to come, the value loaded
          next,         \* history: the number of the next byte to send
          wire,         \* history: the last byte sent
          owed          \* history: directions armed and not yet called back

info == <<opn_cnt, status, baudrate, buf, cbs>>
ints == <<int_status, ier, irq>>
line == <<dlab, div, fifo>>
ghost == <<next, wire, owed>>
vars == <<info, ints, line, masked, todo, tmp, ghost>>

Init == /\ opn_cnt = 0 /\ status = {} /\ baudrate = 0
        /\ buf = [d \in Dir |-> NoBuf] /\ cbs = {}
        /\ int_status = {} /\ ier = {} /\ irq = FALSE
        /\ dlab = FALSE /\ div = 0 /\ fifo = [d \in Dir |-> <<>>]
        /\ masked = FALSE
        /\ todo = [x \in Context |-> <<>>] /\ tmp = [x \in Context |-> <<>>]
        /\ next = 1 /\ wire = 0 /\ owed = {}

(* ------------------- calls as sequences of accesses -------------------- *)

Access(name, on, what, n) == [op |-> name, on |-> on, what |-> what, n |-> n]
Op(name, on, what) == Access(name, on, what, 0)
Number(name, n) == Access(name, TRUE, "", n)
Status(on, f) == Op("status", on, f)
IntSt(on, f)  == Op("int_status", on, f)
Ier(on, d)    == Op("ier", on, d)
Irq(on)       == Op("irq", on, "")
Div(v)        == Number("div", v)
Callback(d)   == Op("callback", TRUE, d)
ClearBuf(d)   == Op("clear", TRUE, d)
Unless(c)     == Op("unless", TRUE, c)     \* go on with the call, or skip it

(* DW_UART_BAUD2DIV *)
Baud2Div(baud) == Freq \div (baud * 16)

dw_uart_set_baud(v) == <<Op("dlab", TRUE, ""), Div(v), Op("dlab", FALSE, "")>>

dw_uart_dis_cbr(d) == <<Ier(FALSE, d), IntSt(FALSE, d), Unless("in use"),
                        Irq(FALSE), IntSt(FALSE, "gint")>>
(* Mutant: the interrupt is enabled only when gint is already noted. *)
dw_uart_ena_cbr_NoGate(d) == <<IntSt(TRUE, d), Ier(TRUE, d), Unless("in use"),
                               IntSt(TRUE, "gint"), Irq(TRUE)>>
dw_uart_ena_cbr(d) == <<IntSt(TRUE, d), Ier(TRUE, d), Unless("not needed"),
                        IntSt(TRUE, "gint"), Irq(TRUE)>>
dw_uart_disable_interrupt ==
  dw_uart_dis_cbr("tx") \o dw_uart_dis_cbr("rx")
    \o <<Irq(FALSE), IntSt(FALSE, "gint"), IntSt(FALSE, "tx"), IntSt(FALSE, "rx")>>

Abrt(d) == IF d = "tx" THEN "TX_ABRT" ELSE "RX_ABRT"
(* Mutant: an abort without a transfer. *)
dw_uart_abort_Always(d) ==
  dw_uart_dis_cbr(d) \o <<Status(TRUE, Abrt(d)), Callback(d), Status(FALSE, Abrt(d))>>
dw_uart_abort(d) ==
  <<Unless(d)>> \o dw_uart_dis_cbr(d)
    \o <<Status(TRUE, Abrt(d)), Callback(d), Status(FALSE, Abrt(d))>>

(* The loop over the buffer, then the wait for an empty FIFO. *)
dw_uart_flush_output == <<Op("from", TRUE, ""), Op("rest", TRUE, ""), ClearBuf("tx"),
                          Op("drained", TRUE, "")>>

dw_uart_enable_device  == dw_uart_set_baud(baudrate) \o <<Status(TRUE, "ENABLED")>>
dw_uart_disable_device == dw_uart_set_baud(0) \o <<Status(FALSE, "ENABLED")>>

(* How many accesses the condition of an Unless skips, and when. *)
Skipped(c) == IF c \in Dir THEN 8 ELSE 2
Holds(c) == LET active == int_status \cap Dir # {}
            IN  CASE c = "in use"     -> "gint" \notin int_status \/ active
                  [] c = "not needed" -> "gint" \in int_status \/ ~ active
                  [] OTHER            -> c \notin int_status

(* ------------------------------ accesses ------------------------------- *)

IsrRuns == todo["isr"] # <<>>
(* x is at an access of this kind; the thread waits for the routine.       *)
At(x, kind) == /\ todo[x] # <<>> /\ Head(todo[x]).op = kind
               /\ x = "isr" \/ ~ IsrRuns
Now(x) == Head(todo[x])
Goes(x) == todo' = [todo EXCEPT ![x] = Tail(@)]
Done(x) == Goes(x) /\ UNCHANGED <<masked, tmp>>
Put(f, on, S) == IF on THEN S \cup {f} ELSE S \ {f}

(* int_status and IER: where the thread can be interrupted the word is     *)
(* loaded in a step of its own.  IER is the divisor latch while DLAB is    *)
(* set.                                                                    *)
Preemptible(x) == x = "thread" /\ irq /\ ~ masked
Word(x) == IF Now(x).op = "ier" THEN ier ELSE int_status
Load(x) == /\ At(x, "int_status") \/ At(x, "ier")
           /\ Preemptible(x) /\ tmp[x] = <<>>
           /\ tmp' = [tmp EXCEPT ![x] = <<Word(x)>>]
           /\ UNCHANGED <<info, ints, line, masked, todo, ghost>>
Modified(x) == Put(Now(x).what, Now(x).on, IF tmp[x] = <<>> THEN Word(x) ELSE Head(tmp[x]))
Store(x) == /\ \/ /\ At(x, "ier") /\ ier' = (IF dlab THEN ier ELSE Modified(x))
                  /\ UNCHANGED int_status
               \/ At(x, "int_status") /\ int_status' = Modified(x) /\ UNCHANGED ier
            /\ tmp[x] # <<>> \/ ~ Preemptible(x)
            /\ tmp' = [tmp EXCEPT ![x] = <<>>]
            /\ Goes(x)
            /\ UNCHANGED <<info, irq, line, masked, ghost>>
Test(x) == /\ At(x, "unless")
           /\ LET c == Now(x).what
                  n == IF Holds(c) THEN 1 + Skipped(c) ELSE 1
              IN  todo' = [todo EXCEPT ![x] = SubSeq(@, n + 1, Len(@))]
           /\ UNCHANGED <<info, ints, line, masked, tmp, ghost>>
SetIrq(x) == /\ At(x, "irq") /\ irq' = Now(x).on
             /\ Done(x) /\ UNCHANGED <<info, int_status, ier, line, ghost>>
SetLine(x) == /\ \/ At(x, "dlab") /\ dlab' = Now(x).on /\ UNCHANGED <<div, fifo, ier>>
                 \/ At(x, "div")  /\ div' = Now(x).n /\ UNCHANGED <<dlab, fifo, ier>>
                 \/ /\ At(x, "reset")
                    /\ fifo' = [d \in Dir |-> <<>>] /\ ier' = {}
                    /\ UNCHANGED <<dlab, div>>
              /\ Done(x) /\ UNCHANGED <<info, int_status, irq, ghost>>
SetStatus(x) == /\ At(x, "status") /\ status' = Put(Now(x).what, Now(x).on, status)
                /\ Done(x) /\ UNCHANGED <<opn_cnt, baudrate, buf, cbs, ints, line, ghost>>
SetBaudrate(x) == /\ At(x, "baudrate") /\ baudrate' = Now(x).n
                  /\ Done(x) /\ UNCHANGED <<opn_cnt, status, buf, cbs, ints, line, ghost>>
ClearCbs(x) == /\ At(x, "clear cbs") /\ cbs' = {}
               /\ Done(x) /\ UNCHANGED <<opn_cnt, status, baudrate, buf, ints, line, ghost>>
Clear(x) == /\ At(x, "clear") /\ buf' = [buf EXCEPT ![Now(x).what] = NoBuf]
            /\ owed' = owed \ {Now(x).what}
            /\ Done(x) /\ UNCHANGED <<opn_cnt, status, baudrate, cbs, ints, line, next, wire>>
(* A new buffer; its bytes are the client's next ones. *)
SetBuf(x) ==
  /\ At(x, "buffer")
  /\ LET d == Now(x).what
         n == Now(x).n
     IN  /\ d = "tx" => next + n <= MaxByte + 1
         /\ buf' = [buf EXCEPT ![d] = [set |-> TRUE, len |-> n, ofs |-> 0,
                                        first |-> IF d = "tx" THEN next ELSE 0]]
         /\ next' = IF d = "tx" THEN next + n ELSE next
         /\ owed' = owed \cup {d}
  /\ Done(x) /\ UNCHANGED <<opn_cnt, status, baudrate, cbs, ints, line, wire>>

(* What the client does in a callback: nothing, disable the interrupt it   *)
(* came from, or start a transfer in the other direction; without care,    *)
(* also install the next buffer of the same direction.                     *)
Arm(d, n) == <<Access("buffer", TRUE, d, n)>> \o dw_uart_ena_cbr(d)
MayArm(d, n) == d \notin int_status /\ (d = "tx" => next + n <= MaxByte + 1)
Reactions(d) ==
  {<<>>, dw_uart_dis_cbr(d)}
    \cup UNION {{Arm(e, n) : n \in {m \in Lens : MayArm(e, m)}} :
                 e \in {e \in Dir : "callback" \in Careless \/ (e # d /\ ~ buf[e].set)}}
CallBack(x) ==
  /\ At(x, "callback")
  /\ LET d == Now(x).what
     IN  IF d \in cbs
           THEN /\ \E r \in Reactions(d) : todo' = [todo EXCEPT ![x] = r \o Tail(@)]
                /\ owed' = owed \ {d}
           ELSE Goes(x) /\ UNCHANGED owed
  /\ UNCHANGED <<info, ints, line, masked, tmp, next, wire>>

(* Polled output: dw_uart_psnd_chr waits for room in the FIFO. *)
Send(b) == /\ Len(fifo.tx) < Depth
           /\ fifo' = [fifo EXCEPT !.tx = Append(@, b)]
           /\ UNCHANGED <<info, ints, dlab, div, masked, next, wire, owed>>
(* Mutant: the loop starts at the first byte. *)
From_First(x) == /\ At(x, "from")
                 /\ IF buf.tx.set THEN tmp' = [tmp EXCEPT ![x] = <<0>>] /\ Goes(x)
                    ELSE /\ todo' = [todo EXCEPT ![x] = SubSeq(@, 4, Len(@))]
                         /\ UNCHANGED tmp
                 /\ UNCHANGED <<info, ints, line, masked, ghost>>
From(x) == /\ At(x, "from")
           /\ IF buf.tx.set THEN tmp' = [tmp EXCEPT ![x] = <<buf.tx.ofs>>] /\ Goes(x)
              ELSE /\ todo' = [todo EXCEPT ![x] = SubSeq(@, 4, Len(@))]
                   /\ UNCHANGED tmp
           /\ UNCHANGED <<info, ints, line, masked, ghost>>
FlushRest(x) ==
  /\ At(x, "rest")
  /\ LET i == Head(tmp[x])
     IN  IF i < buf.tx.len
           THEN /\ Send(buf.tx.first + i)
                /\ tmp' = [tmp EXCEPT ![x] = <<i + 1>>]
                /\ UNCHANGED todo
           ELSE /\ tmp' = [tmp EXCEPT ![x] = <<>>]
                /\ Goes(x)
                /\ UNCHANGED <<info, ints, line, masked, ghost>>
Drained(x) == /\ At(x, "drained") /\ fifo.tx = <<>>
              /\ Done(x) /\ UNCHANGED <<info, ints, line, ghost>>
WriteByte(x) == At(x, "write") /\ Send(Now(x).n) /\ Goes(x) /\ UNCHANGED tmp
ReadByte(x) == /\ At(x, "read") /\ fifo.rx # <<>>
               /\ fifo' = [fifo EXCEPT !.rx = Tail(@)]
               /\ Done(x) /\ UNCHANGED <<info, ints, dlab, div, ghost>>

(* --------------------------- interrupt routine ------------------------- *)

(* IIR names the received data first.  The driver never enables the line   *)
(* and modem status interrupts, and the FIFO threshold is one byte, so     *)
(* that the time-out interrupt is not reported either.                     *)
IIR == IF "rx" \in ier /\ fifo.rx # <<>> THEN "rx"
       ELSE IF "tx" \in ier /\ fifo.tx = <<>> THEN "tx" ELSE "none"
dw_uart_isr == /\ irq /\ ~ masked /\ ~ IsrRuns /\ IIR # "none"
               /\ todo' = [todo EXCEPT !["isr"] = <<Op("serve", TRUE, IIR)>>]
               /\ UNCHANGED <<info, ints, line, masked, tmp, ghost>>

(* Mutant: one byte more than the buffer holds. *)
Full_Late(b) == b.ofs > b.len
Full(b) == b.ofs >= b.len
(* As many bytes as the FIFO allows, at least one, until the buffer is full. *)
Filled(b, n) == LET S == {k \in 1 .. n : Full([b EXCEPT !.ofs = @ + k])}
                IN  IF S = {} THEN n ELSE CHOOSE k \in S : \A j \in S : k <= j
Serve(x) ==
  /\ At(x, "serve")
  /\ LET d == Now(x).what
         b == buf[d]
         n == Filled(b, IF d = "tx" THEN Depth - Len(fifo.tx) ELSE Len(fifo.rx))
         moved == [b EXCEPT !.ofs = @ + n]
         first == b.first + b.ofs
         ended == IF Full(moved) THEN dw_uart_dis_cbr(d) \o <<Callback(d), ClearBuf(d)>>
                                 ELSE <<>>
     IN  IF b.set
           THEN /\ buf' = [buf EXCEPT ![d] = moved]
                /\ todo' = [todo EXCEPT ![x] = ended \o Tail(@)]
                /\ fifo' = CASE dlab -> fifo
                             [] d = "tx" /\ ~ dlab ->
                                  [fifo EXCEPT !.tx = @ \o [k \in 1 .. n |-> first + k - 1]]
                             [] d = "rx" /\ ~ dlab ->
                                  [fifo EXCEPT !.rx = SubSeq(@, n + 1, Len(@))]
           ELSE /\ todo' = [todo EXCEPT ![x] = <<Callback(d)>> \o Tail(@)]
                /\ UNCHANGED <<buf, fifo>>
  /\ UNCHANGED <<opn_cnt, status, baudrate, cbs, ints, dlab, div, masked, tmp,
                 next, wire, owed>>

Step(x) == \/ Load(x) \/ Store(x) \/ Test(x) \/ SetIrq(x) \/ SetLine(x) \/ SetStatus(x)
           \/ SetBaudrate(x) \/ ClearCbs(x) \/ Clear(x) \/ SetBuf(x) \/ CallBack(x)
           \/ From(x) \/ FlushRest(x) \/ Drained(x) \/ WriteByte(x) \/ ReadByte(x)
           \/ Serve(x)

(* ------------------------------ the API -------------------------------- *)

Idle == todo["thread"] = <<>> /\ ~ IsrRuns
Call(accesses) == todo' = [todo EXCEPT !["thread"] = accesses]
Calls(accesses) == /\ Idle /\ Call(accesses)
                   /\ UNCHANGED <<info, ints, line, masked, tmp, ghost>>
Available == opn_cnt > 0 /\ "ENABLED" \in status

(* The discipline of a careful client.  While an interrupt is in use it    *)
(* calls the driver inside critical sections only (a client without        *)
(* callbacks may end or abort its only transfer outside of one); it leaves *)
(* a transfer that runs its buffer, does not mix the polled and the        *)
(* interrupt driven use of a direction, gives a new buffer after an abort, *)
(* and disables the device with nothing left to send.                      *)
Quiet(d) == d \notin int_status /\ ~ buf[d].set
Allowed(call, c) == call \in Careless \/ c
Alone == masked \/ int_status = {}
Undisturbed(d) == Alone \/ (cbs = {} /\ int_status \subseteq {"gint", d})

dw_uart_init(v) == <<Op("reset", TRUE, "")>> \o dw_uart_set_baud(v)
ClearAll == <<ClearBuf("tx"), ClearBuf("rx"), Op("clear cbs", TRUE, "")>>
dw_uart_open(baud) ==
  /\ Idle /\ opn_cnt < MaxOpen
  /\ opn_cnt' = opn_cnt + 1
  /\ IF opn_cnt > 0
       THEN UNCHANGED <<baudrate, todo>>      \* E_OK or E_OPNED
       ELSE /\ baudrate' = baud
            /\ Call(dw_uart_init(Baud2Div(baud)) \o <<Status(TRUE, "ENABLED")>>
                      \o dw_uart_disable_interrupt \o ClearAll)
  /\ UNCHANGED <<status, buf, cbs, ints, line, masked, tmp, ghost>>
(* Mutant: a closed device is closed again. *)
MayClose_Always == TRUE
MayClose == opn_cnt > 0
dw_uart_close ==
  /\ Idle /\ MayClose /\ Allowed("close", Alone)
  /\ opn_cnt' = opn_cnt - 1
  /\ IF opn_cnt # 1
       THEN UNCHANGED todo                    \* E_OPNED
       ELSE Call(dw_uart_disable_interrupt \o dw_uart_abort("tx") \o dw_uart_abort("rx")
                   \o dw_uart_flush_output \o ClearAll
                   \o (IF "ENABLED" \in status THEN dw_uart_disable_device ELSE <<>>)
                   \o <<Status(FALSE, "ENABLED")>>)
  /\ UNCHANGED <<status, baudrate, buf, cbs, ints, line, masked, tmp, ghost>>

SET_BAUD(b) == /\ Available /\ b # baudrate /\ Allowed("SET_BAUD", Alone)
               /\ Calls(dw_uart_set_baud(Baud2Div(b)) \o <<Number("baudrate", b)>>)
ENA_DEV == /\ opn_cnt > 0 /\ "ENABLED" \notin status /\ Allowed("ENA_DEV", Alone)
           /\ Calls(dw_uart_enable_device)
DIS_DEV == /\ Available /\ Allowed("DIS_DEV", Alone /\ Quiet("tx") /\ fifo.tx = <<>>)
           /\ Calls(dw_uart_disable_device)
FLUSH_OUTPUT == /\ Available /\ Allowed("FLUSH_OUTPUT", Alone)
                /\ Calls(dw_uart_flush_output)
SET_CB(d) == /\ Idle /\ Available
             /\ \E c \in {cbs \cup {d}, cbs \ {d}} : cbs' = c
             /\ UNCHANGED <<opn_cnt, status, baudrate, buf, ints, line, masked, todo, tmp, ghost>>
ABORT(d) == Available /\ Allowed("ABORT", Undisturbed(d)) /\ Calls(dw_uart_abort(d))
SET_INT(d) == /\ Available
              /\ \/ Allowed("SET_INT", Undisturbed(d)) /\ Calls(dw_uart_dis_cbr(d))
                 \/ /\ Allowed("SET_INT", Alone /\ (d \in owed \/ ~ buf[d].set))
                    /\ Calls(dw_uart_ena_cbr(d))
SET_INT_BUF(d) == /\ Available /\ Allowed("SET_INT_BUF", Alone /\ d \notin int_status)
                  /\ \/ Calls(<<ClearBuf(d)>>)
                     \/ \E n \in Lens : /\ d = "tx" => next + n <= MaxByte + 1
                                        /\ Calls(<<Access("buffer", TRUE, d, n)>>)
dw_uart_write(n) == /\ Available /\ Idle /\ Allowed("write", Alone /\ Quiet("tx"))
                    /\ n > 0 /\ next + n <= MaxByte + 1
                    /\ Call([k \in 1 .. n |-> Number("write", next + k - 1)])
                    /\ next' = next + n
                    /\ UNCHANGED <<info, ints, line, masked, tmp, wire, owed>>
dw_uart_read(n) == /\ Available /\ Allowed("read", Alone /\ Quiet("rx")) /\ n > 0
                   /\ Calls([k \in 1 .. n |-> Op("read", TRUE, "")])

Mask == /\ Idle /\ masked' = ~ masked
        /\ UNCHANGED <<info, ints, line, todo, tmp, ghost>>

Api == \/ \E b \in Bauds : dw_uart_open(b) \/ SET_BAUD(b)
       \/ dw_uart_close \/ ENA_DEV \/ DIS_DEV \/ FLUSH_OUTPUT
       \/ \E d \in Dir : SET_CB(d) \/ ABORT(d) \/ SET_INT(d) \/ SET_INT_BUF(d)
       \/ \E n \in Lens : dw_uart_write(n) \/ dw_uart_read(n)
       \/ Mask

(* ------------------------------- the line ------------------------------ *)

(* The line may move a byte at any time; moves are taken where something   *)
(* can tell, at an access that looks at the FIFOs or the divisor, between  *)
(* calls, and wherever the routine can be entered.                         *)
Watched == {"serve", "rest", "drained", "write", "read", "reset", "div", "dlab"}
Sees(x) == IF todo[x] = <<>> \/ Preemptible(x)
             THEN TRUE ELSE Head(todo[x]).op \in Watched
Clocked == div # 0 /\ ~ dlab /\ Sees(IF IsrRuns THEN "isr" ELSE "thread")
Sent == /\ Clocked /\ fifo.tx # <<>>
        /\ wire' = Head(fifo.tx)
        /\ fifo' = [fifo EXCEPT !.tx = Tail(@)]
        /\ UNCHANGED <<info, ints, dlab, div, masked, todo, tmp, next, owed>>
Received == /\ Clocked /\ Len(fifo.rx) < Depth
            /\ fifo' = [fifo EXCEPT !.rx = Append(@, 1)]
            /\ UNCHANGED <<info, ints, dlab, div, masked, todo, tmp, ghost>>

Next == Api \/ dw_uart_isr \/ (\E x \in Context : Step(x)) \/ Sent \/ Received
Spec == Init /\ [][Next]_vars

(* ------------------------------ properties ----------------------------- *)

(* Every variable keeps its type. *)
TypeOK == /\ opn_cnt \in 0 .. MaxOpen
          /\ status \subseteq {"ENABLED", "TX_ABRT", "RX_ABRT"}
          /\ baudrate \in Bauds \cup {0}
          /\ \A d \in Dir : buf[d] \in [set : BOOLEAN, first : 0 .. MaxByte, len : Nat, ofs : Nat]
          /\ cbs \subseteq Dir /\ ier \subseteq Dir
          /\ int_status \subseteq Dir \cup {"gint"}
          /\ dlab \in BOOLEAN /\ irq \in BOOLEAN /\ masked \in BOOLEAN /\ div \in Nat
          /\ \A d \in Dir : /\ Len(fifo[d]) <= Depth
                            /\ \A i \in DOMAIN fifo[d] : fifo[d][i] \in 1 .. MaxByte
          /\ \A x \in Context : Len(tmp[x]) <= 1
          /\ next \in 1 .. MaxByte + 1
          /\ wire \in 0 .. MaxByte /\ owed \subseteq Dir

(* Between calls int_status tells the truth about the two places it        *)
(* stands for, the controller and IER, whatever the routine did while the  *)
(* thread was in the middle of updating them; with the device closed       *)
(* everything is off.                                                      *)
Bookkeeping == /\ todo["thread"] = <<>> /\ ~ IsrRuns
               => /\ "gint" \in int_status <=> irq
                  /\ int_status \cap Dir = ier
                  /\ irq <=> ier # {}
                  /\ opn_cnt = 0 => ~ irq

(* The interrupt routine never moves a byte beyond the client's buffer.    *)
InBuffer == \A d \in Dir : buf[d].ofs <= buf[d].len

(* Every byte leaves at most once and in the order of the client's calls,  *)
(* though the routine, the flush and dw_uart_write all feed the FIFO.      *)
NoByteTwice == [][Sent => wire' > wire]_vars

(* A transfer is called back at most once, by the routine or by an abort,  *)
(* and by the routine only when all its bytes were moved.                  *)
CalledBackOnce ==
  [][\A x \in Context, d \in Dir :
       CallBack(x) /\ Now(x).what = d /\ d \in cbs /\ buf[d].set
         => d \in owed /\ (x = "isr" => buf[d].ofs >= buf[d].len)]_vars

(* A byte leaves once and a transfer ends once, whoever moves its last     *)
(* byte or ends it: the routine, the flush, dw_uart_write or an abort.     *)
EachOnce == NoByteTwice /\ CalledBackOnce
=============================================================================
