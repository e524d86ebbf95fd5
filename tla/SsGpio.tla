-------------------------------- MODULE SsGpio -------------------------------
(***************************************************************************)
(* The subsystem GPIO driver (device/ip/subsystem/gpio: gpio.c, the port,  *)
(* and ss_gpio.c, its wrapper).  Unlike the DesignWare driver it keeps the *)
(* enabled bits and their types in memory, and builds what it writes to the*)
(* outputs from the levels of the pins.  Words are sets of bits.           *)
(***************************************************************************)
EXTENDS Integers

CONSTANTS Bits,        \* the bits of the port (ctx->width of them)
          MaxOpen,     \* users of the device
          Clients      \* sets of the kinds of calls a client makes

VARIABLE gpio

Kinds == {"out", "dir", "cfg", "isr", "int", "share"}
SsGpioConstants == Bits \subseteq 0 .. 31 /\ MaxOpen \in Nat \ {0} /\ Clients \subseteq SUBSET Kinds

(* pin: the levels EXT_PORTA shows, for outputs with a delay; direction,   *)
(* method, types: info->direction, info->method and ctx->int_bit_type;     *)
(* inten, level: INTEN and INTTYPE_LEVEL.                                  *)
(* want, wanten, wantlevel: what DR, INTEN and the types should be after   *)
(* the calls made.  blurred: bits of DR an earlier write to others changed;*)
(* raced: a handler changed the method between the thread's read and its   *)
(* write; vague: bits whose type is not the one configured, because open   *)
(* does not write it or a call for other bits named them; lost: bits whose *)
(* event may be cleared unseen.  INTTYPE_LEVEL is what an earlier session  *)
(* left in it.                                                             *)
Lowest(bits) == CHOOSE b \in bits : \A c \in bits : b <= c
Init == \E client \in Clients, left \in {{}, {Lowest(Bits)}} :
        LET handlers == IF "isr" \in client THEN {} ELSE Bits IN
        gpio = [client |-> client, opn |-> 0, opened |-> FALSE, direction |-> {}, pin |-> {}, dr |-> {},
                method |-> {}, inten |-> {}, types |-> {}, level |-> left, line |-> FALSE, raw |-> {}, req |-> {},
                handlers |-> handlers, at |-> "idle", new |-> {}, mask |-> {}, set |-> {}, on |-> FALSE, status |-> {},
                todo |-> {}, want |-> {}, wanten |-> {}, wantlevel |-> {}, blurred |-> {}, raced |-> FALSE,
                vague |-> {}, lost |-> {}]

(* ----------------------------- the registers ---------------------------- *)

(* Mutant: the masked bits are only set. *)
Merged_Or(reg, mask, val) == reg \cup (val \cap mask)
Merged(reg, mask, val) == (reg \ mask) \cup (val \cap mask)
Differ(v, w) == (v \ w) \cup (w \ v)
(* INTSTATUS: the latched edges and the asserted levels of enabled bits.   *)
Status(u) == ((u.raw \ u.level) \cup (u.req \cap u.level)) \cap u.inten
(* The bits whose pins do not show what they should be are copied wrong.   *)
PinsRead(u, mask) == [u EXCEPT !.blurred = @ \cup (Differ(u.pin, u.want) \ mask)]
Written(u, mask, val, dr) ==
  LET blurred == u.blurred \ mask
  IN  [u EXCEPT !.dr = dr, !.blurred = blurred, !.want = Merged(u.want, mask, val) \ blurred]
ss_gpio_write(u, mask, val) == Written(PinsRead(u, mask), mask, val, Merged(u.pin, mask, val))
(* Mutant: the method is not copied to INTEN. *)
SetMethod_Memory(u, method) == [u EXCEPT !.method = method, !.line = method # {}, !.wanten = method,
                                         !.raced = @ \/ u.at \in {"method", "inten", "line"}]
(* info->method is changed and copied to INTEN, the interrupt follows.     *)
SetMethod(u, method) ==
  [u EXCEPT !.method = method, !.inten = method, !.line = method # {}, !.wanten = method,
            !.raced = @ \/ u.at \in {"method", "inten", "line"}]

(* ----------------------------- open and close --------------------------- *)

(* The port opens once; open resets the words in memory and the registers, *)
(* the types in INTTYPE_LEVEL excepted, and enables the interrupt.         *)
io_gpio_open(u, dir) ==
  [u EXCEPT !.opened = TRUE, !.direction = dir, !.method = {}, !.inten = {}, !.types = {}, !.line = TRUE,
            !.wanten = {}, !.wantlevel = {}, !.vague = u.level, !.raced = FALSE, !.req = {}, !.raw = {}, !.lost = {}]
ss_gpio_open(u, dir) ==
  LET t == [u EXCEPT !.opn = @ + 1] IN IF t.opn > 1 \/ u.opened THEN t ELSE io_gpio_open(t, dir)
(* io_gpio_close, then the interrupt is disabled.                          *)
(* Mutant: the interrupts stay enabled in the port. *)
CloseStep_On(u) == IF u.at = "close" THEN [u EXCEPT !.opened = FALSE, !.wanten = {}, !.at = "closeline"]
                   ELSE [u EXCEPT !.line = FALSE, !.at = "idle"]
CloseStep(u) == IF u.at = "close" THEN [u EXCEPT !.inten = {}, !.wanten = {}, !.opened = FALSE, !.at = "closeline"]
                ELSE [u EXCEPT !.line = FALSE, !.at = "idle"]

(* ----------------------------- configuration ---------------------------- *)

(* Mutant: the types are only added. *)
SetBitIntCfg_Add(u, mask, type) ==
  LET types == u.types \cup type IN
  [u EXCEPT !.types = types, !.level = types, !.wantlevel = Merged(@, mask, type),
            !.vague = Differ(types, Merged(u.wantlevel, mask, type)) \ mask, !.lost = @ \cup u.req]
(* The debounce word is masked, the types and polarities are not.          *)
SetBitIntCfg(u, mask, type) ==
  LET types == (u.types \ mask) \cup type IN
  [u EXCEPT !.types = types, !.level = types, !.wantlevel = Merged(@, mask, type),
            !.vague = Differ(types, Merged(u.wantlevel, mask, type)) \ mask, !.lost = @ \cup u.req]

(* ----------------------------- the routine ------------------------------ *)

(* A client that writes has handlers that write, another's switch bits.    *)
Reactions(u) == {"none"} \cup (IF "out" \in u.client THEN {"write"} ELSE {"dis", "ena"})
React(u, b, r) ==
  IF r = "none" THEN u
  ELSE IF r = "write" THEN
    LET t == ss_gpio_write(u, {b}, {b}) IN IF u.at = "dr" THEN [t EXCEPT !.blurred = @ \cup {b}] ELSE t
  ELSE IF r = "dis" THEN SetMethod(u, u.method \ {b})
  ELSE SetMethod(u, u.method \cup Bits)
(* The handlers of all bits of the status run, then the status is cleared. *)
Enter(u) == [u EXCEPT !.on = TRUE, !.status = Status(u), !.todo = Status(u)]
ss_gpio_int_cb(u, r) ==
  LET b == Lowest(u.todo)
      t == [u EXCEPT !.todo = @ \ {b}]
  IN  IF b \in u.handlers THEN React([t EXCEPT !.req = @ \ {b}], b, r) ELSE [t EXCEPT !.lost = @ \cup {b}]
(* Mutant: every edge is cleared. *)
Eoi_All(u) == [u EXCEPT !.raw = {}, !.status = {}, !.on = FALSE]
Eoi(u) == [u EXCEPT !.raw = @ \ u.status, !.status = {}, !.on = FALSE]

(* ----------------------------- behaviour -------------------------------- *)

Set(u) == gpio' = u
Pending == gpio.line /\ Status(gpio) # {} /\ ~ gpio.on
Runs == ~ gpio.on /\ ~ Pending
Idle == Runs /\ gpio.at = "idle"
Asks(kind) == Idle /\ gpio.opn > 0 /\ kind \in gpio.client

Open == /\ Idle /\ gpio.opn < IF "share" \in gpio.client THEN MaxOpen ELSE 1
        /\ \E dir \in SUBSET Bits : ("dir" \in gpio.client \/ dir = Bits) /\ Set(ss_gpio_open(gpio, dir))
(* A close too many is counted: here only clients that know they are open. *)
Close == Idle /\ gpio.opn > 0 /\ Set([gpio EXCEPT !.opn = @ - 1, !.at = IF gpio.opn = 1 THEN "close" ELSE "idle"])
Closing == Runs /\ gpio.at \in {"close", "closeline"} /\ Set(CloseStep(gpio))

(* The pins are read, the new value of DR is computed.                     *)
Write == Asks("out") /\ \E b \in Bits : \E v \in SUBSET {b} : LET m == {b} IN
           Set([PinsRead(gpio, m) EXCEPT !.at = "dr", !.new = Merged(gpio.pin, m, v), !.mask = m, !.set = v])
StoreDr == /\ Runs /\ gpio.at = "dr"
           /\ Set([Written(gpio, gpio.mask, gpio.set, gpio.new) EXCEPT !.at = "idle", !.new = {}, !.mask = {}, !.set = {}])
SetDir == Asks("dir") /\ \E m \in SUBSET Bits, out \in BOOLEAN :
            Set([gpio EXCEPT !.direction = IF out THEN @ \cup m ELSE @ \ m])
SetIntCfg == Asks("cfg") /\ \E b \in Bits, type \in SUBSET Bits : Set(SetBitIntCfg(gpio, {b}, type))
SetBitIsr == Asks("isr") /\ \E b \in Bits, on \in BOOLEAN :
               Set([gpio EXCEPT !.handlers = IF on THEN @ \cup {b} ELSE @ \ {b}])
(* A client that writes outputs uses one bit's interrupt.                  *)
Sources == IF "out" \in gpio.client THEN {CHOOSE b \in Bits : \A c \in Bits : c <= b} ELSE Bits
(* ENA_BIT_INT and DIS_BIT_INT: info->method is read, ...                  *)
BitInt == Asks("int") /\ \E b \in Sources, on \in BOOLEAN :
            LET new == IF on THEN gpio.method \cup {b} ELSE gpio.method \ {b} IN
            Set([gpio EXCEPT !.at = "method", !.new = new, !.mask = {b}, !.set = new \cap {b}])
(* ... written, read for the port, ...                                     *)
StoreMethod == /\ Runs /\ gpio.at = "method"
               /\ Set([gpio EXCEPT !.method = gpio.new, !.wanten = Merged(@, gpio.mask, gpio.set), !.at = "inten",
                                   !.mask = {}, !.set = {}])
(* ... written to INTEN, and the interrupt is switched by it.              *)
StoreInten == Runs /\ gpio.at = "inten" /\ Set([gpio EXCEPT !.inten = gpio.new, !.at = "line", !.new = gpio.method])
Line == Runs /\ gpio.at = "line" /\ Set([gpio EXCEPT !.line = gpio.new # {}, !.new = {}, !.at = "idle"])

Isr == \/ Pending /\ Set(Enter(gpio))
       \/ gpio.on /\ gpio.todo # {} /\ \E r \in Reactions(gpio) : Set(ss_gpio_int_cb(gpio, r))
       \/ gpio.on /\ gpio.todo = {} /\ Set(Eoi(gpio))
(* A source of an enabled bit makes its edge, or asserts its level, also   *)
(* while the device is being closed, until INTEN is written.               *)
Event == \E b \in gpio.inten \ gpio.req :
           Set([gpio EXCEPT !.req = @ \cup {b}, !.raw = @ \cup {b},
                            !.lost = IF b \in gpio.level THEN @ ELSE @ \cup ((gpio.status \ gpio.todo) \cap {b})])
(* The levels of outputs reach EXT_PORTA; inputs change.                   *)
Settle == /\ "out" \in gpio.client /\ Differ(gpio.pin, gpio.dr) \cap gpio.direction # {}
          /\ Set([gpio EXCEPT !.pin = Merged(@, gpio.direction, gpio.dr)])
Input == "out" \in gpio.client /\ \E b \in Bits \ gpio.direction : Set([gpio EXCEPT !.pin = Differ(@, {b})])

Next == Open \/ Close \/ Closing \/ Write \/ StoreDr \/ SetDir \/ SetIntCfg \/ SetBitIsr \/ BitInt \/ StoreMethod
        \/ StoreInten \/ Line \/ Isr \/ Event \/ Settle \/ Input
Spec == Init /\ [][Next]_gpio
(* The routine runs, the thread finishes a call it has begun.              *)
InCall == Runs /\ gpio.at # "idle"
Fairness == /\ ([]<>(~ (Pending \/ gpio.on)) \/ []<><<Isr>>_gpio)
            /\ ([]<>(~ InCall) \/ []<><<Closing \/ StoreDr \/ StoreMethod \/ StoreInten \/ Line>>_gpio)
FairSpec == Spec /\ Fairness

(* ----------------------------- properties ------------------------------- *)

(* The registers and the driver's words have their types.                  *)
TypeOK == /\ gpio.client \in Clients /\ gpio.opn \in 0 .. MaxOpen /\ gpio.opened \in BOOLEAN
          /\ gpio.line \in BOOLEAN /\ gpio.on \in BOOLEAN /\ gpio.raced \in BOOLEAN
          /\ \A w \in {gpio.direction, gpio.pin, gpio.dr, gpio.method, gpio.inten, gpio.types, gpio.level, gpio.raw,
                       gpio.req, gpio.handlers, gpio.new, gpio.mask, gpio.set, gpio.status, gpio.todo, gpio.lost,
                       gpio.vague, gpio.blurred} : w \subseteq Bits
          /\ gpio.at \in {"idle", "close", "closeline", "dr", "method", "inten", "line"}
AtRest == gpio.at = "idle" /\ ~ gpio.on
(* A bit of DR is what the last write to it made it, unless a write to     *)
(* other bits copied a pin that showed something else, or raced a handler. *)
OutputsAsWritten == AtRest => Differ(gpio.dr, gpio.want) \subseteq gpio.blurred
(* An open device interrupts for the bits asked for and a closed one for   *)
(* none, unless a handler changed the method during the thread's call.     *)
EnablesAsAsked == AtRest => gpio.raced \/ (gpio.inten = gpio.wanten /\ (gpio.inten = {} \/ gpio.line))
(* A closed device has its interrupt off, whatever handlers ran meanwhile; *)
(* the port is open as long as the device has a user.                      *)
ClosedIsQuiet == AtRest => gpio.opened = (gpio.opn > 0) /\ (gpio.opn = 0 => gpio.inten = {} /\ ~ gpio.line)
(* The types in the port are those configured, except of the bits that open*)
(* left as they were or a call for other bits named.                       *)
TypesAsConfigured == gpio.opn > 0 => Differ(gpio.level, gpio.wantlevel) \subseteq gpio.vague
(* An event on an enabled bit with a handler, to be handled: not one of    *)
(* those the routine clears unseen, nor has a raced method left it off.    *)
Unhandled(b) == /\ b \in gpio.req \cap gpio.inten \cap gpio.handlers
                /\ b \notin gpio.lost /\ ~ (gpio.raced)
=============================================================================
