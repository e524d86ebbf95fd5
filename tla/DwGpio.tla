-------------------------------- MODULE DwGpio -------------------------------
(***************************************************************************)
(* The DesignWare GPIO driver (device/ip/designware/gpio/dw_gpio.c) on port*)
(* A, the one with interrupts.  A thread and the handlers of the bits use  *)
(* the same registers; the thread's read-modify-writes are two steps.      *)
(* Words are sets of bits.                                                 *)
(***************************************************************************)
EXTENDS Integers

CONSTANTS Bits,        \* the bits of the port
          MaxOpen,     \* users of the device
          Clients      \* sets of the kinds of calls a client makes

VARIABLE gpio

Kinds == {"out", "dir", "cfg", "isr", "int", "share"}
DwGpioConstants == Bits \subseteq 0 .. 31 /\ MaxOpen \in Nat \ {0} /\ Clients \subseteq SUBSET Kinds

(* req: bits whose source wants to be handled; raw: the edges latched.     *)
(* want, wanten: what DR and INTEN should be after the calls made; raced:  *)
(* the registers a handler wrote between a read and a write of the thread. *)
(* lost: bits whose event may be cleared unseen: an edge between the       *)
(* handler and the end of interrupt, a bit without a handler, a bit pending*)
(* when the types were changed.                                            *)
Init == \E client \in Clients : LET isrs == IF "isr" \in client THEN {} ELSE Bits IN
        gpio = [client |-> client, opn |-> 0, ddr |-> {}, direction |-> {}, dr |-> {}, inten |-> {}, line |-> FALSE,
                level |-> {}, raw |-> {}, req |-> {}, isrs |-> isrs, at |-> "idle", new |-> {},
                mask |-> {}, set |-> {}, on |-> FALSE, status |-> {}, served |-> {},
                want |-> {}, wanten |-> {}, lost |-> {}, raced |-> {}]

(* ----------------------------- the registers ---------------------------- *)

Merged(reg, mask, val) == (reg \ mask) \cup (val \cap mask)
Toggled(reg, mask) == (reg \ mask) \cup (mask \ reg)
dw_gpio_int_read_status(u) == ((u.raw \ u.level) \cup (u.req \cap u.level)) \cap u.inten
(* The end of interrupt clears a latched edge; a level needs its source to.*)
dw_gpio_int_clear(u, bits) == [u EXCEPT !.raw = @ \ bits]

(* A whole write by a handler, which the thread does not interrupt.        *)
(* Mutant: the other bits of the register are not kept. *)
dw_gpio_write_dr_All(u, mask, val) ==
  [u EXCEPT !.dr = val \cap mask, !.want = Merged(@, mask, val)]
dw_gpio_write_dr(u, mask, val) ==
  [u EXCEPT !.dr = Merged(@, mask, val), !.want = Merged(@, mask, val),
            !.raced = IF u.at = "dr" THEN @ \cup {"dr"} ELSE @]
SetInten(u, inten) ==
  [u EXCEPT !.inten = inten, !.wanten = inten,
            !.line = IF inten = {} THEN FALSE ELSE IF inten \ u.inten # {} THEN TRUE ELSE @,
            !.raced = IF u.at \in {"inten", "enable"} THEN @ \cup {"inten"} ELSE @]

(* ----------------------------- open and close --------------------------- *)

(* A second user is counted whatever direction it asks for.                *)
dw_gpio_open(u, dir) ==
  IF u.opn > 0 THEN [u EXCEPT !.opn = @ + 1]
  ELSE [u EXCEPT !.opn = 1, !.ddr = dir, !.direction = dir, !.raw = {}, !.inten = {}, !.line = FALSE, !.level = {},
                 !.dr = {}, !.want = {}, !.wanten = {}, !.req = {}, !.lost = {}, !.raced = {}]
(* The count is decreased first: a handler's call during the rest is       *)
(* refused.                                                                *)
(* Mutant: the interrupts are left enabled. *)
CloseStep_On(u) ==
  IF u.at = "close" THEN [dw_gpio_int_clear([u EXCEPT !.dr = {}, !.ddr = {}], Bits) EXCEPT !.at = "closeint", !.want = {}]
  ELSE [u EXCEPT !.at = "idle", !.line = FALSE, !.direction = {}]
CloseStep(u) ==
  IF u.at = "close" THEN [dw_gpio_int_clear([u EXCEPT !.dr = {}, !.ddr = {}], Bits) EXCEPT !.at = "closeint", !.want = {}]
  ELSE IF u.at = "closeint" THEN [u EXCEPT !.inten = {}, !.wanten = {}, !.at = "closeline"]
  ELSE [u EXCEPT !.at = "idle", !.line = FALSE, !.direction = {}]

(* ----------------------------- the routine ------------------------------ *)

Lowest(bits) == CHOOSE b \in bits : \A c \in bits : b <= c
(* What the client's handler of bit b does: serve its source, and nothing, *)
(* or, if the client writes, write its bit, or else switch its own or every*)
(* interrupt.  Calls are refused once close has decreased the count.       *)
Reactions(u) == {"none"} \cup (IF "out" \in u.client THEN {"write"} ELSE {"dis", "ena"})
React(u, b, r) ==
  IF u.opn = 0 \/ r = "none" THEN u
  ELSE IF r = "write" THEN dw_gpio_write_dr(u, {b}, {b})
  ELSE IF r = "dis" THEN SetInten(u, u.inten \ {b})
  ELSE SetInten(u, u.inten \cup Bits)
IsrEnter(u) == [u EXCEPT !.on = TRUE, !.status = dw_gpio_int_read_status(u)]
Handle(u, r) ==
  LET b == Lowest(u.status)
      t == [u EXCEPT !.status = @ \ {b}, !.served = {b}]
  IN  IF b \in u.isrs THEN React([t EXCEPT !.req = @ \ {b}, !.lost = @ \ {b}], b, r)
      ELSE [t EXCEPT !.lost = @ \cup {b}]
(* Mutant: every edge is cleared at the first end of interrupt. *)
Eoi_All(u) == [dw_gpio_int_clear(u, Bits) EXCEPT !.served = {}]
Eoi(u) == [dw_gpio_int_clear(u, u.served) EXCEPT !.served = {}]

(* ----------------------------- behaviour -------------------------------- *)

Set(u) == gpio' = u
Pending == gpio.line /\ dw_gpio_int_read_status(gpio) # {} /\ ~ gpio.on
Runs == ~ gpio.on /\ ~ Pending
Idle == Runs /\ gpio.at = "idle"
Opened == Idle /\ gpio.opn > 0

Asks(kind) == Opened /\ kind \in gpio.client
Open == /\ Idle /\ gpio.opn < IF "share" \in gpio.client THEN MaxOpen ELSE 1
        /\ \E dir \in SUBSET Bits : ("dir" \in gpio.client \/ dir = Bits) /\ Set(dw_gpio_open(gpio, dir))
(* Mutant: a closed device is closed again. *)
Close_Unchecked == Idle /\ Set([gpio EXCEPT !.opn = @ - 1, !.at = IF gpio.opn = 1 THEN "close" ELSE "idle"])
Close == Opened /\ Set([gpio EXCEPT !.opn = @ - 1, !.at = IF gpio.opn = 1 THEN "close" ELSE "idle"])
Closing == Runs /\ gpio.at \in {"close", "closeint", "closeline"} /\ Set(CloseStep(gpio))

(* Read: the new value is computed from the register.                      *)
Write == Asks("out") /\ \E b \in Bits : \E v \in SUBSET {b} : LET m == {b} IN
           Set([gpio EXCEPT !.at = "dr", !.new = Merged(gpio.dr, m, v), !.mask = m, !.set = v \cap m])
Toggle == Asks("out") /\ \E m \in SUBSET Bits :
            LET o == m \cap gpio.direction IN
            Set([gpio EXCEPT !.at = "dr", !.new = Toggled(gpio.dr, o), !.mask = o, !.set = o \ gpio.dr])
StoreDr == /\ Runs /\ gpio.at = "dr"
           /\ Set([gpio EXCEPT !.dr = gpio.new, !.want = Merged(@, gpio.mask, gpio.set), !.at = "idle",
                               !.new = {}, !.mask = {}, !.set = {}])
SetDir == Asks("dir") /\ \E m \in SUBSET Bits, out \in BOOLEAN :
            LET d == IF out THEN gpio.ddr \cup m ELSE gpio.ddr \ m IN Set([gpio EXCEPT !.ddr = d, !.direction = d])
SetIntCfg == Asks("cfg") /\ \E b \in Bits : \E v \in SUBSET {b} : Set([gpio EXCEPT !.level = Merged(@, {b}, v), !.lost = @ \cup gpio.req])
SetBitIsr == Asks("isr") /\ \E b \in Bits, on \in BOOLEAN : Set([gpio EXCEPT !.isrs = IF on THEN @ \cup {b} ELSE @ \ {b}])
EnaBitInt == Asks("int") /\ \E b \in Bits :
               Set([gpio EXCEPT !.at = "inten", !.new = gpio.inten \cup {b}, !.mask = {b}, !.set = {b}])
DisBitInt == Asks("int") /\ \E b \in Bits :
               Set([gpio EXCEPT !.at = "inten", !.new = gpio.inten \ {b}, !.mask = {b}, !.set = {}])
(* The port's interrupt is switched on after a bit was enabled, off after  *)
(* the last one was disabled; the register is looked at before that.       *)
(* Mutant: the bits named are looked at, not the register. *)
Then_Mask(set, inten) == IF set # {} THEN "enable" ELSE "disable"
Then(set, inten) == IF set # {} /\ inten # {} THEN "enable" ELSE IF set = {} /\ inten = {} THEN "disable" ELSE "idle"
Stored == Set([gpio EXCEPT !.inten = gpio.new, !.wanten = Merged(@, gpio.mask, gpio.set),
                           !.at = Then(gpio.set, gpio.new), !.new = {}, !.mask = {}, !.set = {}])
StoreInten == Runs /\ gpio.at = "inten" /\ Stored
Line == Runs /\ gpio.at \in {"enable", "disable"} /\ Set([gpio EXCEPT !.at = "idle", !.line = gpio.at = "enable"])
Isr == \/ Pending /\ Set(IsrEnter(gpio))
       \/ gpio.on /\ gpio.served = {} /\ gpio.status # {} /\ \E r \in Reactions(gpio) : Set(Handle(gpio, r))
       \/ gpio.on /\ gpio.served # {} /\ Set(Eoi(gpio))
       \/ gpio.on /\ gpio.served = {} /\ gpio.status = {} /\ Set([gpio EXCEPT !.on = FALSE])
(* A source of an enabled bit makes its edge, or asserts its level, also   *)
(* while the device is being closed, until INTEN is written.               *)
Event == \E b \in gpio.inten \ gpio.req :
           Set([gpio EXCEPT !.req = @ \cup {b}, !.raw = @ \cup {b},
                            !.lost = IF b \in gpio.level THEN @ ELSE @ \cup (gpio.served \cap {b})])

Next == Open \/ Close \/ Closing \/ Write \/ Toggle \/ StoreDr \/ SetDir \/ SetIntCfg \/ SetBitIsr \/ EnaBitInt \/ DisBitInt
        \/ StoreInten \/ Line \/ Isr \/ Event
Spec == Init /\ [][Next]_gpio
(* The routine runs, the thread finishes a call it has begun.              *)
Fairness == /\ ([]<>(~ (Pending \/ gpio.on)) \/ []<><<Isr>>_gpio)
            /\ ([]<>(~ (Runs /\ gpio.at = "inten")) \/ []<><<StoreInten>>_gpio)
            /\ ([]<>(~ (Runs /\ gpio.at \in {"enable", "disable"})) \/ []<><<Line>>_gpio)
            /\ ([]<>(~ (Runs /\ gpio.at = "dr")) \/ []<><<StoreDr>>_gpio)
FairSpec == Spec /\ Fairness

(* ----------------------------- properties ------------------------------- *)

(* The registers and the driver's words have their types.                  *)
TypeOK == /\ gpio.client \in Clients /\ gpio.opn \in 0 .. MaxOpen /\ gpio.line \in BOOLEAN /\ gpio.on \in BOOLEAN
          /\ \A w \in {gpio.ddr, gpio.direction, gpio.dr, gpio.inten, gpio.level, gpio.raw, gpio.req,
                       gpio.isrs, gpio.new, gpio.mask, gpio.set, gpio.status, gpio.served} : w \subseteq Bits
          /\ gpio.at \in {"idle", "close", "closeint", "closeline", "dr", "inten", "enable", "disable"}
AtRest == gpio.at = "idle" /\ ~ gpio.on
(* The outputs are what the writes of thread and handlers made of them,    *)
(* unless a handler wrote between the thread's read of DR and its write.   *)
OutputsAsWritten == AtRest => gpio.dr = gpio.want \/ "dr" \in gpio.raced
(* The enabled bits are those asked for, and the port's interrupt is on if *)
(* and only if there are any, unless a handler changed INTEN between the   *)
(* thread's read and its write, or before it switched the interrupt on.    *)
EnablesAsAsked == AtRest => \/ gpio.inten = gpio.wanten /\ gpio.line = (gpio.inten # {})
                            \/ "inten" \in gpio.raced
(* A closed device drives nothing and interrupts nobody, whatever handlers *)
(* ran while it was being closed.                                          *)
ClosedIsQuiet == AtRest /\ gpio.opn = 0 => gpio.dr = {} /\ gpio.ddr = {} /\ gpio.inten = {} /\ ~ gpio.line
(* An event on an enabled bit with a handler, to be handled: not one of    *)
(* those the routine clears unseen, nor is the interrupt left off by a lost*)
(* update of INTEN.                                                        *)
Unhandled(b) == /\ b \in gpio.req \cap gpio.inten \cap gpio.isrs
                /\ b \notin gpio.lost /\ ~ ("inten" \in gpio.raced)
=============================================================================
