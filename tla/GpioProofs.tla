------------------------------ MODULE GpioProofs -----------------------------
(***************************************************************************)
(* Proofs about the two drivers of parallel ports, for any bits of the     *)
(* port, any number of users and any kinds of calls: the DesignWare GPIO   *)
(* driver and, as Ss, the subsystem's.  They share no state.               *)
(***************************************************************************)
EXTENDS DwGpio, WellFoundedInduction, TLAPS

VARIABLE port
Ss == INSTANCE SsGpio WITH gpio <- port

(* ------------------------- the DesignWare driver ------------------------ *)

(* The steps of dw_gpio_close, and the types of the state.                 *)
Ends == {"close", "closeint", "closeline"}
Shapes ==
  [client : Clients, opn : 0 .. MaxOpen, ddr : SUBSET Bits, direction : SUBSET Bits, dr : SUBSET Bits,
   inten : SUBSET Bits, line : BOOLEAN, level : SUBSET Bits, raw : SUBSET Bits, req : SUBSET Bits,
   isrs : SUBSET Bits, at : {"idle", "dr", "inten", "enable", "disable"} \cup Ends, new : SUBSET Bits,
   mask : SUBSET Bits, set : SUBSET Bits, on : BOOLEAN, status : SUBSET Bits, served : SUBSET Bits,
   want : SUBSET Bits, wanten : SUBSET Bits, lost : SUBSET Bits, raced : SUBSET {"dr", "inten"}]

(* The outputs are as written, and a write under way was computed from     *)
(* them, or a handler came between.                                        *)
Outputs(u) == \/ "dr" \in u.raced
              \/ u.dr = u.want /\ (u.at = "dr" => u.new = Merged(u.dr, u.mask, u.set))
(* The same for the enabled bits; the port's interrupt follows them, or is *)
(* about to.                                                               *)
Enables(u) ==
  \/ "inten" \in u.raced
  \/ /\ u.inten = u.wanten
     /\ u.at = "inten" => u.new = Merged(u.inten, u.mask, u.set) /\ u.set \subseteq u.mask
     /\ u.at = "enable" => u.inten # {}
     /\ u.at \in {"idle", "dr", "inten"} => u.line = (u.inten # {})
(* Whoever is about to switch the port's interrupt off is not interrupted. *)
Disabling(u) == u.at = "disable" => u.inten = {} /\ ~ u.on
(* The end of a session: nothing is left behind a step of close, because a *)
(* handler's calls are refused.                                            *)
Quiet(u) ==
  /\ u.at \in Ends => u.opn = 0
  /\ u.opn = 0 =>
       /\ u.at \in Ends \cup {"idle"}
       /\ u.at # "close" => u.dr = {} /\ u.want = {} /\ u.ddr = {}
       /\ u.at \in {"closeline", "idle"} => u.inten = {} /\ u.wanten = {}
       /\ u.at = "idle" => ~ u.line
Sound(u) == u \in Shapes /\ Outputs(u) /\ Enables(u) /\ Disabling(u) /\ Quiet(u)
PortInv == Sound(gpio)

(* The invariant holds before the first call. *)
LEMMA Starts ==
  ASSUME DwGpioConstants, Init
  PROVE  PortInv
  <1>1. PICK client \in Clients, isrs \in SUBSET Bits :
          gpio = [client |-> client, opn |-> 0, ddr |-> {}, direction |-> {}, dr |-> {}, inten |-> {},
                  line |-> FALSE, level |-> {}, raw |-> {}, req |-> {}, isrs |-> isrs, at |-> "idle",
                  new |-> {}, mask |-> {}, set |-> {}, on |-> FALSE, status |-> {}, served |-> {},
                  want |-> {}, wanten |-> {}, lost |-> {}, raced |-> {}]
    BY DEF Init
  <1>2. gpio \in Shapes
    BY <1>1 DEF Shapes, DwGpioConstants
  <1> QED
    BY <1>1, <1>2 DEF PortInv, Sound, Outputs, Enables, Disabling, Quiet, Ends

(* The order of the bits. *)
Less == {pair \in Nat \X Nat : pair[1] < pair[2]}
(* No sequence of bits descends for ever. *)
LEMMA LessWellFounded == IsWellFoundedOn(Less, Nat)
  <1>1. OpToRel(<, Nat) = Less
    BY DEF OpToRel, Less
  <1> QED
    BY <1>1, NatLessThanWellFounded

(* Some bit is the lowest: the routines find the one they call next. *)
LEMMA LowestIs ==
  ASSUME DwGpioConstants, NEW s \in SUBSET Bits, s # {}
  PROVE  Lowest(s) \in s
  <1>1. s \in SUBSET Nat
    BY DEF DwGpioConstants
  <1>2. PICK c \in s : \A d \in s : <<d, c>> \notin Less
    BY <1>1, WFMin, LessWellFounded
  <1>3. \A d \in s : ~ (d < c)
    BY <1>1, <1>2 DEF Less
  <1>4. \A d \in s : c <= d
    BY <1>1, <1>3
  <1> QED
    BY <1>4 DEF Lowest

(* dw_gpio_open: the first user finds the port reset, others are counted. *)
LEMMA OpenKept ==
  ASSUME DwGpioConstants, PortInv, Open
  PROVE  PortInv'
  <1>1. PICK dir \in SUBSET Bits : gpio' = dw_gpio_open(gpio, dir)
    BY DEF Open, Set
  <1>2. gpio.opn + 1 \in 0 .. MaxOpen /\ gpio.at = "idle" /\ ~ gpio.on
    BY DEF Open, Idle, Runs, PortInv, Sound, Shapes, DwGpioConstants
  <1>3. gpio \in Shapes
    BY DEF PortInv, Sound
  <1>4. CASE gpio.opn > 0
    <2>1. gpio' = [gpio EXCEPT !.opn = gpio.opn + 1]
      BY <1>1, <1>4 DEF dw_gpio_open
    <2>2. gpio' \in Shapes
      BY <2>1, <1>2, <1>3 DEF Shapes
    <2> QED
      BY <1>2, <1>3, <1>4, <2>1, <2>2 DEF PortInv, Sound, Shapes, Outputs, Enables, Disabling, Quiet, Ends
  <1>5. CASE ~ (gpio.opn > 0)
    <2>1. gpio' = [gpio EXCEPT !.opn = 1, !.ddr = dir, !.direction = dir, !.raw = {}, !.inten = {}, !.line = FALSE, !.level = {},
                 !.dr = {}, !.want = {}, !.wanten = {}, !.req = {}, !.lost = {}, !.raced = {}]
      BY <1>1, <1>5 DEF dw_gpio_open
    <2> DEFINE u == [gpio EXCEPT !.opn = 1, !.ddr = dir, !.direction = dir, !.raw = {}, !.inten = {}, !.line = FALSE]
    <2>1a. 1 \in 0 .. MaxOpen
      BY DEF DwGpioConstants
    <2>2. u \in Shapes
      BY <1>3, <2>1a DEF Shapes
    <2>3. gpio' = [u EXCEPT !.level = {}, !.dr = {}, !.want = {}, !.wanten = {}, !.req = {}, !.lost = {}, !.raced = {}]
      BY <2>1
    <2>4. u.opn = 1 /\ u.inten = {} /\ u.line = FALSE /\ u.at = "idle"
      BY <1>2, <1>3 DEF Shapes
    <2> HIDE DEF u
    <2>5. gpio' \in Shapes
      BY <2>2, <2>3 DEF Shapes
    <2>6. /\ gpio'.opn = 1 /\ gpio'.inten = {} /\ gpio'.line = FALSE /\ gpio'.at = "idle"
          /\ gpio'.dr = {} /\ gpio'.want = {} /\ gpio'.wanten = {} /\ gpio'.raced = {}
      BY <2>2, <2>3, <2>4 DEF Shapes
    <2> QED
      <3>1. Outputs(gpio')
        BY <2>6 DEF Outputs
      <3>2. Enables(gpio')
        BY <2>6 DEF Enables
      <3>3. Disabling(gpio') /\ Quiet(gpio')
        BY <2>6 DEF Disabling, Quiet, Ends
      <3> QED
        BY <2>5, <3>1, <3>2, <3>3 DEF PortInv, Sound
  <1> QED
    BY <1>4, <1>5

(* dw_gpio_close: the count is decreased, the last user starts the rest. *)
LEMMA CloseKept ==
  ASSUME DwGpioConstants, PortInv, Close
  PROVE  PortInv'
  <1>1. gpio' = [gpio EXCEPT !.opn = gpio.opn - 1, !.at = IF gpio.opn = 1 THEN "close" ELSE "idle"]
    BY DEF Close, Set
  <1>2. gpio \in Shapes /\ gpio.opn > 0 /\ gpio.at = "idle"
    BY DEF Close, Opened, Idle, PortInv, Sound
  <1>3. gpio.opn - 1 \in 0 .. MaxOpen /\ gpio.opn \in Nat
    BY <1>2 DEF Shapes, DwGpioConstants
  <1>4. gpio' \in Shapes
    BY <1>1, <1>2, <1>3 DEF Shapes, Ends
  <1> QED
    BY <1>1, <1>2, <1>3, <1>4 DEF PortInv, Sound, Shapes, Outputs, Enables, Disabling, Quiet, Ends

(* The steps of the last close. *)
LEMMA ClosingKept ==
  ASSUME DwGpioConstants, PortInv, Closing
  PROVE  PortInv'
  <1>1. gpio \in Shapes /\ gpio.opn = 0 /\ gpio.at \in Ends /\ ~ gpio.on
    BY DEF Closing, Runs, PortInv, Sound, Shapes, Quiet, Ends
  <1>2. CASE gpio.at = "close"
    <2>1. gpio' = [gpio EXCEPT !.dr = {}, !.ddr = {}, !.raw = gpio.raw \ Bits, !.at = "closeint", !.want = {}]
      BY <1>1, <1>2 DEF Closing, CloseStep, dw_gpio_int_clear, Set, Shapes
    <2>2. gpio' \in Shapes
      BY <1>1, <2>1, ZenonT(60) DEF Shapes, Ends
    <2> QED
      BY <1>1, <1>2, <2>1, <2>2 DEF PortInv, Sound, Shapes, Outputs, Enables, Disabling, Quiet, Ends
  <1>3. CASE gpio.at = "closeint"
    <2>1. gpio' = [gpio EXCEPT !.inten = {}, !.wanten = {}, !.at = "closeline"]
      BY <1>1, <1>3 DEF Closing, CloseStep, dw_gpio_int_clear, Set, Shapes
    <2>2. gpio' \in Shapes
      BY <1>1, <2>1, ZenonT(60) DEF Shapes, Ends
    <2> QED
      BY <1>1, <1>3, <2>1, <2>2 DEF PortInv, Sound, Shapes, Outputs, Enables, Disabling, Quiet, Ends
  <1>4. CASE gpio.at = "closeline"
    <2>1. gpio' = [gpio EXCEPT !.at = "idle", !.line = FALSE, !.direction = {}]
      BY <1>1, <1>4 DEF Closing, CloseStep, dw_gpio_int_clear, Set, Shapes
    <2>2. gpio' \in Shapes
      BY <1>1, <2>1, ZenonT(60) DEF Shapes, Ends
    <2>3. Outputs(gpio') /\ Disabling(gpio')
      BY <1>1, <1>4, <2>1, ZenonT(60) DEF PortInv, Sound, Shapes, Outputs, Disabling
    <2>4. Enables(gpio')
      BY <1>1, <1>4, <2>1, ZenonT(60) DEF PortInv, Sound, Shapes, Enables, Quiet, Ends
    <2>5. Quiet(gpio')
      BY <1>1, <1>4, <2>1, ZenonT(60) DEF PortInv, Sound, Shapes, Quiet, Ends
    <2> QED
      BY <2>2, <2>3, <2>4, <2>5 DEF PortInv, Sound
  <1> QED
    BY <1>1, <1>2, <1>3, <1>4 DEF Ends

(* dw_gpio_write of the thread, and toggling: DR is read. *)
LEMMA WriteKept ==
  ASSUME DwGpioConstants, PortInv, Write \/ Toggle
  PROVE  PortInv'
  <1>1. PICK new \in SUBSET Bits, mask \in SUBSET Bits, set \in SUBSET Bits :
          /\ gpio' = [gpio EXCEPT !.at = "dr", !.new = new, !.mask = mask, !.set = set]
          /\ new = Merged(gpio.dr, mask, set)
    <2>1. CASE Write
      <3>1. PICK b \in Bits : \E v \in SUBSET {b} :
              gpio' = [gpio EXCEPT !.at = "dr", !.new = Merged(gpio.dr, {b}, v), !.mask = {b}, !.set = v \cap {b}]
        BY <2>1 DEF Write, Set
      <3>a. PICK v \in SUBSET {b} :
              gpio' = [gpio EXCEPT !.at = "dr", !.new = Merged(gpio.dr, {b}, v), !.mask = {b}, !.set = v \cap {b}]
        BY <3>1
      <3>2. Merged(gpio.dr, {b}, v) \in SUBSET Bits /\ {b} \in SUBSET Bits /\ v \cap {b} \in SUBSET Bits
            /\ Merged(gpio.dr, {b}, v) = Merged(gpio.dr, {b}, v \cap {b})
        BY DEF Merged, PortInv, Sound, Shapes
      <3> QED
        BY <3>a, <3>2
    <2>2. CASE Toggle
      <3>1. PICK o \in SUBSET Bits :
              gpio' = [gpio EXCEPT !.at = "dr", !.new = Toggled(gpio.dr, o), !.mask = o, !.set = o \ gpio.dr]
        BY <2>2 DEF Toggle, Set
      <3>2. Toggled(gpio.dr, o) \in SUBSET Bits /\ o \ gpio.dr \in SUBSET Bits
            /\ Toggled(gpio.dr, o) = Merged(gpio.dr, o, o \ gpio.dr)
        BY DEF Merged, Toggled, PortInv, Sound, Shapes
      <3> QED
        BY <3>1, <3>2
    <2> QED
      BY <2>1, <2>2
  <1>2. gpio \in Shapes /\ gpio.opn > 0 /\ gpio.at = "idle" /\ gpio.opn \in Nat
    <2>1. gpio \in Shapes
      BY DEF PortInv, Sound
    <2>2. gpio.opn \in Nat
      BY <2>1 DEF Shapes
    <2>3. gpio.opn > 0 /\ gpio.at = "idle"
      BY DEF Write, Toggle, Asks, Opened, Idle
    <2> QED
      BY <2>1, <2>2, <2>3
  <1>3. gpio' \in Shapes
    BY <1>1, <1>2 DEF Shapes
  <1> QED
    BY <1>1, <1>2, <1>3 DEF PortInv, Sound, Shapes, Outputs, Enables, Disabling, Quiet, Ends

(* What was made of it is written. *)
LEMMA StoreDrKept ==
  ASSUME DwGpioConstants, PortInv, StoreDr
  PROVE  PortInv'
  <1>1. gpio' = [gpio EXCEPT !.dr = gpio.new, !.want = Merged(gpio.want, gpio.mask, gpio.set), !.at = "idle",
                             !.new = {}, !.mask = {}, !.set = {}]
    BY DEF StoreDr, Set
  <1>2. gpio \in Shapes /\ gpio.at = "dr" /\ gpio.opn # 0
    BY DEF StoreDr, PortInv, Sound, Quiet, Ends
  <1>3. Merged(gpio.want, gpio.mask, gpio.set) \in SUBSET Bits
    BY <1>2 DEF Merged, Shapes
  <1>4. gpio' \in Shapes
    BY <1>1, <1>2, <1>3 DEF Shapes
  <1> QED
    BY <1>1, <1>2, <1>4 DEF PortInv, Sound, Shapes, Outputs, Enables, Disabling, Quiet, Ends

(* What an action changes that the other parts of the invariant do not     *)
(* look at.                                                                *)
LEMMA ConfigKept ==
  ASSUME DwGpioConstants, PortInv, SetDir \/ SetIntCfg \/ SetBitIsr \/ Event
  PROVE  PortInv'
  <1>1. gpio \in Shapes
    BY DEF PortInv, Sound
  <1>2. CASE SetDir
    <2>1. PICK d \in SUBSET Bits : gpio' = [gpio EXCEPT !.ddr = d, !.direction = d]
      <3>1. PICK m \in SUBSET Bits, out \in BOOLEAN :
              gpio' = [gpio EXCEPT !.ddr = IF out THEN gpio.ddr \cup m ELSE gpio.ddr \ m,
                                   !.direction = IF out THEN gpio.ddr \cup m ELSE gpio.ddr \ m]
        BY <1>2 DEF SetDir, Set
      <3>2. (IF out THEN gpio.ddr \cup m ELSE gpio.ddr \ m) \in SUBSET Bits
        BY <1>1 DEF Shapes
      <3> QED
        BY <3>1, <3>2
    <2>2. gpio.opn > 0
      BY <1>2 DEF SetDir, Asks, Opened
    <2>3. gpio' \in Shapes
      BY <1>1, <2>1 DEF Shapes
    <2> QED
      BY <1>1, <2>1, <2>2, <2>3 DEF PortInv, Sound, Shapes, Outputs, Enables, Disabling, Quiet, Ends
  <1>3. CASE SetIntCfg
    <2>1. PICK l \in SUBSET Bits, w \in SUBSET Bits : gpio' = [gpio EXCEPT !.level = l, !.lost = w]
      <3>1. PICK b \in Bits : \E v \in SUBSET {b} :
              gpio' = [gpio EXCEPT !.level = Merged(gpio.level, {b}, v), !.lost = gpio.lost \cup gpio.req]
        BY <1>3 DEF SetIntCfg, Set
      <3>2. \A v \in SUBSET {b} : Merged(gpio.level, {b}, v) \in SUBSET Bits
        BY <1>1 DEF Shapes, Merged
      <3>3. gpio.lost \cup gpio.req \in SUBSET Bits
        BY <1>1 DEF Shapes
      <3> QED
        BY <3>1, <3>2, <3>3
    <2>2. gpio' \in Shapes
      BY <1>1, <2>1 DEF Shapes
    <2> QED
      BY <1>1, <2>1, <2>2 DEF PortInv, Sound, Shapes, Outputs, Enables, Disabling, Quiet, Ends
  <1>4. CASE SetBitIsr
    <2>1. PICK w \in SUBSET Bits : gpio' = [gpio EXCEPT !.isrs = w]
      <3>1. PICK b \in Bits, on \in BOOLEAN :
              gpio' = [gpio EXCEPT !.isrs = IF on THEN gpio.isrs \cup {b} ELSE gpio.isrs \ {b}]
        BY <1>4 DEF SetBitIsr, Set
      <3>2. (IF on THEN gpio.isrs \cup {b} ELSE gpio.isrs \ {b}) \in SUBSET Bits
        BY <1>1 DEF Shapes
      <3> QED
        BY <3>1, <3>2
    <2>2. gpio' \in Shapes
      BY <1>1, <2>1 DEF Shapes
    <2> QED
      BY <1>1, <2>1, <2>2 DEF PortInv, Sound, Shapes, Outputs, Enables, Disabling, Quiet, Ends
  <1>5. CASE Event
    <2>1. PICK b \in Bits :
            gpio' = [gpio EXCEPT !.req = gpio.req \cup {b}, !.raw = gpio.raw \cup {b},
                        !.lost = IF b \in gpio.level THEN gpio.lost ELSE gpio.lost \cup (gpio.served \cap {b})]
      BY <1>1, <1>5 DEF Event, Set, Shapes
    <2>2. (IF b \in gpio.level THEN gpio.lost ELSE gpio.lost \cup (gpio.served \cap {b})) \in SUBSET Bits
      BY <1>1 DEF Shapes
    <2>3. gpio' \in Shapes
      BY <1>1, <2>1, <2>2 DEF Shapes
    <2> QED
      BY <1>1, <2>1, <2>3 DEF PortInv, Sound, Shapes, Outputs, Enables, Disabling, Quiet, Ends
  <1> QED
    BY <1>2, <1>3, <1>4, <1>5

(* Switching a bit's interrupt: INTEN is read. *)
LEMMA BitIntKept ==
  ASSUME DwGpioConstants, PortInv, EnaBitInt \/ DisBitInt
  PROVE  PortInv'
  <1>1. gpio \in Shapes /\ gpio.opn > 0 /\ gpio.opn \in Nat /\ gpio.at = "idle"
    <2>1. gpio \in Shapes
      BY DEF PortInv, Sound
    <2>2. gpio.opn \in Nat
      BY <2>1 DEF Shapes
    <2>3. gpio.opn > 0 /\ gpio.at = "idle"
      BY DEF EnaBitInt, DisBitInt, Asks, Opened, Idle
    <2> QED
      BY <2>1, <2>2, <2>3
  <1>2. PICK b \in Bits, set \in SUBSET Bits :
          /\ gpio' = [gpio EXCEPT !.at = "inten", !.new = Merged(gpio.inten, {b}, set), !.mask = {b}, !.set = set]
          /\ set \subseteq {b}
    <2>1. CASE EnaBitInt
      <3>1. PICK b \in Bits :
              gpio' = [gpio EXCEPT !.at = "inten", !.new = gpio.inten \cup {b}, !.mask = {b}, !.set = {b}]
        BY <2>1 DEF EnaBitInt, Set
      <3>2. gpio.inten \cup {b} = Merged(gpio.inten, {b}, {b})
        BY DEF Merged
      <3> QED
        BY <3>1, <3>2
    <2>2. CASE DisBitInt
      <3>1. PICK b \in Bits :
              gpio' = [gpio EXCEPT !.at = "inten", !.new = gpio.inten \ {b}, !.mask = {b}, !.set = {}]
        BY <2>2 DEF DisBitInt, Set
      <3>2. gpio.inten \ {b} = Merged(gpio.inten, {b}, {})
        BY DEF Merged
      <3>3. {} \in SUBSET Bits /\ {} \subseteq {b}
        OBVIOUS
      <3> QED
        BY <3>1, <3>2, <3>3
    <2> QED
      BY <2>1, <2>2
  <1>3. Merged(gpio.inten, {b}, set) \in SUBSET Bits /\ {b} \in SUBSET Bits
    BY <1>1 DEF Merged, Shapes
  <1>4. gpio' \in Shapes
    BY <1>1, <1>2, <1>3 DEF Shapes
  <1> QED
    BY <1>1, <1>2, <1>4 DEF PortInv, Sound, Shapes, Outputs, Enables, Disabling, Quiet, Ends

(* ... and written, *)
LEMMA StoreIntenKept ==
  ASSUME DwGpioConstants, PortInv, StoreInten
  PROVE  PortInv'
  <1>1. gpio \in Shapes /\ gpio.at = "inten" /\ gpio.opn # 0 /\ ~ gpio.on
    BY DEF StoreInten, Runs, PortInv, Sound, Quiet, Ends
  <1>2. gpio' = [gpio EXCEPT !.inten = gpio.new, !.wanten = Merged(gpio.wanten, gpio.mask, gpio.set),
                             !.at = Then(gpio.set, gpio.new), !.new = {}, !.mask = {}, !.set = {}]
    BY DEF StoreInten, Stored, Set
  <1>3. Merged(gpio.wanten, gpio.mask, gpio.set) \in SUBSET Bits /\ Then(gpio.set, gpio.new) \in {"idle", "enable", "disable"}
    BY <1>1 DEF Merged, Then, Shapes
  <1>4. gpio' \in Shapes
    BY <1>1, <1>2, <1>3 DEF Shapes
  <1>5. Outputs(gpio')
    BY <1>1, <1>2, <1>3 DEF PortInv, Sound, Shapes, Outputs
  <1>6. Disabling(gpio') /\ Quiet(gpio')
    BY <1>1, <1>2, <1>3 DEF Shapes, Disabling, Quiet, Then, Ends
  <1>7. ASSUME "inten" \notin gpio.raced
        PROVE  Enables(gpio')
    <2>1. /\ gpio.inten = gpio.wanten /\ gpio.new = Merged(gpio.inten, gpio.mask, gpio.set)
          /\ gpio.set \subseteq gpio.mask /\ gpio.line = (gpio.inten # {})
      BY <1>1, <1>7 DEF PortInv, Sound, Enables
    <2>2. gpio'.inten = gpio.new /\ gpio'.wanten = gpio.new /\ gpio'.line = gpio.line
          /\ gpio'.at = Then(gpio.set, gpio.new)
      BY <1>1, <1>2, <2>1 DEF Shapes
    <2>3. gpio'.at = "enable" => gpio.new # {}
      BY <2>2 DEF Then
    <2>4. gpio'.at = "idle" => gpio.new # {} /\ gpio.inten # {}
      BY <2>1, <2>2 DEF Then, Merged
    <2> QED
      BY <1>3, <2>1, <2>2, <2>3, <2>4 DEF Enables
  <1>8. "inten" \in gpio.raced => Enables(gpio')
    BY <1>1, <1>2 DEF Shapes, Enables
  <1> QED
    BY <1>4, <1>5, <1>6, <1>7, <1>8 DEF PortInv, Sound

(* ... and the port's interrupt is switched by what it became. *)
LEMMA LineKept ==
  ASSUME DwGpioConstants, PortInv, Line
  PROVE  PortInv'
  <1>1. gpio \in Shapes /\ gpio.at \in {"enable", "disable"} /\ gpio.opn # 0
    BY DEF Line, PortInv, Sound, Quiet, Ends
  <1>2. gpio' = [gpio EXCEPT !.at = "idle", !.line = (gpio.at = "enable")]
    BY DEF Line, Set
  <1>3. gpio' \in Shapes
    BY <1>1, <1>2 DEF Shapes
  <1>4. CASE gpio.at = "enable"
    BY <1>1, <1>2, <1>3, <1>4 DEF PortInv, Sound, Shapes, Outputs, Enables, Disabling, Quiet, Ends
  <1>5. CASE gpio.at = "disable"
    BY <1>1, <1>2, <1>3, <1>5 DEF PortInv, Sound, Shapes, Outputs, Enables, Disabling, Quiet, Ends
  <1> QED
    BY <1>1, <1>4, <1>5

(* A handler's calls.  While a session ends they are refused; else what it *)
(* writes it also wants, and it leaves its mark where the thread was at    *)
(* work.                                                                   *)
LEMMA ReactKept ==
  ASSUME DwGpioConstants, NEW u, Sound(u), u.on, NEW b \in Bits, NEW r \in Reactions(u)
  PROVE  Sound(React(u, b, r))
  <1>1. u \in Shapes /\ u.at # "disable" /\ Bits \in SUBSET Bits
    BY DEF Sound, Disabling
  <1>2. CASE u.opn = 0 \/ r = "none"
    BY <1>2 DEF React
  <1>3. CASE ~ (u.opn = 0 \/ r = "none") /\ r = "write"
    <2>1. React(u, b, r) = [u EXCEPT !.dr = Merged(u.dr, {b}, {b}), !.want = Merged(u.want, {b}, {b}),
                                     !.raced = IF u.at = "dr" THEN u.raced \cup {"dr"} ELSE u.raced]
      BY <1>3 DEF React, dw_gpio_write_dr
    <2>2. /\ Merged(u.dr, {b}, {b}) \in SUBSET Bits /\ Merged(u.want, {b}, {b}) \in SUBSET Bits
          /\ (IF u.at = "dr" THEN u.raced \cup {"dr"} ELSE u.raced) \in SUBSET {"dr", "inten"}
      BY <1>1 DEF Merged, Shapes
    <2>3. React(u, b, r) \in Shapes
      BY <1>1, <2>1, <2>2, ZenonT(60) DEF Shapes
    <2> DEFINE v == React(u, b, r)
    <2>4. /\ v.dr = Merged(u.dr, {b}, {b}) /\ v.want = Merged(u.want, {b}, {b})
          /\ v.raced = (IF u.at = "dr" THEN u.raced \cup {"dr"} ELSE u.raced)
          /\ v.inten = u.inten /\ v.wanten = u.wanten /\ v.line = u.line /\ v.at = u.at /\ v.on = u.on
          /\ v.new = u.new /\ v.mask = u.mask /\ v.set = u.set /\ v.opn = u.opn
      BY <1>1, <2>1, ZenonT(60) DEF Shapes
    <2> HIDE DEF v
    <2>5. Outputs(v)
      BY <2>4 DEF Sound, Outputs
    <2>6. Enables(v)
      BY <2>4 DEF Sound, Enables
    <2>7. Disabling(v) /\ Quiet(v)
      BY <1>1, <1>3, <2>4 DEF Sound, Disabling, Quiet
    <2> QED
      BY <2>3, <2>5, <2>6, <2>7 DEF Sound, v
  <1>4. ASSUME NEW inten \in SUBSET Bits, u.opn # 0
        PROVE  Sound(SetInten(u, inten))
    <2> DEFINE line == IF inten = {} THEN FALSE ELSE IF inten \ u.inten # {} THEN TRUE ELSE u.line
               raced == IF u.at \in {"inten", "enable"} THEN u.raced \cup {"inten"} ELSE u.raced
               v == SetInten(u, inten)
    <2>1. v = [u EXCEPT !.inten = inten, !.wanten = inten, !.line = line, !.raced = raced]
      BY DEF SetInten
    <2>2. line \in BOOLEAN /\ raced \in SUBSET {"dr", "inten"}
      BY <1>1 DEF Shapes
    <2>3. u.line = (u.inten # {}) => line = (inten # {})
      OBVIOUS
    <2>4. u.raced \subseteq raced /\ (u.at \in {"inten", "enable"} => "inten" \in raced)
      OBVIOUS
    <2> HIDE DEF line, raced, v
    <2>5. v \in Shapes
      BY <1>1, <2>1, <2>2 DEF Shapes
    <2>6. /\ v.inten = inten /\ v.wanten = inten /\ v.line = line /\ v.raced = raced
          /\ v.dr = u.dr /\ v.want = u.want /\ v.at = u.at /\ v.new = u.new /\ v.mask = u.mask /\ v.set = u.set
          /\ v.on = u.on /\ v.opn = u.opn
      BY <1>1, <2>1 DEF Shapes
    <2>7. Outputs(v)
      BY <2>4, <2>6 DEF Sound, Outputs
    <2>8. Enables(v)
      <3>1. CASE u.at \in {"inten", "enable"} \/ "inten" \in u.raced
        BY <3>1, <2>4, <2>6 DEF Enables
      <3>2. CASE ~ (u.at \in {"inten", "enable"} \/ "inten" \in u.raced)
        <4>1. u.at \in {"idle", "dr"} => u.line = (u.inten # {})
          BY <3>2 DEF Sound, Enables
        <4>2. u.at \in {"idle", "dr"} => v.line = (v.inten # {})
          BY <4>1, <2>3, <2>6
        <4> QED
          BY <3>2, <4>2, <2>6 DEF Enables
      <3> QED
        BY <3>1, <3>2
    <2>9. Disabling(v) /\ Quiet(v)
      BY <1>1, <1>4, <2>6 DEF Sound, Disabling, Quiet
    <2> QED
      BY <2>5, <2>7, <2>8, <2>9 DEF Sound, v
  <1>5. CASE ~ (u.opn = 0 \/ r = "none") /\ r # "write"
    <2>1. u.inten \ {b} \in SUBSET Bits /\ u.inten \cup Bits \in SUBSET Bits
      BY <1>1 DEF Shapes
    <2>2. React(u, b, r) = SetInten(u, u.inten \ {b}) \/ React(u, b, r) = SetInten(u, u.inten \cup Bits)
      BY <1>5 DEF React
    <2> QED
      BY <1>4, <1>5, <2>1, <2>2
  <1> QED
    BY <1>2, <1>3, <1>5

(* The interrupt routine: entry, the handlers, the end of interrupt. *)
LEMMA IsrKept ==
  ASSUME DwGpioConstants, PortInv, Isr
  PROVE  PortInv'
  <1>1. gpio \in Shapes
    BY DEF PortInv, Sound
  <1>2. CASE Pending /\ Set(IsrEnter(gpio))
    <2>1. gpio' = [gpio EXCEPT !.on = TRUE, !.status = dw_gpio_int_read_status(gpio)]
      BY <1>2 DEF Set, IsrEnter
    <2>2. dw_gpio_int_read_status(gpio) \in SUBSET Bits /\ gpio.inten # {}
      BY <1>1, <1>2 DEF Pending, dw_gpio_int_read_status, Shapes
    <2>3. gpio' \in Shapes
      BY <1>1, <2>1, <2>2 DEF Shapes
    <2> QED
      BY <1>1, <2>1, <2>2, <2>3 DEF PortInv, Sound, Shapes, Outputs, Enables, Disabling, Quiet, Ends
  <1>3. ASSUME gpio.on, gpio.status # {}, NEW r \in Reactions(gpio), Set(Handle(gpio, r))
        PROVE  PortInv'
    <2> DEFINE b == Lowest(gpio.status)
               t == [gpio EXCEPT !.status = gpio.status \ {b}, !.served = {b}]
               v == [t EXCEPT !.req = t.req \ {b}, !.lost = t.lost \ {b}]
               w == [t EXCEPT !.lost = t.lost \cup {b}]
    <2>1. b \in Bits
      BY <1>1, <1>3, LowestIs DEF Shapes
    <2>2. gpio' = IF b \in gpio.isrs THEN React(v, b, r) ELSE w
      BY <1>1, <1>3 DEF Set, Handle, Shapes
    <2> HIDE DEF b
    <2>3. t \in Shapes
      BY <1>1, <2>1 DEF Shapes
    <2>4. v \in Shapes /\ w \in Shapes
      <3>1. t.req \ {b} \in SUBSET Bits /\ t.lost \ {b} \in SUBSET Bits /\ t.lost \cup {b} \in SUBSET Bits
        BY <2>1, <2>3 DEF Shapes
      <3> HIDE DEF t
      <3> QED
        BY <2>3, <3>1 DEF Shapes
    <2>5. \A x \in {v, w} :
            /\ x.dr = gpio.dr /\ x.want = gpio.want /\ x.at = gpio.at /\ x.new = gpio.new /\ x.mask = gpio.mask
            /\ x.set = gpio.set /\ x.inten = gpio.inten /\ x.wanten = gpio.wanten /\ x.line = gpio.line
            /\ x.on = gpio.on /\ x.opn = gpio.opn /\ x.ddr = gpio.ddr /\ x.raced = gpio.raced /\ x.client = gpio.client
      BY <1>1, ZenonT(60) DEF Shapes
    <2> HIDE DEF v, w
    <2>6. Sound(v) /\ Sound(w)
      BY <2>4, <2>5 DEF PortInv, Sound, Outputs, Enables, Disabling, Quiet
    <2>7. Reactions(v) = Reactions(gpio) /\ v.on
      BY <1>3, <2>5 DEF Reactions
    <2>8. Sound(React(v, b, r))
      BY <1>3, <2>1, <2>6, <2>7, ReactKept
    <2> QED
      BY <2>2, <2>6, <2>8 DEF PortInv
  <1>4. CASE gpio.on /\ Set(Eoi(gpio))
    <2>1. gpio' = [gpio EXCEPT !.raw = gpio.raw \ gpio.served, !.served = {}]
      BY <1>1, <1>4 DEF Set, Eoi, dw_gpio_int_clear
    <2>2. gpio.raw \ gpio.served \in SUBSET Bits
      BY <1>1 DEF Shapes
    <2>3. gpio' \in Shapes
      BY <1>1, <2>1, <2>2 DEF Shapes
    <2> QED
      BY <1>1, <2>1, <2>3 DEF PortInv, Sound, Shapes, Outputs, Enables, Disabling, Quiet, Ends
  <1>5. CASE gpio.on /\ Set([gpio EXCEPT !.on = FALSE])
    <2>1. gpio' = [gpio EXCEPT !.on = FALSE]
      BY <1>5 DEF Set
    <2>2. gpio' \in Shapes
      BY <1>1, <2>1 DEF Shapes
    <2> QED
      BY <1>1, <2>1, <2>2, ZenonT(60) DEF PortInv, Sound, Shapes, Outputs, Enables, Disabling, Quiet, Ends
  <1> QED
    BY <1>2, <1>3, <1>4, <1>5 DEF Isr

(* Every step keeps the invariant. *)
LEMMA PortKept ==
  ASSUME DwGpioConstants, PortInv, [Next]_gpio
  PROVE  PortInv'
  <1>1. CASE UNCHANGED gpio
    BY <1>1 DEF PortInv
  <1>2. CASE Next
    BY <1>2, OpenKept, CloseKept, ClosingKept, WriteKept, StoreDrKept, ConfigKept, BitIntKept, StoreIntenKept,
       LineKept, IsrKept DEF Next
  <1> QED
    BY <1>1, <1>2

(* ----------------- theorems about the DesignWare driver ----------------- *)

(* The registers and the words of dw_gpio.c keep their types, the count of *)
(* users included.                                                         *)
THEOREM PortTypes ==
  ASSUME DwGpioConstants
  PROVE  Spec => []TypeOK
  <1>1. PortInv => TypeOK
    BY DEF PortInv, Sound, Shapes, Ends, TypeOK
  <1> QED
    BY <1>1, Starts, PortKept, PTL DEF Spec

(* However the read-modify-writes of DR in dw_gpio.c interleave with the   *)
(* handlers', at rest the outputs are what all writes made of them, unless *)
(* a handler wrote between the thread's read and its write.                *)
THEOREM OutputsKept ==
  ASSUME DwGpioConstants
  PROVE  Spec => []OutputsAsWritten
  <1>1. PortInv => OutputsAsWritten
    BY DEF PortInv, Sound, Outputs, OutputsAsWritten
  <1> QED
    BY <1>1, Starts, PortKept, PTL DEF Spec

(* The same for INTEN (dw_gpio.c's ENA_BIT_INT and DIS_BIT_INT): at rest it*)
(* has the bits asked for, and the port's interrupt is on exactly if there *)
(* are any, unless a handler came between.                                 *)
THEOREM EnablesKept ==
  ASSUME DwGpioConstants
  PROVE  Spec => []EnablesAsAsked
  <1>1. PortInv => EnablesAsAsked
    BY DEF PortInv, Sound, Enables, EnablesAsAsked, AtRest
  <1> QED
    BY <1>1, Starts, PortKept, PTL DEF Spec

(* Whatever handlers run during the steps of dw_gpio_close, a closed port  *)
(* drives nothing and interrupts nobody.                                   *)
THEOREM ClosedPortQuiet ==
  ASSUME DwGpioConstants
  PROVE  Spec => []ClosedIsQuiet
  <1>1. PortInv => ClosedIsQuiet
    BY DEF PortInv, Sound, Quiet, ClosedIsQuiet, AtRest
  <1> QED
    BY <1>1, Starts, PortKept, PTL DEF Spec

(* ------------------------- the subsystem's driver ----------------------- *)

(* The steps of ss_gpio_close, and the types of the state. *)
SsEnds == {"close", "closeline"}
SsShapes ==
  [client : Clients, opn : 0 .. MaxOpen, opened : BOOLEAN, direction : SUBSET Bits, pin : SUBSET Bits,
   dr : SUBSET Bits, method : SUBSET Bits, inten : SUBSET Bits, types : SUBSET Bits, level : SUBSET Bits,
   line : BOOLEAN, raw : SUBSET Bits, req : SUBSET Bits, handlers : SUBSET Bits,
   at : {"idle", "dr", "method", "inten", "line"} \cup SsEnds, new : SUBSET Bits, mask : SUBSET Bits,
   set : SUBSET Bits, on : BOOLEAN, status : SUBSET Bits, todo : SUBSET Bits, want : SUBSET Bits,
   wanten : SUBSET Bits, wantlevel : SUBSET Bits, blurred : SUBSET Bits, raced : BOOLEAN,
   vague : SUBSET Bits, lost : SUBSET Bits]

(* DR is as wanted but for blurred bits, and so will be what is about to be*)
(* written to it.                                                          *)
SsOutputs(u) == /\ Ss!Differ(u.dr, u.want) \subseteq u.blurred
                /\ u.at = "dr" => /\ Ss!Differ(u.new, u.want) \subseteq u.blurred \cup u.mask
                                  /\ u.new \cap u.mask = u.set \cap u.mask
(* The method is on its way to INTEN and the interrupt after it.           *)
SsEnables(u) ==
  \/ u.raced
  \/ u.opn = 0 /\ u.at \in SsEnds \cup {"idle"}
  \/ /\ u.method = u.wanten
     /\ u.at \in {"idle", "dr", "method"} => u.inten = u.wanten /\ (u.inten = {} \/ u.line)
     /\ u.at = "method" => u.new \ u.mask = u.method \ u.mask /\ u.set = u.new \cap u.mask
     /\ u.at \in {"inten", "line"} => u.new = u.wanten
     /\ u.at = "line" => u.inten = u.wanten
(* A session opens the port once and closes it with its last user; from    *)
(* the write of INTEN on nobody is called.                                 *)
SsQuiet(u) ==
  /\ u.opn > 0 => u.opened /\ u.at \notin SsEnds
  /\ u.opn = 0 =>
       /\ u.at \in SsEnds \cup {"idle"}
       /\ u.at # "close" => ~ u.opened /\ u.inten = {} /\ u.wanten = {} /\ ~ u.on
       /\ u.at = "idle" => ~ u.line
(* The types in the port are those configured, but for vague bits. *)
SsTypes(u) == u.opn > 0 => Ss!Differ(u.level, u.wantlevel) \subseteq u.vague
SsSound(u) == u \in SsShapes /\ SsOutputs(u) /\ SsEnables(u) /\ SsQuiet(u) /\ SsTypes(u)
SsInv == SsSound(port)
(* The port has at least one bit: Init looks for the lowest. *)
Pins == Ss!SsGpioConstants /\ Bits # {}

(* The lowest bit of a set is one of it. *)
LEMMA SsLowestIs ==
  ASSUME Pins, NEW s \in SUBSET Bits, s # {}
  PROVE  Ss!Lowest(s) \in s
  <1>1. s \in SUBSET Nat
    BY DEF Pins, Ss!SsGpioConstants
  <1>2. PICK c \in s : \A d \in s : <<d, c>> \notin Less
    BY <1>1, WFMin, LessWellFounded
  <1>3. \A d \in s : ~ (d < c)
    BY <1>1, <1>2 DEF Less
  <1>4. \A d \in s : c <= d
    BY <1>1, <1>3
  <1> QED
    BY <1>4 DEF Ss!Lowest

(* The interrupts a client uses are the port's. *)
LEMMA SourcesAre ==
  ASSUME Pins
  PROVE  Ss!Sources \subseteq Bits
  <1> DEFINE s == {31 - b : b \in Bits}
  <1>0. Bits \subseteq 0 .. 31 /\ Bits # {}
    BY DEF Pins, Ss!SsGpioConstants
  <1>a. \A b \in Bits : 31 - b \in Nat /\ b \in Nat
    BY <1>0
  <1>b. \A d \in s : \E b \in Bits : d = 31 - b
    OBVIOUS
  <1>1. s \in SUBSET Nat /\ s # {}
    BY <1>0, <1>a, <1>b
  <1>2. PICK c \in s : \A d \in s : <<d, c>> \notin Less
    BY <1>1, WFMin, LessWellFounded
  <1>3. \A d \in s : ~ (d < c)
    BY <1>1, <1>2 DEF Less
  <1>4. PICK b \in Bits : c = 31 - b
    OBVIOUS
  <1>5. \A d \in Bits : 31 - d \in s
    OBVIOUS
  <1>6. \A d \in Bits : ~ (31 - d < 31 - b)
    BY <1>3, <1>4, <1>5
  <1>7. \A d \in Bits : d <= b
    <2> TAKE d \in Bits
    <2>1. d \in Nat /\ b \in Nat /\ ~ (31 - d < 31 - b)
      BY <1>a, <1>6
    <2> QED
      BY <2>1
  <1>8. (CHOOSE x \in Bits : \A c1 \in Bits : c1 <= x) \in Bits
    BY <1>7
  <1> QED
    BY <1>8 DEF Ss!Sources

(* The invariant holds before the first call. *)
LEMMA SsStarts ==
  ASSUME Pins, Ss!Init
  PROVE  SsInv
  <1>1. PICK client \in Clients, left \in {{}, {Ss!Lowest(Bits)}} :
          port = [client |-> client, opn |-> 0, opened |-> FALSE, direction |-> {}, pin |-> {}, dr |-> {},
                method |-> {}, inten |-> {}, types |-> {}, level |-> left, line |-> FALSE, raw |-> {}, req |-> {},
                handlers |-> IF "isr" \in client THEN {} ELSE Bits,
                at |-> "idle", new |-> {}, mask |-> {}, set |-> {}, on |-> FALSE, status |-> {},
                todo |-> {}, want |-> {}, wanten |-> {}, wantlevel |-> {}, blurred |-> {}, raced |-> FALSE,
                vague |-> {}, lost |-> {}]
    BY DEF Ss!Init
  <1>2. Ss!Lowest(Bits) \in Bits /\ 0 \in 0 .. MaxOpen
    BY SsLowestIs DEF Pins, Ss!SsGpioConstants
  <1>3. left \in SUBSET Bits /\ (IF "isr" \in client THEN {} ELSE Bits) \in SUBSET Bits
    BY <1>2
  <1>4. port \in SsShapes
    BY <1>1, <1>2, <1>3 DEF SsShapes
  <1> QED
    BY <1>1, <1>4 DEF SsInv, SsSound, SsOutputs, SsEnables, SsQuiet, SsTypes, SsEnds, Ss!Differ

(* ss_gpio_open: the first user opens the port, others are counted. *)
LEMMA SsOpenKept ==
  ASSUME Pins, SsInv, Ss!Open
  PROVE  SsInv'
  <1>1. PICK dir \in SUBSET Bits : port' = Ss!ss_gpio_open(port, dir)
    BY DEF Ss!Open, Ss!Set
  <1>2. port \in SsShapes /\ port.at = "idle" /\ ~ port.on
    BY DEF SsInv, SsSound, Ss!Open, Ss!Idle, Ss!Runs
  <1>3. port.opn \in Nat /\ port.opn + 1 \in 0 .. MaxOpen
    <2>1. port.opn \in 0 .. MaxOpen /\ MaxOpen \in Nat \ {0}
      BY <1>2 DEF SsShapes, Pins, Ss!SsGpioConstants
    <2>2. port.opn < MaxOpen \/ port.opn < 1
      BY DEF Ss!Open
    <2> QED
      BY <2>1, <2>2
  <1> DEFINE t == [port EXCEPT !.opn = port.opn + 1]
  <1>4. t \in SsShapes /\ t.opn = port.opn + 1
    BY <1>2, <1>3 DEF SsShapes
  <1>5. port' = IF t.opn > 1 \/ port.opened THEN t ELSE Ss!io_gpio_open(t, dir)
    BY <1>1 DEF Ss!ss_gpio_open
  <1>6. CASE port.opn > 0
    <2>1. port' = t
      BY <1>3, <1>4, <1>5, <1>6
    <2> QED
      BY <1>2, <1>3, <1>4, <1>6, <2>1, SMTT(60)
         DEF SsInv, SsSound, SsShapes, SsOutputs, SsEnables, SsQuiet, SsTypes
  <1>7. CASE port.opn = 0
    <2>1. ~ port.opened
      BY <1>2, <1>7 DEF SsInv, SsSound, SsQuiet
    <2>2. port' = [t EXCEPT !.opened = TRUE, !.direction = dir, !.method = {}, !.inten = {}, !.types = {}, !.line = TRUE,
            !.wanten = {}, !.wantlevel = {}, !.vague = t.level, !.raced = FALSE, !.req = {}, !.raw = {}, !.lost = {}]
      BY <1>3, <1>4, <1>5, <1>7, <2>1 DEF Ss!io_gpio_open
    <2>3. t.dr = port.dr /\ t.want = port.want /\ t.blurred = port.blurred /\ t.at = "idle"
      BY <1>2 DEF SsShapes
    <2> HIDE DEF t
    <2> DEFINE v == [t EXCEPT !.opened = TRUE, !.direction = dir, !.method = {}, !.inten = {}, !.types = {}, !.line = TRUE]
    <2>4. v \in SsShapes /\ t.level \in SUBSET Bits
      BY <1>4 DEF SsShapes
    <2>5. /\ v.opened /\ v.method = {} /\ v.inten = {} /\ v.line /\ v.opn = t.opn /\ v.level = t.level
          /\ v.dr = t.dr /\ v.want = t.want /\ v.blurred = t.blurred /\ v.at = t.at
      BY <1>4 DEF SsShapes
    <2>6. port' = [v EXCEPT !.wanten = {}, !.wantlevel = {}, !.vague = t.level, !.raced = FALSE, !.req = {},
                            !.raw = {}, !.lost = {}]
      BY <2>2
    <2> HIDE DEF v
    <2>7. port' \in SsShapes
      BY <2>4, <2>6, ZenonT(60) DEF SsShapes
    <2>8. /\ port'.opened /\ port'.method = {} /\ port'.inten = {} /\ port'.line /\ port'.opn = v.opn
          /\ port'.level = t.level /\ port'.wanten = {} /\ port'.wantlevel = {} /\ port'.vague = t.level
          /\ port'.dr = v.dr /\ port'.want = v.want /\ port'.blurred = v.blurred /\ port'.at = v.at
      BY <2>4, <2>5, <2>6 DEF SsShapes
    <2>9. SsOutputs(port')
      BY <2>3, <2>5, <2>8 DEF SsInv, SsSound, SsOutputs
    <2>10. SsEnables(port')
      BY <2>3, <2>5, <2>8 DEF SsEnables
    <2>11. SsQuiet(port') /\ SsTypes(port')
      BY <1>3, <1>4, <2>3, <2>5, <2>8 DEF SsQuiet, SsTypes, SsEnds, Ss!Differ
    <2> QED
      BY <2>7, <2>9, <2>10, <2>11 DEF SsInv, SsSound
  <1> QED
    BY <1>3, <1>6, <1>7

(* ss_gpio_close: the count is decreased, the last user starts the rest. *)
LEMMA SsCloseKept ==
  ASSUME Pins, SsInv, Ss!Close
  PROVE  SsInv'
  <1>1. port' = [port EXCEPT !.opn = port.opn - 1, !.at = IF port.opn = 1 THEN "close" ELSE "idle"]
    BY DEF Ss!Close, Ss!Set
  <1>2. port \in SsShapes /\ port.opn > 0 /\ port.at = "idle"
    BY DEF Ss!Close, Ss!Idle, SsInv, SsSound
  <1>3. port.opn - 1 \in 0 .. MaxOpen /\ port.opn \in Nat
    BY <1>2 DEF SsShapes, Pins, Ss!SsGpioConstants
  <1>4. port' \in SsShapes
    BY <1>1, <1>2, <1>3, ZenonT(60) DEF SsShapes, SsEnds
  <1> QED
    BY <1>1, <1>2, <1>3, <1>4 DEF SsInv, SsSound, SsShapes, SsOutputs, SsEnables, SsQuiet, SsTypes, SsEnds

(* The steps of the last close. *)
LEMMA SsClosingKept ==
  ASSUME Pins, SsInv, Ss!Closing
  PROVE  SsInv'
  <1>1. port \in SsShapes /\ port.opn = 0 /\ port.at \in SsEnds /\ ~ port.on
    BY DEF Ss!Closing, Ss!Runs, SsInv, SsSound, SsQuiet, SsShapes, SsEnds
  <1>2. CASE port.at = "close"
    <2>1. port' = [port EXCEPT !.inten = {}, !.wanten = {}, !.opened = FALSE, !.at = "closeline"]
      BY <1>2 DEF Ss!Closing, Ss!CloseStep, Ss!Set
    <2>2. port' \in SsShapes
      BY <1>1, <2>1, ZenonT(60) DEF SsShapes, SsEnds
    <2> QED
      BY <1>1, <2>1, <2>2 DEF SsInv, SsSound, SsShapes, SsOutputs, SsEnables, SsQuiet, SsTypes, SsEnds
  <1>3. CASE port.at = "closeline"
    <2>1. port' = [port EXCEPT !.line = FALSE, !.at = "idle"]
      BY <1>3 DEF Ss!Closing, Ss!CloseStep, Ss!Set
    <2>2. port' \in SsShapes
      BY <1>1, <2>1, ZenonT(60) DEF SsShapes
    <2> QED
      BY <1>1, <1>3, <2>1, <2>2 DEF SsInv, SsSound, SsShapes, SsOutputs, SsEnables, SsQuiet, SsTypes, SsEnds
  <1> QED
    BY <1>1, <1>2, <1>3 DEF SsEnds

(* A write of the thread: the pins are read. *)
LEMMA SsWriteKept ==
  ASSUME Pins, SsInv, Ss!Write
  PROVE  SsInv'
  <1>1. PICK b \in Bits : \E v \in SUBSET {b} :
          port' = [Ss!PinsRead(port, {b}) EXCEPT !.at = "dr", !.new = Ss!Merged(port.pin, {b}, v), !.mask = {b}, !.set = v]
    BY DEF Ss!Write, Ss!Set
  <1>2. PICK v \in SUBSET {b} :
          port' = [Ss!PinsRead(port, {b}) EXCEPT !.at = "dr", !.new = Ss!Merged(port.pin, {b}, v), !.mask = {b}, !.set = v]
    BY <1>1
  <1>3. port \in SsShapes /\ port.at = "idle" /\ port.opn > 0
    BY DEF SsInv, SsSound, Ss!Write, Ss!Asks, Ss!Idle
  <1> DEFINE new == Ss!Merged(port.pin, {b}, v)
             blurred == port.blurred \cup (Ss!Differ(port.pin, port.want) \ {b})
  <1>4. /\ new \in SUBSET Bits /\ blurred \in SUBSET Bits /\ {b} \in SUBSET Bits /\ v \in SUBSET Bits
        /\ port.blurred \subseteq blurred
        /\ Ss!Differ(new, port.want) \subseteq blurred \cup {b} /\ new \cap {b} = v \cap {b}
    BY <1>3 DEF Ss!Merged, Ss!Differ, SsShapes
  <1>5. port' = [port EXCEPT !.blurred = blurred, !.at = "dr", !.new = new, !.mask = {b}, !.set = v]
    BY <1>2 DEF Ss!PinsRead
  <1> HIDE DEF new, blurred
  <1>6. port' \in SsShapes
    BY <1>3, <1>4, <1>5, ZenonT(60) DEF SsShapes
  <1>7. SsOutputs(port')
    <2>1. /\ port'.dr = port.dr /\ port'.want = port.want /\ port'.blurred = blurred /\ port'.new = new
          /\ port'.mask = {b} /\ port'.set = v
      BY <1>3, <1>5 DEF SsShapes
    <2> QED
      BY <1>4, <2>1 DEF SsInv, SsSound, SsOutputs
  <1>8. SsEnables(port') /\ SsQuiet(port') /\ SsTypes(port')
    <2>1. port.opn \in Nat
      BY <1>3 DEF SsShapes
    <2> QED
      BY <1>3, <1>5, <2>1 DEF SsInv, SsSound, SsShapes, SsEnables, SsQuiet, SsTypes, SsEnds
  <1> QED
    BY <1>6, <1>7, <1>8 DEF SsInv, SsSound

(* A write to DR changes only DR, and what is wanted and known of it.      *)
Rest(u, v) ==
  /\ v.opn = u.opn /\ v.opened = u.opened /\ v.method = u.method /\ v.inten = u.inten /\ v.line = u.line
  /\ v.wanten = u.wanten /\ v.raced = u.raced /\ v.level = u.level /\ v.wantlevel = u.wantlevel
  /\ v.vague = u.vague /\ v.at = u.at /\ v.new = u.new /\ v.mask = u.mask /\ v.set = u.set /\ v.on = u.on
(* What a write does to DR: other bits of a word read before differ from   *)
(* what is wanted where they are blurred only.                             *)
LEMMA WrittenIs ==
  ASSUME NEW u \in SsShapes, NEW mask \in SUBSET Bits, NEW val \in SUBSET Bits, NEW dr \in SUBSET Bits,
         Ss!Differ(dr, u.want) \subseteq u.blurred \cup mask, dr \cap mask = val \cap mask
  PROVE  /\ Ss!Written(u, mask, val, dr) \in SsShapes
         /\ Ss!Differ(Ss!Written(u, mask, val, dr).dr, Ss!Written(u, mask, val, dr).want)
              \subseteq Ss!Written(u, mask, val, dr).blurred
         /\ Ss!Written(u, mask, val, dr).blurred = u.blurred \ mask
         /\ \A x \in Bits \ mask : x \in Ss!Differ(u.want, Ss!Written(u, mask, val, dr).want)
                                   => x \in Ss!Written(u, mask, val, dr).blurred
         /\ Rest(u, Ss!Written(u, mask, val, dr))
  <1> DEFINE blurred == u.blurred \ mask
             want == Ss!Merged(u.want, mask, val) \ blurred
             w == Ss!Written(u, mask, val, dr)
  <1>1. w = [u EXCEPT !.dr = dr, !.blurred = blurred, !.want = want]
    BY DEF Ss!Written
  <1>2. want \in SUBSET Bits /\ blurred \in SUBSET Bits
    BY DEF Ss!Merged, SsShapes
  <1>3. /\ Ss!Differ(dr, want) \subseteq blurred
        /\ \A x \in Bits \ mask : x \in Ss!Differ(u.want, want) => x \in blurred
    BY DEF Ss!Merged, Ss!Differ
  <1>4. blurred = u.blurred \ mask
    OBVIOUS
  <1> HIDE DEF want, blurred, w
  <1>5. w \in SsShapes /\ w.dr = dr /\ w.blurred = blurred /\ w.want = want /\ Rest(u, w)
    <2> DEFINE v == [u EXCEPT !.dr = dr, !.blurred = blurred, !.want = want]
    <2>1. v \in SsShapes
      BY <1>2 DEF SsShapes
    <2>2. v.dr = dr /\ v.blurred = blurred /\ v.want = want
      BY DEF SsShapes
    <2>3. Rest(u, v)
      BY DEF Rest, SsShapes
    <2>4. w = v
      BY <1>1
    <2> HIDE DEF v
    <2> QED
      BY <2>1, <2>2, <2>3, <2>4
  <1>6. /\ w \in SsShapes /\ Ss!Differ(w.dr, w.want) \subseteq w.blurred /\ w.blurred = u.blurred \ mask
        /\ \A x \in Bits \ mask : x \in Ss!Differ(u.want, w.want) => x \in w.blurred
        /\ Rest(u, w)
    BY <1>3, <1>4, <1>5
  <1> QED
    BY <1>6 DEF w

(* The word made of the pins is written. *)
LEMMA SsStoreDrKept ==
  ASSUME Pins, SsInv, Ss!StoreDr
  PROVE  SsInv'
  <1>1. port \in SsShapes /\ port.at = "dr" /\ SsOutputs(port) /\ port.opn # 0
    BY DEF SsInv, SsSound, SsQuiet, SsEnds, Ss!StoreDr
  <1> DEFINE w == Ss!Written(port, port.mask, port.set, port.new)
  <1>2. port' = [w EXCEPT !.at = "idle", !.new = {}, !.mask = {}, !.set = {}]
    BY DEF Ss!StoreDr, Ss!Set
  <1>3. /\ w \in SsShapes /\ Ss!Differ(w.dr, w.want) \subseteq w.blurred
        /\ Rest(port, w)
    <2>1. port.mask \in SUBSET Bits /\ port.set \in SUBSET Bits /\ port.new \in SUBSET Bits
      BY <1>1 DEF SsShapes
    <2>2. Ss!Differ(port.new, port.want) \subseteq port.blurred \cup port.mask /\ port.new \cap port.mask = port.set \cap port.mask
      BY <1>1 DEF SsOutputs
    <2> QED
      BY <1>1, <2>1, <2>2, WrittenIs
  <1> HIDE DEF w
  <1>4. /\ w.opn = port.opn /\ w.opened = port.opened /\ w.method = port.method /\ w.inten = port.inten
        /\ w.line = port.line /\ w.wanten = port.wanten /\ w.raced = port.raced /\ w.level = port.level
        /\ w.wantlevel = port.wantlevel /\ w.vague = port.vague
    BY <1>3 DEF Rest
  <1>5. port' \in SsShapes
    BY <1>2, <1>3 DEF SsShapes
  <1>6. /\ port'.opn = w.opn /\ port'.opened = w.opened /\ port'.method = w.method /\ port'.inten = w.inten
        /\ port'.line = w.line /\ port'.wanten = w.wanten /\ port'.raced = w.raced /\ port'.level = w.level
        /\ port'.wantlevel = w.wantlevel /\ port'.vague = w.vague /\ port'.at = "idle"
        /\ port'.dr = w.dr /\ port'.want = w.want /\ port'.blurred = w.blurred
    BY <1>2, <1>3 DEF SsShapes
  <1>7. SsOutputs(port') /\ SsTypes(port')
    BY <1>3, <1>4, <1>6 DEF SsInv, SsSound, SsOutputs, SsTypes
  <1>8. SsEnables(port') /\ SsQuiet(port')
    BY <1>1, <1>4, <1>6 DEF SsInv, SsSound, SsEnables, SsQuiet, SsEnds
  <1> QED
    BY <1>5, <1>7, <1>8 DEF SsInv, SsSound

(* The fields that the invariant is about besides the types. *)
Same(u, v) ==
  /\ v.opn = u.opn /\ v.opened = u.opened /\ v.method = u.method /\ v.inten = u.inten /\ v.line = u.line
  /\ v.wanten = u.wanten /\ v.raced = u.raced /\ v.level = u.level /\ v.wantlevel = u.wantlevel
  /\ v.vague = u.vague /\ v.at = u.at /\ v.dr = u.dr /\ v.want = u.want /\ v.blurred = u.blurred
  /\ v.new = u.new /\ v.mask = u.mask /\ v.set = u.set /\ v.client = u.client
(* The invariant looks at nothing else. *)
LEMMA SameSound ==
  ASSUME NEW u, SsSound(u), NEW v \in SsShapes, Same(u, v), u.on = v.on \/ u.inten # {} \/ ~ v.on
  PROVE  SsSound(v)
  BY DEF SsSound, SsOutputs, SsEnables, SsQuiet, SsTypes, Same

(* The steps that change other fields only: directions, handlers, pins, the *)
(* sources of events.                                                      *)
LEMMA SsQuietSteps ==
  ASSUME Pins, SsInv, Ss!SetDir \/ Ss!SetBitIsr \/ Ss!Event \/ Ss!Settle \/ Ss!Input
  PROVE  SsInv'
  <1>1. port \in SsShapes
    BY DEF SsInv, SsSound
  <1>2. PICK d \in SUBSET Bits, h \in SUBSET Bits, p \in SUBSET Bits, q \in SUBSET Bits, r \in SUBSET Bits, l \in SUBSET Bits :
          port' = [port EXCEPT !.direction = d, !.handlers = h, !.pin = p, !.req = q, !.raw = r, !.lost = l]
    <2>1. CASE Ss!SetDir
      <3>1. PICK m \in SUBSET Bits, out \in BOOLEAN :
              port' = [port EXCEPT !.direction = IF out THEN port.direction \cup m ELSE port.direction \ m]
        BY <2>1 DEF Ss!SetDir, Ss!Set
      <3> DEFINE d == IF out THEN port.direction \cup m ELSE port.direction \ m
      <3>2. d \in SUBSET Bits
        BY <1>1 DEF SsShapes
      <3> HIDE DEF d
      <3>3. port' = [port EXCEPT !.direction = d, !.handlers = port.handlers, !.pin = port.pin, !.req = port.req,
                                 !.raw = port.raw, !.lost = port.lost]
        BY <1>1, <3>1 DEF SsShapes, d
      <3> QED
        BY <1>1, <3>2, <3>3, ZenonT(60) DEF SsShapes
    <2>2. CASE Ss!SetBitIsr
      <3>1. PICK b \in Bits, on \in BOOLEAN :
              port' = [port EXCEPT !.handlers = IF on THEN port.handlers \cup {b} ELSE port.handlers \ {b}]
        BY <2>2 DEF Ss!SetBitIsr, Ss!Set
      <3> DEFINE h == IF on THEN port.handlers \cup {b} ELSE port.handlers \ {b}
      <3>2. h \in SUBSET Bits
        BY <1>1 DEF SsShapes
      <3> HIDE DEF h
      <3>3. port' = [port EXCEPT !.direction = port.direction, !.handlers = h, !.pin = port.pin, !.req = port.req,
                                 !.raw = port.raw, !.lost = port.lost]
        BY <1>1, <3>1 DEF SsShapes, h
      <3> QED
        BY <1>1, <3>2, <3>3, ZenonT(60) DEF SsShapes
    <2>3. CASE Ss!Event
      <3>1. PICK b \in Bits :
              port' = [port EXCEPT !.req = port.req \cup {b}, !.raw = port.raw \cup {b},
                         !.lost = IF b \in port.level THEN port.lost
                                  ELSE port.lost \cup ((port.status \ port.todo) \cap {b})]
        BY <1>1, <2>3 DEF Ss!Event, Ss!Set, SsShapes
      <3> DEFINE l == IF b \in port.level THEN port.lost ELSE port.lost \cup ((port.status \ port.todo) \cap {b})
                 q == port.req \cup {b}
                 r == port.raw \cup {b}
      <3>2. l \in SUBSET Bits /\ q \in SUBSET Bits /\ r \in SUBSET Bits
        BY <1>1 DEF SsShapes
      <3> HIDE DEF l, q, r
      <3>3. port' = [port EXCEPT !.direction = port.direction, !.handlers = port.handlers, !.pin = port.pin, !.req = q,
                                 !.raw = r, !.lost = l]
        BY <1>1, <3>1 DEF SsShapes, l, q, r
      <3> QED
        BY <1>1, <3>2, <3>3, ZenonT(60) DEF SsShapes
    <2>4. CASE Ss!Settle \/ Ss!Input
      <3>1. PICK p \in SUBSET Bits : port' = [port EXCEPT !.pin = p]
        <4>1. Ss!Merged(port.pin, port.direction, port.dr) \in SUBSET Bits
          BY <1>1 DEF Ss!Merged, SsShapes
        <4>2. \A b \in Bits : Ss!Differ(port.pin, {b}) \in SUBSET Bits
          BY <1>1 DEF Ss!Differ, SsShapes
        <4> QED
          BY <2>4, <4>1, <4>2 DEF Ss!Settle, Ss!Input, Ss!Set
      <3>2. port' = [port EXCEPT !.direction = port.direction, !.handlers = port.handlers, !.pin = p, !.req = port.req,
                                 !.raw = port.raw, !.lost = port.lost]
        BY <1>1, <3>1 DEF SsShapes
      <3> QED
        BY <1>1, <3>2, ZenonT(60) DEF SsShapes
    <2> QED
      BY <2>1, <2>2, <2>3, <2>4
  <1>3. port' \in SsShapes /\ Same(port, port') /\ port'.on = port.on
    BY <1>1, <1>2, ZenonT(60) DEF SsShapes, Same
  <1> QED
    BY <1>3, SameSound DEF SsInv

(* A call that configures a bit's interrupt. *)
LEMMA SsConfigKept ==
  ASSUME Pins, SsInv, Ss!SetIntCfg
  PROVE  SsInv'
  <1>1. port \in SsShapes
    BY DEF SsInv, SsSound
  <1>2. PICK b \in Bits, type \in SUBSET Bits : port' = Ss!SetBitIntCfg(port, {b}, type)
    BY DEF Ss!SetIntCfg, Ss!Set
  <1> DEFINE types == (port.types \ {b}) \cup type
             wanted == Ss!Merged(port.wantlevel, {b}, type)
             vague == Ss!Differ(types, wanted) \ {b}
             lost == port.lost \cup port.req
  <1>3. port' = [port EXCEPT !.types = types, !.level = types, !.wantlevel = wanted, !.vague = vague, !.lost = lost]
    BY <1>1, <1>2 DEF Ss!SetBitIntCfg, SsShapes
  <1>4. /\ types \in SUBSET Bits /\ wanted \in SUBSET Bits /\ vague \in SUBSET Bits /\ lost \in SUBSET Bits
        /\ Ss!Differ(types, wanted) \subseteq vague
    BY <1>1 DEF Ss!Merged, Ss!Differ, SsShapes
  <1> HIDE DEF types, wanted, vague, lost
  <1>5. port' \in SsShapes
    BY <1>1, <1>3, <1>4, ZenonT(60) DEF SsShapes
  <1>6. SsTypes(port')
    BY <1>1, <1>3, <1>4 DEF SsShapes, SsTypes
  <1>7. SsOutputs(port') /\ SsEnables(port') /\ SsQuiet(port')
    BY <1>1, <1>3 DEF SsInv, SsSound, SsShapes, SsOutputs, SsEnables, SsQuiet
  <1> QED
    BY <1>5, <1>6, <1>7 DEF SsInv, SsSound

(* The four steps of switching a bit's interrupt. *)
LEMMA SsBitIntKept ==
  ASSUME Pins, SsInv, Ss!BitInt
  PROVE  SsInv'
  <1>1. port \in SsShapes /\ port.at = "idle" /\ port.opn # 0 /\ port.opn > 0
    BY DEF SsInv, SsSound, Ss!BitInt, Ss!Asks, Ss!Idle
  <1>2. PICK b \in Bits, on \in BOOLEAN :
          port' = [port EXCEPT !.at = "method", !.new = IF on THEN port.method \cup {b} ELSE port.method \ {b},
                               !.mask = {b}, !.set = (IF on THEN port.method \cup {b} ELSE port.method \ {b}) \cap {b}]
    BY SourcesAre DEF Ss!BitInt, Ss!Set
  <1> DEFINE new == IF on THEN port.method \cup {b} ELSE port.method \ {b}
  <1>3. /\ new \in SUBSET Bits /\ {b} \in SUBSET Bits /\ new \cap {b} \in SUBSET Bits
        /\ new \ {b} = port.method \ {b}
    BY <1>1 DEF SsShapes
  <1> HIDE DEF new
  <1>4. port' = [port EXCEPT !.at = "method", !.new = new, !.mask = {b}, !.set = new \cap {b}]
    BY <1>2 DEF new
  <1>5. port' \in SsShapes
    BY <1>1, <1>3, <1>4, ZenonT(60) DEF SsShapes
  <1>6. SsEnables(port')
    BY <1>1, <1>3, <1>4 DEF SsInv, SsSound, SsShapes, SsEnables, SsQuiet, SsEnds
  <1>7. SsOutputs(port') /\ SsTypes(port') /\ SsQuiet(port')
    BY <1>1, <1>4 DEF SsInv, SsSound, SsShapes, SsOutputs, SsTypes, SsQuiet, SsEnds
  <1> QED
    BY <1>5, <1>6, <1>7 DEF SsInv, SsSound

(* The method is written, *)
LEMMA SsStoreMethodKept ==
  ASSUME Pins, SsInv, Ss!StoreMethod
  PROVE  SsInv'
  <1>1. port \in SsShapes /\ port.at = "method" /\ port.opn # 0
    BY DEF SsInv, SsSound, SsQuiet, SsEnds, Ss!StoreMethod
  <1> DEFINE wanten == Ss!Merged(port.wanten, port.mask, port.set)
  <1>2. port' = [port EXCEPT !.method = port.new, !.wanten = wanten, !.at = "inten", !.mask = {}, !.set = {}]
    BY DEF Ss!StoreMethod, Ss!Set
  <1>3. wanten \in SUBSET Bits
    BY <1>1 DEF Ss!Merged, SsShapes
  <1>4. ~ port.raced => wanten = port.new
    BY <1>1 DEF SsInv, SsSound, SsEnables, Ss!Merged
  <1> HIDE DEF wanten
  <1>5. port' \in SsShapes
    BY <1>1, <1>2, <1>3, ZenonT(60) DEF SsShapes
  <1>6. SsEnables(port')
    BY <1>1, <1>2, <1>4 DEF SsShapes, SsEnables
  <1>7. SsOutputs(port') /\ SsTypes(port') /\ SsQuiet(port')
    BY <1>1, <1>2 DEF SsInv, SsSound, SsShapes, SsOutputs, SsTypes, SsQuiet, SsEnds
  <1> QED
    BY <1>5, <1>6, <1>7 DEF SsInv, SsSound

(* ... then INTEN; the interrupt comes after it. *)
LEMMA SsStoreIntenKept ==
  ASSUME Pins, SsInv, Ss!StoreInten \/ Ss!Line
  PROVE  SsInv'
  <1>1. port \in SsShapes /\ port.at \in {"inten", "line"} /\ port.opn # 0
    BY DEF SsInv, SsSound, SsQuiet, SsEnds, Ss!StoreInten, Ss!Line
  <1>2. CASE Ss!StoreInten
    <2>1. port' = [port EXCEPT !.inten = port.new, !.at = "line", !.new = port.method] /\ port.at = "inten"
      BY <1>2 DEF Ss!StoreInten, Ss!Set
    <2>2. port' \in SsShapes
      BY <1>1, <2>1 DEF SsShapes
    <2> QED
      BY <1>1, <2>1, <2>2 DEF SsInv, SsSound, SsShapes, SsOutputs, SsEnables, SsQuiet, SsTypes, SsEnds
  <1>3. CASE Ss!Line
    <2>1. port' = [port EXCEPT !.line = (port.new # {}), !.new = {}, !.at = "idle"] /\ port.at = "line"
      BY <1>3 DEF Ss!Line, Ss!Set
    <2>2. port' \in SsShapes
      BY <1>1, <2>1, ZenonT(60) DEF SsShapes
    <2>3. SsOutputs(port') /\ SsTypes(port')
      BY <1>1, <2>1, ZenonT(60) DEF SsInv, SsSound, SsShapes, SsOutputs, SsTypes
    <2>4. SsEnables(port')
      BY <1>1, <2>1, ZenonT(60) DEF SsInv, SsSound, SsShapes, SsEnables, SsEnds
    <2>5. SsQuiet(port')
      BY <1>1, <2>1, ZenonT(60) DEF SsInv, SsSound, SsShapes, SsQuiet, SsEnds
    <2> QED
      BY <2>2, <2>3, <2>4, <2>5 DEF SsInv, SsSound
  <1> QED
    BY <1>2, <1>3

(* A handler's calls: it writes the whole method, and blurs its bit when it*)
(* comes between the thread's read of the pins and its write.              *)
LEMMA SsReactKept ==
  ASSUME Pins, NEW u, SsSound(u), u.on, NEW b \in Bits, NEW r \in Ss!Reactions(u)
  PROVE  SsSound(Ss!React(u, b, r))
  <1>1. /\ u \in SsShapes /\ (u.opn = 0 => u.at = "close")
        /\ u.at \in {"idle", "dr", "method", "inten", "line", "close", "closeline"}
    BY DEF SsSound, SsQuiet, SsShapes, SsEnds
  <1>2. CASE r = "none"
    BY <1>2 DEF Ss!React
  <1>3. CASE r = "write"
    <2> DEFINE t == Ss!PinsRead(u, {b})
               w == Ss!Written(t, {b}, {b}, Ss!Merged(u.pin, {b}, {b}))
               blurred == u.blurred \cup (Ss!Differ(u.pin, u.want) \ {b})
               dr == Ss!Merged(u.pin, {b}, {b})
    <2>1. Ss!React(u, b, r) = IF u.at = "dr" THEN [w EXCEPT !.blurred = w.blurred \cup {b}] ELSE w
      BY <1>3 DEF Ss!React, Ss!ss_gpio_write
    <2>2. t = [u EXCEPT !.blurred = blurred]
      BY DEF Ss!PinsRead
    <2>3. blurred \in SUBSET Bits /\ {b} \in SUBSET Bits /\ dr \in SUBSET Bits
          /\ Ss!Differ(dr, u.want) \subseteq blurred \cup {b} /\ dr \cap {b} = {b} \cap {b}
          /\ u.blurred \subseteq blurred
      BY <1>1 DEF Ss!Merged, Ss!Differ, SsShapes
    <2> HIDE DEF blurred
    <2>4. t \in SsShapes /\ t.want = u.want /\ t.blurred = blurred
      BY <1>1, <2>2, <2>3, SMTT(60) DEF SsShapes
    <2>5. w = Ss!Written(t, {b}, {b}, dr)
      OBVIOUS
    <2> HIDE DEF t, w, dr
    <2>6. /\ w \in SsShapes /\ Ss!Differ(w.dr, w.want) \subseteq w.blurred /\ w.blurred = blurred \ {b}
          /\ \A x \in Bits \ {b} : x \in Ss!Differ(u.want, w.want) => x \in w.blurred
          /\ Rest(t, w)
      <3>1. Ss!Differ(dr, t.want) \subseteq t.blurred \cup {b}
        BY <2>3, <2>4
      <3>2. /\ Ss!Written(t, {b}, {b}, dr) \in SsShapes
            /\ Ss!Differ(Ss!Written(t, {b}, {b}, dr).dr, Ss!Written(t, {b}, {b}, dr).want)
                 \subseteq Ss!Written(t, {b}, {b}, dr).blurred
            /\ Ss!Written(t, {b}, {b}, dr).blurred = t.blurred \ {b}
            /\ \A x \in Bits \ {b} : x \in Ss!Differ(t.want, Ss!Written(t, {b}, {b}, dr).want)
                                    => x \in Ss!Written(t, {b}, {b}, dr).blurred
            /\ Rest(t, Ss!Written(t, {b}, {b}, dr))
        BY <2>3, <2>4, <3>1, WrittenIs
      <3> QED
        BY <2>4, <2>5, <3>2
    <2> DEFINE v == Ss!React(u, b, r)
    <2>7. /\ w.opn = u.opn /\ w.opened = u.opened /\ w.method = u.method /\ w.inten = u.inten /\ w.line = u.line
          /\ w.wanten = u.wanten /\ w.raced = u.raced /\ w.level = u.level /\ w.wantlevel = u.wantlevel
          /\ w.vague = u.vague /\ w.at = u.at /\ w.new = u.new /\ w.mask = u.mask /\ w.set = u.set /\ w.on = u.on
      BY <1>1, <2>2, <2>3, <2>4, <2>6 DEF SsShapes, Rest
    <2>8. /\ v \in SsShapes /\ v.dr = w.dr /\ v.want = w.want
          /\ v.blurred = IF u.at = "dr" THEN w.blurred \cup {b} ELSE w.blurred
          /\ v.opn = w.opn /\ v.opened = w.opened /\ v.method = w.method /\ v.inten = w.inten /\ v.line = w.line
          /\ v.wanten = w.wanten /\ v.raced = w.raced /\ v.level = w.level /\ v.wantlevel = w.wantlevel
          /\ v.vague = w.vague /\ v.at = w.at /\ v.new = w.new /\ v.mask = w.mask /\ v.set = w.set /\ v.on = w.on
      <3>1. CASE u.at = "dr"
        <4>1. v = [w EXCEPT !.blurred = w.blurred \cup {b}] /\ w.blurred \cup {b} \in SUBSET Bits
          BY <2>1, <2>3, <2>6, <3>1 DEF SsShapes
        <4> HIDE DEF v
        <4> QED
          BY <2>6, <3>1, <4>1 DEF SsShapes
      <3>2. CASE u.at # "dr"
        BY <2>1, <2>6, <3>2
      <3> QED
        BY <3>1, <3>2
    <2> HIDE DEF v
    <2>9. SsOutputs(v)
      <3>1. Ss!Differ(v.dr, v.want) \subseteq v.blurred
        BY <2>6, <2>8
      <3>2. ASSUME v.at = "dr"
            PROVE  Ss!Differ(v.new, v.want) \subseteq v.blurred \cup v.mask
        <4>1. Ss!Differ(u.new, u.want) \subseteq u.blurred \cup u.mask /\ v.blurred = w.blurred \cup {b}
              /\ v.new = u.new /\ v.mask = u.mask /\ v.want = w.want
          BY <2>7, <2>8, <3>2 DEF SsSound, SsOutputs
        <4>2. u.blurred \subseteq w.blurred \cup {b}
          BY <2>3, <2>6
        <4>3. u.new \in SUBSET Bits /\ u.want \in SUBSET Bits /\ w.want \in SUBSET Bits
          BY <1>1, <2>6 DEF SsShapes
        <4>4. \A x \in Ss!Differ(u.new, w.want) : x \in Bits /\ (x \in Ss!Differ(u.new, u.want) \/ x \in Ss!Differ(u.want, w.want))
          BY <4>3 DEF Ss!Differ
        <4> QED
          BY <2>6, <4>1, <4>2, <4>4
      <3>3. v.at = "dr" => v.new \cap v.mask = v.set \cap v.mask
        BY <2>7, <2>8 DEF SsSound, SsOutputs
      <3> QED
        BY <3>1, <3>2, <3>3 DEF SsOutputs
    <2>10. SsEnables(v)
      BY <2>7, <2>8 DEF SsSound, SsEnables
    <2>11. SsQuiet(v) /\ SsTypes(v)
      BY <2>7, <2>8 DEF SsSound, SsQuiet, SsTypes
    <2> QED
      BY <2>8, <2>9, <2>10, <2>11 DEF SsSound, v
  <1>4. ASSUME NEW m \in SUBSET Bits
        PROVE  SsSound(Ss!SetMethod(u, m))
    <2> DEFINE v == Ss!SetMethod(u, m)
               raced == u.raced \/ u.at \in {"method", "inten", "line"}
               line == m # {}
    <2>1. v = [u EXCEPT !.method = m, !.inten = m, !.line = line, !.wanten = m, !.raced = raced]
      BY <1>1 DEF Ss!SetMethod, SsShapes
    <2>2. /\ line \in BOOLEAN /\ raced \in BOOLEAN /\ (u.raced => raced) /\ (m = {} \/ line)
          /\ u.at \in {"method", "inten", "line"} => raced
      BY <1>1 DEF SsShapes
    <2> HIDE DEF v, raced, line
    <2>3. v \in SsShapes
      BY <1>1, <2>1, <2>2, ZenonT(60) DEF SsShapes
    <2>4. /\ v.method = m /\ v.inten = m /\ v.line = line /\ v.wanten = m /\ v.raced = raced
          /\ v.opn = u.opn /\ v.opened = u.opened /\ v.level = u.level /\ v.wantlevel = u.wantlevel /\ v.vague = u.vague
          /\ v.at = u.at /\ v.new = u.new /\ v.mask = u.mask /\ v.set = u.set /\ v.on = u.on
          /\ v.dr = u.dr /\ v.want = u.want /\ v.blurred = u.blurred
      BY <1>1, <2>1 DEF SsShapes
    <2>5. SsOutputs(v) /\ SsTypes(v)
      BY <2>4 DEF SsSound, SsOutputs, SsTypes
    <2>6. SsEnables(v)
      <3>1. CASE u.at \in {"method", "inten", "line"}
        BY <2>2, <2>4, <3>1 DEF SsEnables
      <3>2. CASE u.at \notin {"method", "inten", "line"}
        BY <2>2, <2>4, <3>2 DEF SsEnables
      <3> QED
        BY <3>1, <3>2
    <2>7. SsQuiet(v)
      BY <1>1, <2>4 DEF SsSound, SsQuiet
    <2> QED
      BY <2>3, <2>5, <2>6, <2>7 DEF SsSound, v
  <1>5. CASE r # "none" /\ r # "write"
    <2>1. u.method \ {b} \in SUBSET Bits /\ u.method \cup Bits \in SUBSET Bits
      BY <1>1 DEF SsShapes
    <2>2. Ss!React(u, b, r) = Ss!SetMethod(u, u.method \ {b}) \/ Ss!React(u, b, r) = Ss!SetMethod(u, u.method \cup Bits)
      BY <1>5 DEF Ss!React
    <2> QED
      BY <1>4, <2>1, <2>2
  <1> QED
    BY <1>2, <1>3, <1>5

(* The interrupt routine: entry, the handlers, the end of interrupt. *)
LEMMA SsIsrKept ==
  ASSUME Pins, SsInv, Ss!Isr
  PROVE  SsInv'
  <1>1. port \in SsShapes
    BY DEF SsInv, SsSound
  <1>2. CASE Ss!Pending /\ Ss!Set(Ss!Enter(port))
    <2>1. port' = [port EXCEPT !.on = TRUE, !.status = Ss!Status(port), !.todo = Ss!Status(port)]
      BY <1>2 DEF Ss!Set, Ss!Enter
    <2>2. Ss!Status(port) \in SUBSET Bits /\ port.inten # {}
      BY <1>1, <1>2 DEF Ss!Pending, Ss!Status, SsShapes
    <2>3. port' \in SsShapes
      BY <1>1, <2>1, <2>2 DEF SsShapes
    <2>4. Same(port, port')
      BY <1>1, <2>1 DEF SsShapes, Same
    <2> QED
      BY <2>2, <2>3, <2>4, SameSound DEF SsInv
  <1>3. ASSUME port.on, port.todo # {}, NEW r \in Ss!Reactions(port), Ss!Set(Ss!ss_gpio_int_cb(port, r))
        PROVE  SsInv'
    <2> DEFINE b == Ss!Lowest(port.todo)
               t == [port EXCEPT !.todo = port.todo \ {b}]
               v == [t EXCEPT !.req = t.req \ {b}]
               w == [t EXCEPT !.lost = t.lost \cup {b}]
    <2>1. b \in Bits
      BY <1>1, <1>3, SsLowestIs DEF SsShapes
    <2>2. port' = IF b \in port.handlers THEN Ss!React(v, b, r) ELSE w
      BY <1>1, <1>3 DEF Ss!Set, Ss!ss_gpio_int_cb, SsShapes
    <2> HIDE DEF b
    <2>3. t \in SsShapes /\ Same(port, t) /\ t.on = port.on
      BY <1>1, <2>1 DEF SsShapes, Same
    <2>4. v \in SsShapes /\ Same(t, v) /\ v.on = t.on
      <3>1. t.req \ {b} \in SUBSET Bits
        BY <2>3 DEF SsShapes
      <3> HIDE DEF t
      <3> QED
        BY <2>3, <3>1 DEF SsShapes, Same
    <2>5. w \in SsShapes /\ Same(t, w) /\ w.on = t.on
      <3>1. t.lost \cup {b} \in SUBSET Bits
        BY <2>1, <2>3 DEF SsShapes
      <3> HIDE DEF t
      <3> QED
        BY <2>3, <3>1 DEF SsShapes, Same
    <2> HIDE DEF t, v, w
    <2>6. SsSound(v) /\ SsSound(w)
      BY <2>3, <2>4, <2>5, SameSound DEF SsInv
    <2>7. Ss!Reactions(v) = Ss!Reactions(port) /\ v.on
      BY <1>3, <2>3, <2>4 DEF Ss!Reactions, Same
    <2>8. SsSound(Ss!React(v, b, r))
      BY <1>3, <2>1, <2>6, <2>7, SsReactKept
    <2> QED
      BY <2>2, <2>6, <2>8 DEF SsInv
  <1>4. CASE port.on /\ Ss!Set(Ss!Eoi(port))
    <2>1. port' = [port EXCEPT !.raw = port.raw \ port.status, !.status = {}, !.on = FALSE]
      BY <1>1, <1>4 DEF Ss!Set, Ss!Eoi
    <2>2. port.raw \ port.status \in SUBSET Bits
      BY <1>1 DEF SsShapes
    <2>3. port' \in SsShapes /\ Same(port, port') /\ ~ port'.on
      BY <1>1, <2>1, <2>2 DEF SsShapes, Same
    <2> QED
      BY <2>3, SameSound DEF SsInv
  <1> QED
    BY <1>2, <1>3, <1>4 DEF Ss!Isr

(* Every step keeps the invariant. *)
LEMMA SsKept ==
  ASSUME Pins, SsInv, [Ss!Next]_port
  PROVE  SsInv'
  <1>1. CASE UNCHANGED port
    BY <1>1 DEF SsInv
  <1>2. CASE Ss!Next
    BY <1>2, SsOpenKept, SsCloseKept, SsClosingKept, SsWriteKept, SsStoreDrKept, SsQuietSteps, SsConfigKept, SsBitIntKept,
       SsStoreMethodKept, SsStoreIntenKept, SsIsrKept DEF Ss!Next
  <1> QED
    BY <1>1, <1>2

(* ---------------- theorems about the subsystem's driver ----------------- *)

(* The registers and the words of gpio.c and ss_gpio.c keep their types.   *)
THEOREM SsPortTypes ==
  ASSUME Pins
  PROVE  Ss!Spec => []Ss!TypeOK
  <1>1. SsInv => Ss!TypeOK
    BY DEF SsInv, SsSound, SsShapes, SsEnds, Ss!TypeOK
  <1> QED
    BY <1>1, SsStarts, SsKept, PTL DEF Ss!Spec

(* ss_gpio_write makes the word it writes of the pins' levels: at rest a   *)
(* bit of DR is what the last write to it made it, unless an output's pin  *)
(* had not settled when another bit was written, or a handler came between.*)
THEOREM SsOutputsKept ==
  ASSUME Pins
  PROVE  Ss!Spec => []Ss!OutputsAsWritten
  <1>1. SsInv => Ss!OutputsAsWritten
    BY DEF SsInv, SsSound, SsOutputs, Ss!OutputsAsWritten
  <1> QED
    BY <1>1, SsStarts, SsKept, PTL DEF Ss!Spec

(* At rest the port interrupts for the bits asked for (ss_gpio.c's method  *)
(* reaches INTEN), unless a handler changed the method during the thread's *)
(* call.                                                                   *)
THEOREM SsEnablesKept ==
  ASSUME Pins
  PROVE  Ss!Spec => []Ss!EnablesAsAsked
  <1>1. SsInv => Ss!EnablesAsAsked
    BY DEF SsInv, SsSound, SsEnables, SsQuiet, Ss!EnablesAsAsked, Ss!AtRest
  <1> QED
    BY <1>1, SsStarts, SsKept, PTL DEF Ss!Spec

(* ss_gpio.c counts users and gpio.c opens the port: at rest the port is   *)
(* open exactly while there are users, and closed it interrupts nobody.    *)
THEOREM SsClosedPortQuiet ==
  ASSUME Pins
  PROVE  Ss!Spec => []Ss!ClosedIsQuiet
  <1>1. SsInv => Ss!ClosedIsQuiet
    BY DEF SsInv, SsSound, SsShapes, SsQuiet, SsEnds, Ss!ClosedIsQuiet, Ss!AtRest
  <1> QED
    BY <1>1, SsStarts, SsKept, PTL DEF Ss!Spec

(* The interrupt types in the port are those configured, but for bits that *)
(* gpio_open left as an earlier session had them or a call for other bits  *)
(* named.                                                                  *)
THEOREM SsTypesKept ==
  ASSUME Pins
  PROVE  Ss!Spec => []Ss!TypesAsConfigured
  <1>1. SsInv => Ss!TypesAsConfigured
    BY DEF SsInv, SsSound, SsTypes, Ss!TypesAsConfigured
  <1> QED
    BY <1>1, SsStarts, SsKept, PTL DEF Ss!Spec
=============================================================================
