------------------------------- MODULE SpiFlash ------------------------------
(***************************************************************************)
(* The driver of the W25Qxx flash chips                                    *)
(* (device/peripheral/flash/w25qxx/spi_flash_w25qxx.c).  A call is a       *)
(* sequence of SPI commands, one per step; between two of them the chip may*)
(* finish what it was told, and a command may fail on the bus.  A byte of  *)
(* the memory is Old, Erased or its position in the data written.          *)
(***************************************************************************)
EXTENDS Integers

CONSTANTS Size, Sector, Page,      \* of the chip, in bytes
          Erases, Writes,          \* calls: pairs of address and size
          MaxCalls, MaxFails       \* bounds

VARIABLE flash

Range(address, size) == {(address + i) % Size : i \in 0 .. size - 1}
SpiFlashConstants == /\ Page > 0 /\ Sector % Page = 0 /\ Size % Sector = 0
                     /\ \A r \in Erases \cup Writes : r[1] \in 0 .. Size - 1 /\ r[2] \in 0 .. Size - r[1]
                     /\ \A r \in Erases : r[2] > 0
Addresses == 0 .. Size - 1
Old == -2
Erased == -1

(* What a call with these arguments promises to make of memory m.          *)
Sectors(address, size) == {a \in Addresses : \E b \in Range(address, size) : a \div Sector = b \div Sector}
Scope(op, address, size) == IF op = "erase" THEN Sectors(address, size) ELSE Range(address, size)
Promised(m, op, address, size) ==
  [a \in Addresses |-> IF a \notin Scope(op, address, size) THEN m[a]
                       ELSE IF op = "erase" THEN Erased ELSE a - address]

(* mem, busy, wel, prot: the chip, its write enable latch and protection   *)
(* bits, which a board may wire so that they cannot be cleared ("hard").   *)
(* address, size, first, last: the routine's variables; data: how much has *)
(* been sent.  from, len: its arguments.                                   *)
(* want: memory as the calls that returned make it; excess: what an erase  *)
(* whose end is a sector's end takes with it; ignored: the chip was told to*)
(* erase or program when it would not; failed: some call has; garbled: a   *)
(* read returned while the chip was busy.                                  *)
Init == \E prot \in {"none", "soft", "hard"} :
  flash = [mem |-> [a \in Addresses |-> Old], busy |-> "no", wel |-> FALSE, prot |-> prot,
           at |-> "idle", op |-> "none", address |-> 0, size |-> 0, first |-> 0, last |-> 0, data |-> 0,
           from |-> 0, len |-> 0, calls |-> 0, fails |-> 0,
           want |-> [a \in Addresses |-> Old], excess |-> {}, ignored |-> FALSE, failed |-> FALSE, garbled |-> FALSE]

Set(h) == flash' = h
To(at) == Set([flash EXCEPT !.at = at])
Busy == flash.busy # "no"

(* ------------------------------ the chip -------------------------------- *)

Done == Busy /\ Set([flash EXCEPT !.busy = "no", !.wel = FALSE,
                                  !.prot = IF flash.busy = "status" /\ @ = "soft" THEN "none" ELSE @])
(* It executes an operation only if it is idle and enabled; a protected one*)
(* is left out by the code, which does not go on before the bits are clear.*)
Execute(h, operation, m) ==
  IF ~ Busy /\ flash.wel THEN [h EXCEPT !.busy = operation, !.mem = m] ELSE [h EXCEPT !.ignored = TRUE]

(* -------------------------- what the calls share ------------------------ *)

(* A command failed: every caller returns -1 at once.                      *)
Fails == /\ flash.at # "idle" /\ flash.fails < MaxFails
         /\ Set([flash EXCEPT !.at = "idle", !.fails = @ + 1, !.failed = TRUE,
                              !.want = [a \in Addresses |-> IF a \in Scope(flash.op, flash.from, flash.len)
                                                            THEN flash.mem[a] ELSE @[a]]])
(* w25qxx_wait_ready: one turn of its loop.                                *)
WaitReady(at, then) == flash.at = at /\ To(IF Busy THEN at ELSE then)

(* w25qxx_write_enable, one command per step.                              *)
Wren == /\ flash.at = "wren"
        /\ Set([flash EXCEPT !.wel = @ \/ ~ Busy, !.at = "status"])
(* Mutant: any status with the latch set is accepted. *)
Status_Latch == /\ flash.at = "status"
                /\ To(IF flash.wel /\ flash.prot # "none" THEN "wrsr" ELSE IF flash.wel THEN "ready" ELSE "wren")
Status == /\ flash.at = "status"
          /\ To(IF flash.wel /\ flash.prot # "none" THEN "wrsr"
                ELSE IF flash.wel /\ ~ Busy THEN "ready" ELSE "wren")
(* Mutant: the protection bits are not written. *)
ClearProtection_Not == flash.at = "wrsr" /\ To("wren")
ClearProtection == /\ flash.at = "wrsr"
                   /\ Set([flash EXCEPT !.busy = IF ~ Busy /\ flash.wel THEN "status" ELSE @, !.at = "wren"])

(* ------------------------------- the calls ------------------------------ *)

Start(op, r, h) == /\ flash.at = "idle" /\ flash.calls < MaxCalls
                   /\ Set([h EXCEPT !.op = op, !.from = r[1], !.len = r[2], !.size = r[2], !.calls = @ + 1, !.data = 0])
SectorOf(address) == (address \div Sector) * Sector
(* The last sector is the one of address + size, the byte behind the range.*)
w25qxx_erase(r) ==
  Start("erase", r, [flash EXCEPT !.at = "wren", !.address = SectorOf(r[1]), !.last = SectorOf(r[1] + r[2]),
                       !.excess = IF (r[1] + r[2]) % Sector = 0 THEN @ \cup Sectors((r[1] + r[2]) % Size, 1) ELSE @])
Erase == /\ flash.at = "cmd" /\ flash.op = "erase"
         /\ LET target == Sectors(flash.address % Size, 1)
                m == [a \in Addresses |-> IF a \in target THEN Erased ELSE flash.mem[a]]
            IN Set(Execute([flash EXCEPT !.address = @ + Sector,
                              !.at = IF flash.address + Sector <= flash.last THEN "wren" ELSE "last"], "erase", m))

(* Mutant: the first part may be a whole page. *)
Rest_Page(address) == Page
(* What is left of the page.                                               *)
Rest(address) == Page - (address % Page)
w25qxx_write(r) ==
  Start("write", r, [flash EXCEPT !.at = "entry", !.address = r[1], !.first = Rest(r[1]),
                       !.excess = @ \ Range(r[1], r[2])])
Lesser(i, j) == IF i < j THEN i ELSE j
(* Within the page the chip goes on at the page's start.  A command without*)
(* data programs nothing.                                                  *)
InPage(address, i) == ((address \div Page) * Page) + ((address + i) % Page)
Program ==
  /\ flash.at = "cmd" /\ flash.op = "write"
  /\ LET n == Lesser(flash.first, flash.size)
         m == [a \in Addresses |-> IF \E i \in 0 .. n - 1 : a = InPage(flash.address, i)
                                   THEN flash.data + (CHOOSE i \in 0 .. n - 1 : a = InPage(flash.address, i))
                                   ELSE flash.mem[a]]
         h == [flash EXCEPT !.size = @ - n, !.address = @ + n, !.data = @ + n, !.first = Page,
                            !.at = IF flash.size > n THEN "wren" ELSE "last"]
     IN Set(IF n = 0 THEN h ELSE Execute(h, "program", m))
(* Both end by waiting for the chip.                                       *)
Returns(h) == [h EXCEPT !.at = "idle", !.want = Promised(@, h.op, h.from, h.len)]
(* Mutant: the call returns while the chip is at work. *)
WaitLast_Not == flash.at = "last" /\ Set(Returns(flash))
WaitLast == flash.at = "last" /\ Set(IF Busy THEN flash ELSE Returns(flash))

(* One command, whatever the chip is doing; a busy chip does not answer.   *)
w25qxx_read == /\ flash.at = "idle" /\ Set([flash EXCEPT !.garbled = @ \/ Busy])

Commands == Wren \/ Status \/ ClearProtection \/ Erase \/ Program \/ WaitLast
            \/ WaitReady("entry", "wren") \/ WaitReady("ready", "cmd")
Next == \/ Done \/ Fails \/ Commands \/ w25qxx_read
        \/ \E r \in Erases : w25qxx_erase(r)
        \/ \E r \in Writes : w25qxx_write(r)
Spec == Init /\ [][Next]_flash
(* The chip finishes what it does; a call goes on.                         *)
Fairness == /\ []<>(~ Busy) \/ []<><<Done>>_flash
            /\ []<>(flash.at = "idle") \/ []<><<Commands>>_flash

(* ------------------------------ properties ------------------------------ *)

(* Every field keeps its type.                                             *)
TypeOK == /\ flash.mem \in [Addresses -> -2 .. Size - 1]
          /\ flash.want \in [Addresses -> -2 .. Size - 1]
          /\ flash.busy \in {"no", "erase", "program", "status"} /\ flash.prot \in {"none", "soft", "hard"}
          /\ flash.at \in {"idle", "entry", "wren", "status", "wrsr", "ready", "cmd", "last"}
          /\ flash.excess \subseteq Addresses

(* What the calls that returned promise is in the chip: a write puts each  *)
(* byte in its place, an erase takes the sectors of its range, and a call, *)
(* also one that fails half-way, touches nothing outside its range; but an *)
(* erase whose range ends with a sector takes the next one too (from the   *)
(* last sector on: the first).                                             *)
MemoryAsAsked ==
  \A a \in Addresses : \/ flash.mem[a] = flash.want[a]
                      \/ a \in flash.excess
                      \/ (flash.at # "idle" /\ a \in Scope(flash.op, flash.from, flash.len))
(* The chip is never told to erase or program when it would not, and what  *)
(* w25qxx_read returns is what the chip holds, unless a call that failed   *)
(* left it at work.                                                        *)
ChipReady == ~ flash.ignored /\ (flash.garbled => flash.failed)
(* What w25qxx_write and w25qxx_erase promise is in the chip, and the chip *)
(* obeys each of their commands, but for what the two properties name.     *)
FlashAsAsked == MemoryAsAsked /\ ChipReady
(* A call is at work; it never ends if the bits cannot be cleared.         *)
InCall == flash.at # "idle" /\ flash.prot # "hard"
=============================================================================
