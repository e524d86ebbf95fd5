---------------------------- MODULE RangeProofs ----------------------------
(***************************************************************************)
(* Proofs about the two components whose calls work on a range of memory in*)
(* blocks of it: the driver of the flash chips (sectors and pages, for any *)
(* chip and calls) and the maintenance of the caches (lines, for any number*)
(* of addresses, any lines and calls).  The two share their arithmetic only*)
(***************************************************************************)
EXTENDS ArcCache, SequenceTheorems, TLAPS

CONSTANTS Size, Sector, Page, Erases, Writes, MaxCalls, MaxFails
VARIABLE flash
Flash == INSTANCE SpiFlash

(* ------------------------------ arithmetic ------------------------------ *)

LEMMA Divide ==
  ASSUME NEW n \in Nat \ {0}, NEW x \in Nat
  PROVE  x \div n \in Nat /\ x % n \in 0 .. n - 1 /\ x = (x \div n) * n + (x % n)
  OBVIOUS

LEMMA Quotient ==
  ASSUME NEW n \in Nat \ {0}, NEW q \in Nat, NEW x \in Nat, q * n <= x, x < q * n + n
  PROVE  x \div n = q
  OBVIOUS

LEMMA Times ==
  ASSUME NEW n \in Nat \ {0}, NEW p \in Nat, NEW q \in Nat
  PROVE  /\ p * n \in Nat /\ (p + 1) * n = p * n + n
         /\ p <= q => p * n <= q * n
         /\ p < q => p * n + n <= q * n
  <1>1. \A x, y \in Nat : (x + y) * n = x * n + y * n /\ x * n \in Nat
    OBVIOUS
  <1>2. (p + 1) * n = p * n + n /\ p * n \in Nat
    BY <1>1
  <1>3. p <= q => p * n <= q * n
    <2> HAVE p <= q
    <2>1. q - p \in Nat /\ q = p + (q - p)
      OBVIOUS
    <2>2. q * n = p * n + (q - p) * n /\ (q - p) * n \in Nat
      BY <1>1, <2>1
    <2> QED
      BY <1>2, <2>2
  <1>4. p < q => p * n + n <= q * n
    <2> HAVE p < q
    <2>1. q - (p + 1) \in Nat /\ q = (p + 1) + (q - (p + 1))
      OBVIOUS
    <2>2. q * n = (p + 1) * n + (q - (p + 1)) * n /\ (q - (p + 1)) * n \in Nat
      BY <1>1, <2>1
    <2> QED
      BY <1>2, <2>2
  <1> QED
    BY <1>2, <1>3, <1>4

(* ----------------------- the flash chip's driver ------------------------ *)

(* The chip has memory, and the calls stay in it. *)
Chip == Flash!SpiFlashConstants /\ Size \in Nat \ {0} /\ Sector \in Nat \ {0} /\ Page \in Nat \ {0}

(* ------------------------------ the invariant --------------------------- *)

FlashShapes ==
  [mem : [Flash!Addresses -> -2 .. Size - 1], want : [Flash!Addresses -> -2 .. Size - 1],
   busy : {"no", "erase", "program", "status"}, wel : BOOLEAN, prot : {"none", "soft", "hard"},
   at : {"idle", "entry", "wren", "status", "wrsr", "ready", "cmd", "last"},
   op : {"none", "erase", "write"}, address : Nat, size : Nat, first : Nat, last : Nat, data : Nat,
   from : Nat, len : Nat, calls : Int, fails : Int, excess : SUBSET Flash!Addresses,
   ignored : BOOLEAN, failed : BOOLEAN, garbled : BOOLEAN]

(* What is outside the range of a call is as the calls before left it. *)
Kept(f) == \A a \in Flash!Addresses : \/ f.mem[a] = f.want[a]
                                      \/ a \in f.excess
                                      \/ f.at # "idle" /\ a \in Flash!Scope(f.op, f.from, f.len)
(* The chip is enabled and idle from the last status of w25qxx_write_enable*)
(* to the command, and idle between calls that did not fail.               *)
Enabled(f) == /\ f.at \in {"ready", "cmd"} => f.busy = "no" /\ f.wel
              /\ f.at = "idle" /\ f.busy # "no" => f.failed
              /\ f.garbled => f.failed
              /\ ~ f.ignored
(* Aligned: the first byte of a sector. *)
Aligned(x) == x = Flash!SectorOf(x)
(* An erase has done the sectors below address, from the first one of its  *)
(* range to, at the end, the one of the byte behind the range.             *)
Erasing(f) ==
  /\ f.len > 0 /\ f.from + f.len <= Size
  /\ f.last = Flash!SectorOf(f.from + f.len) /\ Aligned(f.address) /\ Flash!SectorOf(f.from) <= f.address
  /\ IF f.at = "last" THEN f.address = f.last + Sector ELSE f.address <= f.last
  /\ \A a \in Flash!Sectors(f.from, f.len) : a < f.address => f.mem[a] = Flash!Erased
  /\ Aligned(f.from + f.len) => Flash!Sectors((f.from + f.len) % Size, 1) \subseteq f.excess
(* A write has put data bytes in their places, and the next command ends   *)
(* with the page at the latest.                                            *)
Writing(f) ==
  /\ f.from + f.len <= Size
  /\ f.address = f.from + f.data /\ f.size + f.data = f.len
  /\ IF f.at = "last" THEN f.size = 0 ELSE f.first = Flash!Rest(f.address)
  /\ \A a \in f.from .. f.from + f.data - 1 : f.mem[a] = a - f.from

FlashSound(f) ==
  /\ Kept(f) /\ Enabled(f)
  /\ f.at # "idle" => \/ f.op = "erase" /\ Erasing(f)
                      \/ f.op = "write" /\ Writing(f)
FlashInv == flash \in FlashShapes /\ FlashSound(flash)

(* -------------------------- sectors and pages --------------------------- *)

LEMMA SectorIs ==
  ASSUME Chip, NEW a \in Nat
  PROVE  /\ Flash!SectorOf(a) \in Nat /\ Flash!SectorOf(a) <= a /\ a < Flash!SectorOf(a) + Sector
         /\ Aligned(Flash!SectorOf(a))
  <1>1. Sector \in Nat \ {0}
    BY DEF Chip
  <1>2. \A x \in Nat : x \div Sector \in Nat /\ Flash!SectorOf(x) = (x \div Sector) * Sector
                       /\ Flash!SectorOf(x) \in Nat /\ Flash!SectorOf(x) <= x /\ x < Flash!SectorOf(x) + Sector
    BY <1>1, Divide DEF Flash!SectorOf
  <1>3. Flash!SectorOf(a) \div Sector = a \div Sector
    <2> DEFINE q == a \div Sector
               s == Flash!SectorOf(a)
    <2>1. q \in Nat /\ s \in Nat /\ s = q * Sector
      BY <1>2
    <2> HIDE DEF q, s
    <2>2. s \div Sector = q
      BY <1>1, <2>1, Quotient
    <2> QED
      BY <2>2 DEF q, s
  <1> QED
    BY <1>2, <1>3 DEF Aligned, Flash!SectorOf

LEMMA InSector ==
  ASSUME Chip, NEW s \in Nat, Aligned(s), NEW a \in Nat, s <= a, a < s + Sector
  PROVE  Flash!SectorOf(a) = s
  <1>1. Sector \in Nat \ {0} /\ s \div Sector \in Nat /\ s = (s \div Sector) * Sector
    BY Divide DEF Chip, Aligned, Flash!SectorOf
  <1>2. a \div Sector = s \div Sector
    BY <1>1, Quotient
  <1> QED
    BY <1>1, <1>2 DEF Flash!SectorOf

LEMMA NextSector ==
  ASSUME Chip, NEW s \in Nat, Aligned(s)
  PROVE  Aligned(s + Sector)
  <1> DEFINE q == s \div Sector
  <1>1. Sector \in Nat \ {0} /\ q \in Nat /\ s = q * Sector
    BY Divide DEF Chip, Aligned, Flash!SectorOf
  <1>2. (q + 1) * Sector = q * Sector + Sector
    <2> HIDE DEF q
    <2> QED
      BY <1>1
  <1>3. (s + Sector) \div Sector = q + 1
    BY <1>1, <1>2, Quotient
  <1> QED
    BY <1>1, <1>2, <1>3 DEF Aligned, Flash!SectorOf

LEMMA SameSector ==
  ASSUME Chip, NEW a \in Nat, NEW b \in Nat
  PROVE  a \div Sector = b \div Sector <=> Flash!SectorOf(a) = Flash!SectorOf(b)
  <1>1. Sector \in Nat \ {0} /\ a \div Sector \in Nat /\ b \div Sector \in Nat
    BY Divide DEF Chip
  <1>2. \A n \in Nat \ {0} : \A p, q \in Nat : p * n = q * n => p = q
    OBVIOUS
  <1> QED
    BY <1>1, <1>2 DEF Flash!SectorOf

(* An earlier byte is in an earlier sector or in the same. *)
LEMMA SectorsInOrder ==
  ASSUME Chip, NEW a \in Nat, NEW b \in Nat, a <= b
  PROVE  Flash!SectorOf(a) <= Flash!SectorOf(b)
  <1>1. /\ Flash!SectorOf(a) \in Nat /\ Flash!SectorOf(a) <= a /\ Aligned(Flash!SectorOf(a))
        /\ Flash!SectorOf(b) \in Nat /\ b < Flash!SectorOf(b) + Sector /\ Aligned(Flash!SectorOf(b))
    BY SectorIs
  <1>2. Flash!SectorOf(b) < Flash!SectorOf(a) => Flash!SectorOf(Flash!SectorOf(a)) = Flash!SectorOf(b)
    <2> HAVE Flash!SectorOf(b) < Flash!SectorOf(a)
    <2>1. Sector \in Nat
      BY DEF Chip
    <2>2. Flash!SectorOf(a) < Flash!SectorOf(b) + Sector
      BY <1>1, <2>1
    <2> QED
      BY <1>1, <2>2, InSector
  <1> QED
    BY <1>1, <1>2 DEF Aligned

LEMMA AlignedIs ==
  ASSUME Chip, NEW a \in Nat
  PROVE  a % Sector = 0 <=> Aligned(a)
  <1>1. Sector \in Nat \ {0}
    BY DEF Chip
  <1>2. a \div Sector \in Nat /\ a % Sector \in 0 .. Sector - 1 /\ a = Flash!SectorOf(a) + (a % Sector)
        /\ Flash!SectorOf(a) \in Nat
    BY <1>1, Divide, SectorIs DEF Flash!SectorOf
  <1> QED
    BY <1>2 DEF Aligned

LEMMA RangeIs ==
  ASSUME Chip, NEW from \in Nat, NEW len \in Nat, from + len <= Size
  PROVE  Flash!Range(from, len) = from .. from + len - 1
  <1>1. \A n \in Nat \ {0} : \A x \in 0 .. n - 1 : x % n = x
    OBVIOUS
  <1>2. Size \in Nat \ {0}
    BY DEF Chip
  <1>3. \A i \in 0 .. len - 1 : (from + i) % Size = from + i
    <2> TAKE i \in 0 .. len - 1
    <2>1. from + i \in 0 .. Size - 1
      BY <1>2
    <2> QED
      BY <1>1, <1>2, <2>1
  <1>4. Flash!Range(from, len) = {from + i : i \in 0 .. len - 1}
    BY <1>3 DEF Flash!Range
  <1>5. \A x \in from .. from + len - 1 : x - from \in 0 .. len - 1 /\ x = from + (x - from)
    OBVIOUS
  <1> QED
    BY <1>4, <1>5

(* The sectors of a range that is not empty. *)
LEMMA SectorsIs ==
  ASSUME Chip, NEW from \in Nat, NEW len \in Nat \ {0}, from + len <= Size, NEW a \in Flash!Addresses
  PROVE  a \in Flash!Sectors(from, len) <=> /\ Flash!SectorOf(from) <= a
                                            /\ a < Flash!SectorOf(from + len - 1) + Sector
  <1>0. Size \in Nat \ {0} /\ Sector \in Nat \ {0} /\ a \in Nat /\ from + len - 1 \in Nat
    BY DEF Chip, Flash!Addresses
  <1>1. a \in Flash!Sectors(from, len) <=> \E b \in from .. from + len - 1 : Flash!SectorOf(a) = Flash!SectorOf(b)
    <2>1. \A b \in from .. from + len - 1 : b \in Nat
      OBVIOUS
    <2> QED
      BY <1>0, <2>1, RangeIs, SameSector, ZenonT(60) DEF Flash!Sectors
  <1>2. ASSUME NEW b \in from .. from + len - 1, Flash!SectorOf(a) = Flash!SectorOf(b)
        PROVE  Flash!SectorOf(from) <= a /\ a < Flash!SectorOf(from + len - 1) + Sector
    <2>1. b \in Nat /\ from <= b /\ b <= from + len - 1
      OBVIOUS
    <2>2. Flash!SectorOf(from) <= Flash!SectorOf(b) /\ Flash!SectorOf(b) <= Flash!SectorOf(from + len - 1)
      BY <1>0, <2>1, SectorsInOrder
    <2>3. /\ Flash!SectorOf(a) \in Nat /\ Flash!SectorOf(a) <= a /\ a < Flash!SectorOf(a) + Sector
          /\ Flash!SectorOf(from) \in Nat /\ Flash!SectorOf(from + len - 1) \in Nat
      BY <1>0, SectorIs
    <2> QED
      BY <1>0, <1>2, <2>2, <2>3
  <1>3. ASSUME Flash!SectorOf(from) <= a, a < Flash!SectorOf(from + len - 1) + Sector
        PROVE  \E b \in from .. from + len - 1 : Flash!SectorOf(a) = Flash!SectorOf(b)
    <2>1. /\ Flash!SectorOf(from) \in Nat /\ from < Flash!SectorOf(from) + Sector /\ Aligned(Flash!SectorOf(from))
          /\ Flash!SectorOf(from + len - 1) \in Nat /\ Flash!SectorOf(from + len - 1) <= from + len - 1
          /\ Aligned(Flash!SectorOf(from + len - 1))
      BY <1>0, SectorIs
    <2>2. CASE a < from
      <3>1. Flash!SectorOf(a) = Flash!SectorOf(from)
        BY <1>0, <1>3, <2>1, <2>2, InSector
      <3> QED
        BY <3>1
    <2>3. CASE a > from + len - 1
      <3>1. Flash!SectorOf(a) = Flash!SectorOf(from + len - 1)
        BY <1>0, <1>3, <2>1, <2>3, InSector
      <3> QED
        BY <3>1
    <2>4. CASE a \in from .. from + len - 1
      BY <2>4
    <2> QED
      BY <1>0, <2>2, <2>3, <2>4
  <1> QED
    BY <1>1, <1>2, <1>3

(* The sector an erase command takes is one of the range's, or the one     *)
(* behind a range that ends with a sector (from the last sector on: the    *)
(* first); and it is all of it.                                            *)
LEMMA TargetIs ==
  ASSUME Chip, NEW from \in Nat, NEW len \in Nat \ {0}, from + len <= Size,
         NEW s \in Nat, Aligned(s), Flash!SectorOf(from) <= s, s <= Flash!SectorOf(from + len)
  PROVE  /\ \A a \in Flash!Sectors(s % Size, 1) :
              \/ a \in Flash!Sectors(from, len)
              \/ Aligned(from + len) /\ a \in Flash!Sectors((from + len) % Size, 1)
         /\ \A a \in Flash!Sectors(from, len) : s <= a /\ a < s + Sector => a \in Flash!Sectors(s % Size, 1)
  <1>0. Size \in Nat \ {0} /\ Sector \in Nat \ {0} /\ from + len \in Nat /\ from + len - 1 \in Nat
    BY DEF Chip
  <1>1. Flash!SectorOf(from + len) \in Nat /\ Flash!SectorOf(from + len) <= from + len
        /\ Flash!SectorOf(from) \in Nat /\ Flash!SectorOf(from + len - 1) \in Nat
    BY <1>0, SectorIs
  <1>2. ASSUME s = from + len
        PROVE  Aligned(from + len) /\ s % Size = (from + len) % Size
    BY <1>2
  <1>3. CASE s < Size
    <2>1. s % Size = s
      <3>1. \A n \in Nat \ {0} : \A x \in 0 .. n - 1 : x % n = x
        OBVIOUS
      <3> QED
        BY <1>0, <1>3, <3>1
    <2>2. \A a \in Flash!Addresses : a \in Flash!Sectors(s, 1) <=> s <= a /\ a < s + Sector
      <3>1. s + 1 <= Size /\ s + 1 - 1 = s /\ Flash!SectorOf(s) = s /\ 1 \in Nat \ {0}
        BY <1>0, <1>3 DEF Aligned
      <3> QED
        BY <3>1, SectorsIs
    <2>3. \A a \in Flash!Sectors(from, len) : a \in Flash!Addresses
      BY DEF Flash!Sectors
    <2>4. \A a \in Flash!Sectors(s, 1) : a \in Flash!Addresses
      BY DEF Flash!Sectors
    <2>5. ASSUME s # from + len, NEW a \in Flash!Sectors(s, 1)
          PROVE  a \in Flash!Sectors(from, len)
      <3>1. s <= from + len - 1
        BY <1>0, <1>1, <2>5
      <3>2. s <= Flash!SectorOf(from + len - 1)
        BY <1>0, <3>1, SectorsInOrder DEF Aligned
      <3>3. a \in Flash!Addresses /\ s <= a /\ a < s + Sector /\ a \in Int
        BY <2>2, <2>4, <2>5 DEF Flash!Addresses
      <3>4. Flash!SectorOf(from) <= a /\ a < Flash!SectorOf(from + len - 1) + Sector
        BY <1>0, <1>1, <3>2, <3>3
      <3> QED
        BY <3>3, <3>4, SectorsIs
    <2> QED
      BY <1>2, <2>1, <2>2, <2>3, <2>5
  <1>4. CASE ~ s < Size
    <2>1. s = from + len
      BY <1>0, <1>1, <1>4
    <2>2. \A a \in Flash!Sectors(from, len) : ~ s <= a
      BY <1>0, <1>4 DEF Flash!Sectors, Flash!Addresses
    <2> QED
      BY <1>2, <2>1, <2>2
  <1> QED
    BY <1>3, <1>4

(* What is left of a page is there, and behind it begins a page.           *)
LEMMA RestIs ==
  ASSUME Chip, NEW address \in Nat
  PROVE  Flash!Rest(address) \in 1 .. Page /\ Flash!Rest(address + Flash!Rest(address)) = Page
  <1> DEFINE q == address \div Page
             r == address % Page
  <1>1. Page \in Nat \ {0} /\ q \in Nat /\ r \in 0 .. Page - 1 /\ address = q * Page + r
    BY Divide DEF Chip
  <1>2. Flash!Rest(address) = Page - r
    BY DEF Flash!Rest
  <1> HIDE DEF q, r
  <1>3. (q + 1) * Page = q * Page + Page /\ q * Page \in Nat
    BY <1>1
  <1>4. address + Flash!Rest(address) = (q + 1) * Page
    BY <1>1, <1>2, <1>3
  <1>5. \A n \in Nat \ {0} : \A k \in Nat : (k * n) % n = 0
    <2> TAKE n \in Nat \ {0}, k \in Nat
    <2>1. k * n \in Nat
      OBVIOUS
    <2>2. (k * n) \div n = k
      BY <2>1, Quotient
    <2> DEFINE x == k * n
    <2> HIDE DEF x
    <2>3. \A y \in Nat : y % n \in Nat /\ y = (y \div n) * n + (y % n)
      BY Divide
    <2>4. x % n \in Nat /\ x = (x \div n) * n + (x % n)
      BY <2>1, <2>3 DEF x
    <2>5. x \in Nat /\ x = (x \div n) * n
      BY <2>1, <2>2 DEF x
    <2>6. x % n = 0
      BY <2>4, <2>5
    <2> QED
      BY <2>6 DEF x
  <1>6. ((q + 1) * Page) % Page = 0
    BY <1>1, <1>5
  <1> QED
    BY <1>1, <1>2, <1>4, <1>6 DEF Flash!Rest

(* A command that ends with the page at the latest does not come round.    *)
LEMMA InPageIs ==
  ASSUME Chip, NEW address \in Nat, NEW i \in Nat, i < Flash!Rest(address)
  PROVE  Flash!InPage(address, i) = address + i
  <1> DEFINE q == address \div Page
             r == address % Page
             x == address + i
  <1>1. Page \in Nat \ {0} /\ q \in Nat /\ r \in 0 .. Page - 1 /\ address = q * Page + r
    BY Divide DEF Chip
  <1>2. i < Page - r /\ Flash!InPage(address, i) = q * Page + (x % Page) /\ x \in Nat
    BY DEF Flash!Rest, Flash!InPage
  <1>3. x = address + i
    OBVIOUS
  <1> HIDE DEF q, r, x
  <1>4. q * Page \in Nat
    BY <1>1
  <1>5. q * Page <= x /\ x < q * Page + Page
    BY <1>1, <1>2, <1>3, <1>4
  <1>6. x \div Page = q
    BY <1>1, <1>2, <1>5, Quotient
  <1>7. x = q * Page + (x % Page)
    BY <1>1, <1>2, <1>6, Divide
  <1> QED
    BY <1>2, <1>3, <1>7

(* ------------------------------- the steps ------------------------------ *)

(* Whatever is not memory, its place in it or the call leaves that sound.  *)
LEMMA WorkKept ==
  ASSUME FlashInv, flash' \in FlashShapes, Enabled(flash)',
         flash'.mem = flash.mem, flash'.want = flash.want, flash'.excess = flash.excess,
         flash'.op = flash.op, flash'.address = flash.address, flash'.size = flash.size,
         flash'.first = flash.first, flash'.last = flash.last, flash'.data = flash.data,
         flash'.from = flash.from, flash'.len = flash.len,
         flash'.at = "idle" <=> flash.at = "idle", flash'.at = "last" <=> flash.at = "last"
  PROVE  FlashInv'
  <1>1. Kept(flash)'
    BY DEF FlashInv, FlashSound, Kept
  <1>2. flash.op = "erase" /\ Erasing(flash) => (flash.op = "erase" /\ Erasing(flash))'
    BY DEF Erasing
  <1>3. flash.op = "write" /\ Writing(flash) => (flash.op = "write" /\ Writing(flash))'
    BY DEF Writing
  <1> QED
    BY <1>1, <1>2, <1>3 DEF FlashInv, FlashSound

(* A field with a new value of its type. *)
LEMMA FlashShaped ==
  ASSUME NEW h \in FlashShapes
  PROVE  /\ \A w \in [Flash!Addresses -> -2 .. Size - 1] :
              [h EXCEPT !.mem = w] \in FlashShapes /\ [h EXCEPT !.want = w] \in FlashShapes
         /\ \A w \in {"no", "erase", "program", "status"} : [h EXCEPT !.busy = w] \in FlashShapes
         /\ \A w \in {"idle", "entry", "wren", "status", "wrsr", "ready", "cmd", "last"} :
              [h EXCEPT !.at = w] \in FlashShapes
         /\ \A w \in {"none", "erase", "write"} : [h EXCEPT !.op = w] \in FlashShapes
         /\ \A w \in Nat : /\ [h EXCEPT !.address = w] \in FlashShapes /\ [h EXCEPT !.size = w] \in FlashShapes
                           /\ [h EXCEPT !.first = w] \in FlashShapes /\ [h EXCEPT !.last = w] \in FlashShapes
                           /\ [h EXCEPT !.data = w] \in FlashShapes /\ [h EXCEPT !.from = w] \in FlashShapes
                           /\ [h EXCEPT !.len = w] \in FlashShapes
         /\ \A w \in Int : [h EXCEPT !.calls = w] \in FlashShapes /\ [h EXCEPT !.fails = w] \in FlashShapes
         /\ \A w \in SUBSET Flash!Addresses : [h EXCEPT !.excess = w] \in FlashShapes
         /\ [h EXCEPT !.failed = TRUE] \in FlashShapes
  <1>1. ASSUME NEW w \in [Flash!Addresses -> -2 .. Size - 1]
        PROVE  [h EXCEPT !.mem = w] \in FlashShapes /\ [h EXCEPT !.want = w] \in FlashShapes
    BY DEF FlashShapes
  <1>2. \A w \in {"no", "erase", "program", "status"} : [h EXCEPT !.busy = w] \in FlashShapes
    BY DEF FlashShapes
  <1>3. \A w \in {"idle", "entry", "wren", "status", "wrsr", "ready", "cmd", "last"} :
          [h EXCEPT !.at = w] \in FlashShapes
    BY DEF FlashShapes
  <1>4. \A w \in {"none", "erase", "write"} : [h EXCEPT !.op = w] \in FlashShapes
    BY DEF FlashShapes
  <1>5. ASSUME NEW w \in Nat
        PROVE  /\ [h EXCEPT !.address = w] \in FlashShapes /\ [h EXCEPT !.size = w] \in FlashShapes
               /\ [h EXCEPT !.first = w] \in FlashShapes /\ [h EXCEPT !.last = w] \in FlashShapes
               /\ [h EXCEPT !.data = w] \in FlashShapes /\ [h EXCEPT !.from = w] \in FlashShapes
               /\ [h EXCEPT !.len = w] \in FlashShapes
    BY DEF FlashShapes
  <1>6. ASSUME NEW w \in Int
        PROVE  [h EXCEPT !.calls = w] \in FlashShapes /\ [h EXCEPT !.fails = w] \in FlashShapes
    BY DEF FlashShapes
  <1>7. \A w \in SUBSET Flash!Addresses : [h EXCEPT !.excess = w] \in FlashShapes
    BY DEF FlashShapes
  <1>8. [h EXCEPT !.failed = TRUE] \in FlashShapes
    BY DEF FlashShapes
  <1> QED
    BY <1>1, <1>2, <1>3, <1>4, <1>5, <1>6, <1>7, <1>8

LEMMA DoneSound ==
  ASSUME FlashInv, Flash!Done
  PROVE  FlashInv'
  <1>1. flash' \in FlashShapes
    BY ZenonT(60) DEF FlashInv, FlashShapes, Flash!Done, Flash!Set, Flash!Busy
  <1>2. Enabled(flash)'
    BY DEF FlashInv, FlashShapes, FlashSound, Enabled, Flash!Done, Flash!Set, Flash!Busy
  <1> QED
    BY <1>1, <1>2, WorkKept DEF FlashInv, FlashShapes, Flash!Done, Flash!Set

LEMMA EnableSound ==
  ASSUME FlashInv, Flash!Wren \/ Flash!Status \/ Flash!ClearProtection
  PROVE  FlashInv'
  <1>1. CASE Flash!Wren
    <2>1. flash' \in FlashShapes
      BY <1>1 DEF FlashInv, FlashShapes, Flash!Wren, Flash!Set, Flash!Busy
    <2>2. Enabled(flash)'
      BY <1>1 DEF FlashInv, FlashShapes, FlashSound, Enabled, Flash!Wren, Flash!Set, Flash!Busy
    <2> QED
      BY <1>1, <2>1, <2>2, WorkKept DEF FlashInv, FlashShapes, Flash!Wren, Flash!Set
  <1>2. CASE Flash!Status
    <2>1. flash' \in FlashShapes
      BY <1>2 DEF FlashInv, FlashShapes, Flash!Status, Flash!To, Flash!Set, Flash!Busy
    <2>2. Enabled(flash)'
      BY <1>2 DEF FlashInv, FlashShapes, FlashSound, Enabled, Flash!Status, Flash!To, Flash!Set, Flash!Busy
    <2> QED
      BY <1>2, <2>1, <2>2, WorkKept DEF FlashInv, FlashShapes, Flash!Status, Flash!To, Flash!Set
  <1>3. CASE Flash!ClearProtection
    <2>1. flash' \in FlashShapes
      BY <1>3 DEF FlashInv, FlashShapes, Flash!ClearProtection, Flash!Set, Flash!Busy
    <2>2. Enabled(flash)'
      BY <1>3 DEF FlashInv, FlashShapes, FlashSound, Enabled, Flash!ClearProtection, Flash!Set, Flash!Busy
    <2> QED
      BY <1>3, <2>1, <2>2, WorkKept DEF FlashInv, FlashShapes, Flash!ClearProtection, Flash!Set
  <1> QED
    BY <1>1, <1>2, <1>3

LEMMA WaitSound ==
  ASSUME FlashInv, Flash!WaitReady("entry", "wren") \/ Flash!WaitReady("ready", "cmd")
  PROVE  FlashInv'
  <1>1. /\ flash' \in FlashShapes
        /\ flash.at \in {"entry", "ready"} /\ flash'.at \in {"entry", "ready", "wren", "cmd"}
    BY DEF FlashInv, FlashShapes, Flash!WaitReady, Flash!To, Flash!Set, Flash!Busy
  <1>2. Enabled(flash)'
    BY DEF FlashInv, FlashShapes, FlashSound, Enabled, Flash!WaitReady, Flash!To, Flash!Set, Flash!Busy
  <1> QED
    BY <1>1, <1>2, WorkKept DEF FlashInv, FlashShapes, Flash!WaitReady, Flash!To, Flash!Set

LEMMA ReadSound ==
  ASSUME FlashInv, Flash!w25qxx_read
  PROVE  FlashInv'
  <1>1. flash' \in FlashShapes
    BY DEF FlashInv, FlashShapes, Flash!w25qxx_read, Flash!Set, Flash!Busy
  <1>2. Enabled(flash)'
    BY DEF FlashInv, FlashShapes, FlashSound, Enabled, Flash!w25qxx_read, Flash!Set, Flash!Busy
  <1> QED
    BY <1>1, <1>2, WorkKept DEF FlashInv, FlashShapes, Flash!w25qxx_read, Flash!Set

(* A call that fails half-way has done something to its range only.        *)
LEMMA FailsSound ==
  ASSUME Chip, FlashInv, Flash!Fails
  PROVE  FlashInv'
  <1> DEFINE w == [a \in Flash!Addresses |-> IF a \in Flash!Scope(flash.op, flash.from, flash.len)
                                             THEN flash.mem[a] ELSE flash.want[a]]
  <1>1. /\ flash.at # "idle"
        /\ flash' = [flash EXCEPT !.at = "idle", !.fails = flash.fails + 1, !.failed = TRUE, !.want = w]
    BY DEF Flash!Fails, Flash!Set
  <1>2. w \in [Flash!Addresses -> -2 .. Size - 1]
    BY DEF FlashInv, FlashShapes
  <1>3. \A a \in Flash!Addresses : w[a] = IF a \in Flash!Scope(flash.op, flash.from, flash.len)
                                          THEN flash.mem[a] ELSE flash.want[a]
    OBVIOUS
  <1> HIDE DEF w
  <1>4. flash' \in FlashShapes
    <2>1. flash \in FlashShapes /\ flash.fails + 1 \in Int
      BY DEF FlashInv, FlashShapes
    <2> QED
      BY <1>1, <1>2, <2>1, FlashShaped
  <1>5. Kept(flash)'
    BY <1>1, <1>3 DEF FlashInv, FlashShapes, FlashSound, Kept
  <1>6. Enabled(flash)'
    BY <1>1 DEF FlashInv, FlashShapes, FlashSound, Enabled
  <1> QED
    BY <1>1, <1>4, <1>5, <1>6 DEF FlashInv, FlashShapes, FlashSound

LEMMA LastSound ==
  ASSUME Chip, FlashInv, Flash!WaitLast
  PROVE  FlashInv'
  <1>1. flash.at = "last"
    BY DEF Flash!WaitLast
  <1>2. CASE Flash!Busy
    <2>1. flash' = flash
      BY <1>2 DEF Flash!WaitLast, Flash!Set
    <2> QED
      BY <2>1 DEF FlashInv, FlashSound, Kept, Enabled, Erasing, Writing
  <1>3. CASE ~ Flash!Busy
    <2>1. flash' = [flash EXCEPT !.at = "idle",
                                 !.want = Flash!Promised(flash.want, flash.op, flash.from, flash.len)]
      BY <1>3 DEF Flash!WaitLast, Flash!Set, Flash!Returns
    <2>2. ASSUME NEW a \in Flash!Addresses, a \in Flash!Scope(flash.op, flash.from, flash.len)
          PROVE  flash.mem[a] = IF flash.op = "erase" THEN Flash!Erased ELSE a - flash.from
      <3>0. /\ flash.from \in Nat /\ flash.len \in Nat /\ flash.data \in Nat /\ flash.size \in Nat
            /\ flash.address \in Nat /\ flash.last \in Nat /\ Size \in Nat /\ Sector \in Nat
        BY DEF FlashInv, FlashShapes, Chip
      <3>1. CASE flash.op = "erase" /\ Erasing(flash)
        <4>1. /\ a \in Flash!Sectors(flash.from, flash.len) /\ flash.len \in Nat \ {0}
              /\ flash.from + flash.len <= Size /\ flash.from + flash.len - 1 \in Nat
          BY <2>2, <3>0, <3>1 DEF Flash!Scope, Erasing
        <4>2. a < Flash!SectorOf(flash.from + flash.len - 1) + Sector
          BY <3>0, <4>1, SectorsIs
        <4>3. /\ Flash!SectorOf(flash.from + flash.len - 1) <= Flash!SectorOf(flash.from + flash.len)
              /\ Flash!SectorOf(flash.from + flash.len - 1) \in Nat
          BY <3>0, <4>1, SectorsInOrder, SectorIs
        <4>4. flash.address = Flash!SectorOf(flash.from + flash.len) + Sector
          BY <1>1, <3>1 DEF Erasing
        <4>5. a < flash.address
          BY <3>0, <4>1, <4>2, <4>3, <4>4, SectorIs DEF Flash!Addresses
        <4> QED
          BY <3>1, <4>1, <4>5 DEF Erasing
      <3>2. CASE flash.op = "write" /\ Writing(flash)
        <4>1. a \in flash.from .. flash.from + flash.len - 1
          BY <2>2, <3>0, <3>2, RangeIs DEF Flash!Scope, Writing
        <4>2. flash.data = flash.len
          BY <1>1, <3>0, <3>2 DEF Writing
        <4> QED
          BY <3>2, <4>1, <4>2 DEF Writing
      <3> QED
        BY <1>1, <3>1, <3>2 DEF FlashInv, FlashSound
    <2>3. /\ flash.mem \in [Flash!Addresses -> -2 .. Size - 1]
          /\ flash.want \in [Flash!Addresses -> -2 .. Size - 1]
      BY DEF FlashInv, FlashShapes
    <2> DEFINE w == Flash!Promised(flash.want, flash.op, flash.from, flash.len)
    <2>4. w = [a \in Flash!Addresses |-> IF a \in Flash!Scope(flash.op, flash.from, flash.len)
                                         THEN flash.mem[a] ELSE flash.want[a]]
      BY <2>2 DEF Flash!Promised
    <2>5. w \in [Flash!Addresses -> -2 .. Size - 1]
      BY <2>3, <2>4
    <2>6. \A a \in Flash!Addresses : a \in Flash!Scope(flash.op, flash.from, flash.len) => w[a] = flash.mem[a]
      BY <2>4
    <2>7. \A a \in Flash!Addresses : a \notin Flash!Scope(flash.op, flash.from, flash.len) => w[a] = flash.want[a]
      BY <2>4
    <2>8. flash' = [flash EXCEPT !.at = "idle", !.want = w]
      BY <2>1
    <2> HIDE DEF w
    <2>9. flash' \in FlashShapes
      BY <2>5, <2>8 DEF FlashInv, FlashShapes
    <2>10. Kept(flash)'
      BY <2>6, <2>7, <2>8 DEF FlashInv, FlashShapes, FlashSound, Kept
    <2>11. Enabled(flash)'
      BY <1>3, <2>8 DEF FlashInv, FlashShapes, FlashSound, Enabled, Flash!Busy
    <2> QED
      BY <2>8, <2>9, <2>10, <2>11 DEF FlashInv, FlashShapes, FlashSound
  <1> QED
    BY <1>2, <1>3

LEMMA EraseCallSound ==
  ASSUME Chip, FlashInv, NEW r \in Erases, Flash!w25qxx_erase(r)
  PROVE  FlashInv'
  <1> DEFINE from == r[1]
             len == r[2]
             e == IF (from + len) % Sector = 0 THEN flash.excess \cup Flash!Sectors((from + len) % Size, 1)
                  ELSE flash.excess
  <1>1. /\ from \in Nat /\ len \in Nat \ {0} /\ from + len <= Size /\ from + len \in Nat
        /\ Size \in Nat /\ Sector \in Nat
    BY DEF Chip, Flash!SpiFlashConstants
  <1>2. /\ flash.at = "idle"
        /\ flash' = [flash EXCEPT !.at = "wren", !.address = Flash!SectorOf(from), !.last = Flash!SectorOf(from + len),
                       !.excess = e, !.op = "erase", !.from = from, !.len = len, !.size = len,
                       !.calls = flash.calls + 1, !.data = 0]
    BY DEF Flash!w25qxx_erase, Flash!Start, Flash!Set, FlashInv, FlashShapes
  <1>3. /\ flash.excess \subseteq e /\ e \subseteq Flash!Addresses
        /\ Aligned(from + len) => Flash!Sectors((from + len) % Size, 1) \subseteq e
    BY <1>1, AlignedIs DEF FlashInv, FlashShapes, Flash!Sectors
  <1>4. /\ Flash!SectorOf(from) \in Nat /\ Flash!SectorOf(from + len) \in Nat /\ Aligned(Flash!SectorOf(from))
        /\ Flash!SectorOf(from) <= Flash!SectorOf(from + len)
    BY <1>1, SectorIs, SectorsInOrder
  <1>5. \A a \in Flash!Sectors(from, len) : a >= Flash!SectorOf(from)
    <2>1. \A a \in Flash!Sectors(from, len) : a \in Flash!Addresses
      BY DEF Flash!Sectors
    <2> QED
      BY <1>1, <2>1, SectorsIs DEF Flash!Addresses
  <1>6. \A a \in Flash!Sectors(from, len) : a \in Nat
    BY DEF Flash!Sectors, Flash!Addresses
  <1> HIDE DEF from, len, e
  <1>7. flash' \in FlashShapes
    <2>1. flash \in FlashShapes /\ flash.calls + 1 \in Int /\ e \in SUBSET Flash!Addresses /\ len \in Nat
      BY <1>1, <1>3 DEF FlashInv, FlashShapes
    <2> QED
      BY <1>1, <1>2, <1>4, <2>1, FlashShaped, ZenonT(60)
  <1>8. Kept(flash)'
    BY <1>2, <1>3 DEF FlashInv, FlashShapes, FlashSound, Kept
  <1>9. Enabled(flash)'
    BY <1>2 DEF FlashInv, FlashShapes, FlashSound, Enabled
  <1>10. Erasing(flash)'
    BY <1>1, <1>2, <1>3, <1>4, <1>5, <1>6 DEF FlashInv, FlashShapes, Erasing
  <1>11. flash'.op = "erase"
    BY <1>2 DEF FlashInv, FlashShapes
  <1> QED
    BY <1>7, <1>8, <1>9, <1>10, <1>11 DEF FlashInv, FlashSound

LEMMA WriteCallSound ==
  ASSUME Chip, FlashInv, NEW r \in Writes, Flash!w25qxx_write(r)
  PROVE  FlashInv'
  <1> DEFINE from == r[1]
             len == r[2]
             e == flash.excess \ Flash!Range(from, len)
  <1>1. from \in Nat /\ len \in Nat /\ from + len <= Size /\ Size \in Nat
    BY DEF Chip, Flash!SpiFlashConstants
  <1>2. /\ flash.at = "idle"
        /\ flash' = [flash EXCEPT !.at = "entry", !.address = from, !.first = Flash!Rest(from),
                       !.excess = e, !.op = "write", !.from = from, !.len = len, !.size = len,
                       !.calls = flash.calls + 1, !.data = 0]
    BY DEF Flash!w25qxx_write, Flash!Start, Flash!Set, FlashInv, FlashShapes
  <1>3. e \subseteq Flash!Addresses /\ \A a \in flash.excess : a \in e \/ a \in Flash!Range(from, len)
    BY DEF FlashInv, FlashShapes
  <1>4. Flash!Rest(from) \in Nat
    BY <1>1, RestIs DEF Chip
  <1> HIDE DEF from, len, e
  <1>5. flash' \in FlashShapes
    <2>1. flash \in FlashShapes /\ flash.calls + 1 \in Int /\ e \in SUBSET Flash!Addresses
      BY <1>3 DEF FlashInv, FlashShapes
    <2> QED
      BY <1>1, <1>2, <1>4, <2>1, FlashShaped, ZenonT(60)
  <1>6. Kept(flash)'
    BY <1>2, <1>3 DEF FlashInv, FlashShapes, FlashSound, Kept, Flash!Scope
  <1>7. Enabled(flash)'
    BY <1>2 DEF FlashInv, FlashShapes, FlashSound, Enabled
  <1>8. Writing(flash)'
    BY <1>1, <1>2, <1>4 DEF FlashInv, FlashShapes, Writing
  <1>9. flash'.op = "write"
    BY <1>2 DEF FlashInv, FlashShapes
  <1> QED
    BY <1>5, <1>6, <1>7, <1>8, <1>9 DEF FlashInv, FlashSound

LEMMA EraseSound ==
  ASSUME Chip, FlashInv, Flash!Erase
  PROVE  FlashInv'
  <1> DEFINE target == Flash!Sectors(flash.address % Size, 1)
             m == [a \in Flash!Addresses |-> IF a \in target THEN Flash!Erased ELSE flash.mem[a]]
             ends == IF flash.address + Sector <= flash.last THEN "wren" ELSE "last"
  <1>1. /\ flash.at = "cmd" /\ flash.op = "erase" /\ Erasing(flash) /\ flash.busy = "no" /\ flash.wel
        /\ flash.from \in Nat /\ flash.len \in Nat \ {0} /\ flash.address \in Nat /\ flash.last \in Nat
        /\ Size \in Nat /\ Sector \in Nat \ {0} /\ flash.from + flash.len <= Size
        /\ flash.from + flash.len \in Nat
    BY DEF Flash!Erase, FlashInv, FlashSound, Enabled, FlashShapes, Chip, Erasing
  <1>2. flash' = [flash EXCEPT !.address = flash.address + Sector, !.at = ends, !.busy = "erase", !.mem = m]
    BY <1>1 DEF Flash!Erase, Flash!Set, Flash!Execute, Flash!Busy, FlashInv, FlashShapes
  <1>3. /\ m \in [Flash!Addresses -> -2 .. Size - 1]
        /\ \A a \in Flash!Addresses : a \in target => m[a] = Flash!Erased
        /\ \A a \in Flash!Addresses : a \notin target => m[a] = flash.mem[a]
    BY <1>1 DEF FlashInv, FlashShapes, Flash!Erased
  <1>4. /\ Aligned(flash.address) /\ Flash!SectorOf(flash.from) <= flash.address /\ flash.address <= flash.last
        /\ flash.last = Flash!SectorOf(flash.from + flash.len)
    BY <1>1 DEF Erasing
  <1>5. /\ \A a \in target : \/ a \in Flash!Sectors(flash.from, flash.len)
                             \/ a \in flash.excess
        /\ \A a \in Flash!Sectors(flash.from, flash.len) :
             flash.address <= a /\ a < flash.address + Sector => a \in target
    <2>1. /\ \A a \in target : \/ a \in Flash!Sectors(flash.from, flash.len)
                               \/ /\ Aligned(flash.from + flash.len)
                                  /\ a \in Flash!Sectors((flash.from + flash.len) % Size, 1)
          /\ \A a \in Flash!Sectors(flash.from, flash.len) :
               flash.address <= a /\ a < flash.address + Sector => a \in target
      BY <1>1, <1>4, TargetIs
    <2> QED
      BY <1>1, <2>1 DEF Erasing
  <1>6. IF ends = "last" THEN flash.address + Sector = flash.last + Sector
        ELSE flash.address + Sector <= flash.last
    <2>1. CASE flash.address + Sector <= flash.last
      BY <2>1
    <2>2. CASE ~ (flash.address + Sector <= flash.last)
      <3>1. Flash!SectorOf(flash.last) = flash.address
        BY <1>1, <1>4, <2>2, InSector
      <3>2. Flash!SectorOf(flash.last) = flash.last
        BY <1>1, <1>4, SectorIs DEF Aligned
      <3> QED
        BY <2>2, <3>1, <3>2
    <2> QED
      BY <2>1, <2>2
  <1>7. Aligned(flash.address + Sector) /\ ends \in {"wren", "last"}
    BY <1>1, <1>4, NextSector
  <1>8. \A a \in Flash!Sectors(flash.from, flash.len) : a \in Flash!Addresses /\ a \in Nat
    BY DEF Flash!Sectors, Flash!Addresses
  <1> HIDE DEF target, m, ends
  <1>9. flash' \in FlashShapes
    <2>1. flash \in FlashShapes /\ flash.address + Sector \in Nat
      BY <1>1 DEF FlashInv
    <2> QED
      BY <1>2, <1>3, <1>7, <2>1, FlashShaped
  <1>10. Kept(flash)'
    BY <1>1, <1>2, <1>3, <1>5, <1>7 DEF FlashInv, FlashShapes, FlashSound, Kept, Flash!Scope
  <1>11. Enabled(flash)'
    BY <1>1, <1>2, <1>7 DEF FlashInv, FlashShapes, FlashSound, Enabled
  <1>12. \A a \in Flash!Sectors(flash.from, flash.len) : a < flash.address + Sector => m[a] = Flash!Erased
    BY <1>1, <1>3, <1>5, <1>8 DEF Erasing
  <1>13. Erasing(flash)'
    <2>1. /\ flash'.len = flash.len /\ flash'.from = flash.from /\ flash'.last = flash.last
          /\ flash'.excess = flash.excess /\ flash'.address = flash.address + Sector
          /\ flash'.at = ends /\ flash'.mem = m
      BY <1>2 DEF FlashInv, FlashShapes
    <2>2. Flash!SectorOf(flash.from) <= flash.address + Sector
      BY <1>1, <1>4, SectorIs
    <2>3. /\ flash'.len > 0 /\ flash'.from + flash'.len <= Size
          /\ flash'.last = Flash!SectorOf(flash'.from + flash'.len)
          /\ Aligned(flash'.address) /\ Flash!SectorOf(flash'.from) <= flash'.address
      BY <1>1, <1>4, <1>7, <2>1, <2>2
    <2>4. Aligned(flash'.from + flash'.len) =>
            Flash!Sectors((flash'.from + flash'.len) % Size, 1) \subseteq flash'.excess
      BY <1>1, <2>1 DEF Erasing
    <2> QED
      BY <1>6, <1>12, <2>1, <2>3, <2>4 DEF Erasing
  <1> QED
    BY <1>1, <1>2, <1>9, <1>10, <1>11, <1>13 DEF FlashInv, FlashShapes, FlashSound

LEMMA ProgramSound ==
  ASSUME Chip, FlashInv, Flash!Program
  PROVE  FlashInv'
  <1> DEFINE n == Flash!Lesser(flash.first, flash.size)
             m == [a \in Flash!Addresses |-> IF \E i \in 0 .. n - 1 : a = Flash!InPage(flash.address, i)
                     THEN flash.data + (CHOOSE i \in 0 .. n - 1 : a = Flash!InPage(flash.address, i))
                     ELSE flash.mem[a]]
             ends == IF flash.size > n THEN "wren" ELSE "last"
             g == [flash EXCEPT !.size = flash.size - n, !.address = flash.address + n,
                                !.data = flash.data + n, !.first = Page, !.at = ends]
  <1>1. /\ flash.at = "cmd" /\ flash.op = "write" /\ Writing(flash) /\ flash.busy = "no" /\ flash.wel
        /\ flash.from \in Nat /\ flash.len \in Nat /\ flash.address \in Nat /\ flash.size \in Nat
        /\ flash.data \in Nat /\ Size \in Nat /\ Page \in Nat \ {0} /\ flash.from + flash.len <= Size
        /\ flash.address = flash.from + flash.data /\ flash.size + flash.data = flash.len
        /\ flash.first = Flash!Rest(flash.address)
    BY DEF Flash!Program, FlashInv, FlashSound, Enabled, FlashShapes, Chip, Writing
  <1>2. flash.first \in 1 .. Page /\ Flash!Rest(flash.address + flash.first) = Page
    BY <1>1, RestIs
  <1>3. /\ n \in 0 .. flash.size /\ n <= flash.first
        /\ flash.size > n => n = flash.first
        /\ ~ flash.size > n => n = flash.size
    BY <1>1, <1>2 DEF Flash!Lesser
  <1>4. flash' = IF n = 0 THEN g ELSE [g EXCEPT !.busy = "program", !.mem = m]
    <2>1. flash' = IF n = 0 THEN g ELSE Flash!Execute(g, "program", m)
      BY DEF Flash!Program, Flash!Set
    <2> QED
      BY <1>1, <2>1 DEF Flash!Execute, Flash!Busy
  <1>5. \A i \in 0 .. n - 1 : Flash!InPage(flash.address, i) = flash.address + i
    BY <1>1, <1>2, <1>3, InPageIs
  <1>6. ASSUME NEW a \in Flash!Addresses
        PROVE  m[a] = IF a \in flash.address .. flash.address + n - 1 THEN a - flash.from
                      ELSE flash.mem[a]
    <2>1. a \in Nat
      BY <1>6 DEF Flash!Addresses
    <2>2. CASE a \in flash.address .. flash.address + n - 1
      <3> DEFINE j == CHOOSE i \in 0 .. n - 1 : a = Flash!InPage(flash.address, i)
      <3>1. a - flash.address \in 0 .. n - 1 /\ a = Flash!InPage(flash.address, a - flash.address)
        <4>1. a - flash.address \in 0 .. n - 1 /\ flash.address + (a - flash.address) = a
          BY <1>1, <1>3, <2>1, <2>2
        <4> QED
          BY <1>5, <4>1
      <3>2. j \in 0 .. n - 1 /\ a = Flash!InPage(flash.address, j)
        BY <3>1
      <3>3. m[a] = flash.data + j
        BY <3>1
      <3> HIDE DEF j, m, n
      <3>4. j \in Int /\ a = flash.address + j
        BY <1>1, <1>3, <1>5, <3>2
      <3> QED
        BY <1>1, <2>1, <2>2, <3>3, <3>4
    <2>3. CASE a \notin flash.address .. flash.address + n - 1
      <3>1. ~ \E i \in 0 .. n - 1 : a = Flash!InPage(flash.address, i)
        <4>1. \A i \in 0 .. n - 1 : flash.address + i \in flash.address .. flash.address + n - 1
          BY <1>1, <1>3
        <4> QED
          BY <1>5, <2>3, <4>1
      <3>2. m[a] = flash.mem[a]
        BY <3>1
      <3> HIDE DEF m
      <3> QED
        BY <2>3, <3>2
    <2> QED
      BY <2>2, <2>3
  <1>7. DOMAIN m = Flash!Addresses /\ m = [a \in Flash!Addresses |-> m[a]]
    OBVIOUS
  <1> HIDE DEF m
  <1>8. m \in [Flash!Addresses -> -2 .. Size - 1]
    <2>1. \A a \in Flash!Addresses : m[a] \in -2 .. Size - 1
      <3> SUFFICES ASSUME NEW a \in Flash!Addresses
                   PROVE  m[a] \in -2 .. Size - 1
        OBVIOUS
      <3>1. a \in Nat /\ a <= Size - 1 /\ flash.mem[a] \in -2 .. Size - 1
        <4>1. flash.mem \in [Flash!Addresses -> -2 .. Size - 1]
          BY DEF FlashInv, FlashShapes
        <4> QED
          BY <1>1, <4>1 DEF Flash!Addresses
      <3>2. a >= flash.address => a - flash.from \in -2 .. Size - 1
        BY <1>1, <3>1
      <3> QED
        BY <1>1, <1>3, <1>6, <3>1, <3>2
    <2> QED
      BY <1>7, <2>1
  <1>9. /\ flash'.at = ends /\ flash'.from = flash.from /\ flash'.len = flash.len /\ flash'.op = flash.op
        /\ flash'.size = flash.size - n /\ flash'.address = flash.address + n
        /\ flash'.data = flash.data + n /\ flash'.first = Page
        /\ flash'.want = flash.want /\ flash'.excess = flash.excess
        /\ flash'.ignored = flash.ignored /\ flash'.failed = flash.failed
        /\ flash'.garbled = flash.garbled
        /\ flash'.mem = IF n = 0 THEN flash.mem ELSE m
    BY <1>4 DEF FlashInv, FlashShapes
  <1>10. /\ flash.size - n \in Nat /\ flash.address + n \in Nat /\ flash.data + n \in Nat
         /\ ends \in {"wren", "last"}
    BY <1>1, <1>3
  <1> HIDE DEF ends
  <1>11. flash' \in FlashShapes
    <2>1. flash \in FlashShapes /\ Page \in Nat
      BY <1>1 DEF FlashInv
    <2>2. g \in FlashShapes
      BY <1>10, <2>1, FlashShaped
    <2> HIDE DEF g
    <2>3. [g EXCEPT !.busy = "program"] \in FlashShapes
      BY <2>2, FlashShaped
    <2>4. [g EXCEPT !.busy = "program", !.mem = m] \in FlashShapes
      BY <1>8, <2>3, FlashShaped
    <2> QED
      BY <1>4, <2>2, <2>4
  <1> HIDE DEF n, g
  <1>12. \A a \in Flash!Addresses :
           flash'.mem[a] = IF a \in flash.address .. flash.address + n - 1 THEN a - flash.from
                           ELSE flash.mem[a]
    BY <1>1, <1>3, <1>6, <1>9
  <1>13. Kept(flash)'
    <2>1. Flash!Scope(flash.op, flash.from, flash.len) = flash.from .. flash.from + flash.len - 1
      BY <1>1, RangeIs DEF Flash!Scope
    <2>2. \A a \in Flash!Addresses : a \in flash.address .. flash.address + n - 1 =>
                                       a \in flash.from .. flash.from + flash.len - 1
      BY <1>1, <1>3
    <2>3. Kept(flash)
      BY DEF FlashInv, FlashSound
    <2>4. \A a \in Flash!Addresses : flash.mem[a] = flash.want[a] \/ a \in flash.excess
                                     \/ a \in Flash!Scope(flash.op, flash.from, flash.len)
      BY <2>3 DEF Kept
    <2>5. flash'.at # "idle"
      BY <1>9, <1>10
    <2> QED
      BY <1>9, <1>12, <2>1, <2>2, <2>4, <2>5 DEF Kept
  <1>14. Enabled(flash)'
    BY <1>1, <1>9, <1>10 DEF FlashInv, FlashSound, Enabled
  <1>15. Writing(flash)'
    <2>1. IF ends = "last" THEN flash.size - n = 0 ELSE Page = Flash!Rest(flash.address + n)
      BY <1>1, <1>2, <1>3, <1>10 DEF ends
    <2>2. \A a \in flash.from .. flash.from + flash.data + n - 1 : flash'.mem[a] = a - flash.from
      <3> SUFFICES ASSUME NEW a \in flash.from .. flash.from + flash.data + n - 1
                   PROVE  flash'.mem[a] = a - flash.from
        OBVIOUS
      <3>1. a \in Flash!Addresses
        BY <1>1, <1>3 DEF Flash!Addresses
      <3>2. \/ a \in flash.address .. flash.address + n - 1
            \/ /\ a \in flash.from .. flash.from + flash.data - 1
               /\ a \notin flash.address .. flash.address + n - 1
        BY <1>1, <1>3
      <3> QED
        BY <1>1, <1>12, <3>1, <3>2 DEF Writing
    <2>3. flash.from + (flash.data + n) - 1 = flash.from + flash.data + n - 1
          /\ flash.address + n = flash.from + (flash.data + n)
          /\ flash.size - n + (flash.data + n) = flash.len
      BY <1>1, <1>3
    <2> QED
      BY <1>1, <1>9, <2>1, <2>2, <2>3 DEF Writing
  <1> QED
    BY <1>1, <1>9, <1>11, <1>13, <1>14, <1>15 DEF FlashInv, FlashSound

(* ------------------------------- theorems ------------------------------- *)

LEMMA FlashStarts ==
  ASSUME Chip, Flash!Init
  PROVE  FlashInv
  <1> DEFINE old == [a \in Flash!Addresses |-> Flash!Old]
  <1>1. PICK prot \in {"none", "soft", "hard"} :
          flash = [mem |-> old, busy |-> "no", wel |-> FALSE, prot |-> prot,
                   at |-> "idle", op |-> "none", address |-> 0, size |-> 0, first |-> 0, last |-> 0,
                   data |-> 0, from |-> 0, len |-> 0, calls |-> 0, fails |-> 0, want |-> old,
                   excess |-> {}, ignored |-> FALSE, failed |-> FALSE, garbled |-> FALSE]
    BY DEF Flash!Init
  <1>2. old \in [Flash!Addresses -> -2 .. Size - 1]
    BY DEF Chip, Flash!Old
  <1> HIDE DEF old
  <1>3. flash \in FlashShapes
    BY <1>1, <1>2 DEF FlashShapes
  <1>4. FlashSound(flash)
    BY <1>1 DEF FlashSound, Kept, Enabled
  <1> QED
    BY <1>3, <1>4 DEF FlashInv

LEMMA FlashKept ==
  ASSUME Chip, FlashInv, [Flash!Next]_flash
  PROVE  FlashInv'
  <1>1. CASE UNCHANGED flash
    BY <1>1 DEF FlashInv, FlashSound, Kept, Enabled, Erasing, Writing
  <1>2. CASE Flash!Commands
    BY <1>2, EnableSound, EraseSound, ProgramSound, LastSound, WaitSound DEF Flash!Commands
  <1>3. CASE Flash!Done \/ Flash!Fails \/ Flash!w25qxx_read
    BY <1>3, DoneSound, FailsSound, ReadSound
  <1>4. CASE \/ \E r \in Erases : Flash!w25qxx_erase(r)
             \/ \E r \in Writes : Flash!w25qxx_write(r)
    BY <1>4, EraseCallSound, WriteCallSound
  <1> QED
    BY <1>1, <1>2, <1>3, <1>4 DEF Flash!Next

(* The registers of the chip and the variables of w25qxx_erase and         *)
(* w25qxx_write (spi_flash_w25qxx.c) keep their types: no position of a    *)
(* byte in the data, and no address of one, is beyond the memory.          *)
THEOREM FlashTypes ==
  ASSUME Chip
  PROVE  Flash!Spec => []Flash!TypeOK
  <1>1. FlashInv => Flash!TypeOK
    BY DEF FlashInv, FlashShapes, Flash!TypeOK
  <1> QED
    BY <1>1, FlashStarts, FlashKept, PTL DEF Flash!Spec

(* Whatever the chip's size and the lengths of the calls, a write that     *)
(* returned put each byte in its place though the chip wraps in a page, an *)
(* erase took the sectors of its range, and no call touched a byte outside *)
(* of it, also one whose command failed half-way; only an erase whose range*)
(* ends with a sector takes the next one too (last_address in w25qxx_erase)*)
THEOREM MemoryIsAsAsked ==
  ASSUME Chip
  PROVE  Flash!Spec => []Flash!MemoryAsAsked
  <1>1. FlashInv => Flash!MemoryAsAsked
    BY DEF FlashInv, FlashSound, Kept, Flash!MemoryAsAsked
  <1> QED
    BY <1>1, FlashStarts, FlashKept, PTL DEF Flash!Spec

(* The chip is never told to erase or program when it is at work or not    *)
(* enabled, since w25qxx_write_enable returns only when its status says so,*)
(* and a read finds it at work only after a call that failed.              *)
THEOREM ChipIsReady ==
  ASSUME Chip
  PROVE  Flash!Spec => []Flash!ChipReady
  <1>1. FlashInv => Flash!ChipReady
    BY DEF FlashInv, FlashSound, Enabled, Flash!ChipReady
  <1> QED
    BY <1>1, FlashStarts, FlashKept, PTL DEF Flash!Spec

(* The two together: what w25qxx_write and w25qxx_erase promise is in the  *)
(* chip, and it obeys each of their commands.                              *)
THEOREM ChipsAsAsked ==
  ASSUME Chip
  PROVE  Flash!Spec => []Flash!FlashAsAsked
  BY MemoryIsAsAsked, ChipIsReady, PTL DEF Flash!FlashAsAsked

(* ------------------------------ the caches ------------------------------ *)

(* There is memory, in lines of a byte at least. *)
Memory == CacheConstants /\ Addresses \in Nat \ {0} /\ LineSize \in Nat \ {0} /\ Capacity \in Nat

(* ------------------------------ the invariant --------------------------- *)

Bytes == 0 .. Addresses - 1
Accessing == {"addr", "result", "tag", "data"}
Contexts ==
  [at : {"idle", "line", "ret"} \cup Accessing, op : {"none"} \cup RangeOps \cup EntryOps,
   from : Nat, size : Nat, start : Bytes, end : Bytes, did : SUBSET Lines, ret : {0, -1},
   tag : Lines \cup {-1}, data : Lines \cup {-1}, raced : BOOLEAN]
CacheShapes ==
  [kind : {"i", "d"}, uses : SUBSET {"access", "entry", "invalidate", "flush", "lock"},
   line : Nat, capacity : Nat, indirect : BOOLEAN, busy : BOOLEAN, addr : Lines,
   succeeded : BOOLEAN, valid : SUBSET Lines, dirty : SUBSET Lines, locked : SUBSET Lines,
   contexts : Seq(Contexts)]

LineOf(a) == a \div LineSize

(* Where a context is says what it has called. *)
Placed(f) == /\ f.at = "idle" => f = Idle
             /\ f.at \in Accessing => f.op \in EntryOps
             /\ f.at = "line" => f.op \in RangeOps
             /\ f.op \in EntryOps => f.from \in Lines
             /\ f.raced => f.op \in EntryOps
(* A handler that may have moved the address register leaves it raced. *)
EntrySound(f, addr) ==
  f.raced \/ /\ f.tag \in {-1, f.from} /\ f.data \in {-1, f.from}
             /\ f.at \in {"result", "tag", "data"} => addr = f.from
(* A loop over a range that does not reach the last line has done the lines*)
(* before start, and ends behind the line of the range's last byte.        *)
Looping(f) ==
  LET last == f.from + f.size - 1 IN
    /\ f.size > 0 /\ last < Addresses - LineSize /\ f.end = last
    /\ f.start = LineOf(f.start) * LineSize
    /\ LineOf(f.from) <= LineOf(f.start) /\ LineOf(f.start) <= LineOf(last) + 1
    /\ f.did = LineOf(f.from) .. LineOf(f.start) - 1
    /\ f.at = "line" => f.start <= last
    /\ f.at = "ret" /\ f.ret = 0 => LineOf(f.start) = LineOf(last) + 1
Effect(f, h) == CASE f.op = "invalidate" -> f.did \cap h.valid = {}
                  [] f.op = "flush" -> f.did \cap h.dirty \subseteq h.locked
                  [] f.op = "lock" -> f.did \subseteq h.locked
RangeSound(f, h) ==
  f.op \in RangeOps /\ ~ AtTheTop(f.from, f.size) =>
    \/ f.at = "ret" /\ f.ret = -1 /\ f.did = {}
    \/ Looping(f) /\ Effect(f, h)
CacheSound(f, h) == Placed(f) /\ EntrySound(f, h.addr) /\ RangeSound(f, h)

CacheInv == /\ cache \in CacheShapes /\ cache.locked \cup cache.dirty \subseteq cache.valid
            /\ top \in 1 .. 2 /\ (top = 2 => cache.contexts[1].raced)
            /\ \A n \in 1 .. top : CacheSound(cache.contexts[n], cache)

(* --------------------------------- lines -------------------------------- *)

(* A byte is in its line. *)
LEMMA LineOfIs ==
  ASSUME Memory, NEW a \in Nat
  PROVE  /\ LineOf(a) \in Nat /\ LineOf(a) * LineSize \in Nat
         /\ LineOf(a) * LineSize <= a /\ a < LineOf(a) * LineSize + LineSize
         /\ FirstOf(a) = LineOf(a) * LineSize
  <1> DEFINE q == a \div LineSize
  <1>1. /\ LineSize \in Nat \ {0} /\ q \in Nat /\ a % LineSize \in 0 .. LineSize - 1
        /\ a = q * LineSize + (a % LineSize)
    BY Divide DEF Memory
  <1>2. q * LineSize \in Nat /\ LineOf(a) = q
    <2> HIDE DEF q
    <2>1. q * LineSize \in Nat
      BY <1>1
    <2> QED
      BY <2>1 DEF q, LineOf
  <1> DEFINE r == a % LineSize
             p == q * LineSize
  <1>3. LineSize \in Nat /\ r \in 0 .. LineSize - 1 /\ a = p + r /\ p \in Nat
    BY <1>1, <1>2
  <1>4. FirstOf(a) = a - r
    BY DEF FirstOf
  <1> HIDE DEF p, r, q
  <1>5. FirstOf(a) = p /\ p <= a /\ a < p + LineSize
    BY <1>3, <1>4
  <1> QED
    BY <1>1, <1>2, <1>3, <1>5 DEF p

LEMMA InLine ==
  ASSUME Memory, NEW l \in Nat, NEW a \in Nat, l * LineSize <= a, a < l * LineSize + LineSize
  PROVE  LineOf(a) = l
  BY Quotient DEF Memory, LineOf

LEMMA LineSizes == Memory => LineSize \in Nat \ {0} /\ Addresses \in Nat \ {0}
  BY DEF Memory

(* An earlier byte is in an earlier line or in the same. *)
LEMMA LinesInOrder ==
  ASSUME Memory, NEW a \in Nat, NEW b \in Nat, a <= b
  PROVE  LineOf(a) <= LineOf(b)
  <1>1. /\ LineOf(a) \in Nat /\ LineOf(a) * LineSize <= a
        /\ LineOf(b) \in Nat /\ b < LineOf(b) * LineSize + LineSize
        /\ LineOf(a) * LineSize \in Nat /\ LineOf(b) * LineSize \in Nat
    BY LineOfIs
  <1>2. LineOf(b) < LineOf(a) => LineOf(b) * LineSize + LineSize <= LineOf(a) * LineSize
    BY <1>1, LineSizes, Times
  <1> QED
    BY <1>1, <1>2, LineSizes

(* The memory is made of whole lines. *)
LEMMA LinesAre ==
  ASSUME Memory
  PROVE  /\ LastLine \in Nat /\ Lines = 0 .. LastLine /\ 0 \in Lines
         /\ LastLine * LineSize = Addresses - LineSize /\ LineSize <= Addresses
         /\ \A a \in Bytes : LineOf(a) \in Lines
         /\ \A a \in Bytes : a >= Addresses - LineSize => LineOf(a) = LastLine
  <1> DEFINE N == Addresses \div LineSize
  <1>1. N \in Nat /\ Addresses = N * LineSize /\ LineSize \in Nat \ {0} /\ Addresses \in Nat \ {0}
    <2>1. LineSize \in Nat \ {0} /\ Addresses \in Nat \ {0} /\ Addresses % LineSize = 0
      BY DEF Memory, CacheConstants
    <2>2. N \in Nat /\ Addresses = N * LineSize + (Addresses % LineSize)
      BY <2>1, Divide
    <2>3. N * LineSize \in Nat
      <3> HIDE DEF N
      <3> QED
        BY <2>1, <2>2
    <2> HIDE DEF N
    <2> QED
      BY <2>1, <2>2, <2>3
  <1>2. LastLine = N - 1 /\ Lines = 0 .. N - 1
    BY DEF LastLine, Lines
  <1> HIDE DEF N
  <1>3. N # 0
    BY <1>1
  <1>4. N - 1 \in Nat /\ (N - 1 + 1) * LineSize = (N - 1) * LineSize + LineSize
        /\ (N - 1) * LineSize \in Nat /\ N - 1 + 1 = N
    BY <1>1, <1>3, Times
  <1>5. (N - 1) * LineSize = Addresses - LineSize /\ LineSize <= Addresses
    BY <1>1, <1>4
  <1>6. ASSUME NEW a \in Bytes
        PROVE  /\ LineOf(a) \in 0 .. N - 1
               /\ a >= Addresses - LineSize => LineOf(a) = N - 1
    <2>1. a \in Nat /\ a < Addresses
      BY <1>1 DEF Bytes
    <2>2. LineOf(a) \in Nat /\ LineOf(a) * LineSize <= a /\ LineOf(a) * LineSize \in Nat
      BY <2>1, LineOfIs
    <2>3. N <= LineOf(a) => N * LineSize <= LineOf(a) * LineSize
      BY <1>1, <2>2, Times
    <2>4. LineOf(a) \in 0 .. N - 1
      BY <1>1, <2>1, <2>2, <2>3
    <2>5. a >= Addresses - LineSize => LineOf(a) = N - 1
      BY <1>1, <1>4, <1>5, <2>1, InLine
    <2> QED
      BY <2>4, <2>5
  <1>7. 0 \in 0 .. N - 1
    BY <1>4
  <1> QED
    BY <1>2, <1>4, <1>5, <1>6, <1>7

LEMMA WrapIs ==
  ASSUME Memory, NEW a \in Nat
  PROVE  Wrap(a) \in Bytes /\ (a < Addresses => Wrap(a) = a)
  <1>1. Addresses \in Nat \ {0}
    BY LineSizes
  <1>2. \A n \in Nat \ {0} : \A x \in Nat : x % n \in 0 .. n - 1 /\ (x < n => x % n = x)
    OBVIOUS
  <1> QED
    BY <1>1, <1>2 DEF Wrap, Bytes

(* A range that does not touch the last line ends before it, and touches   *)
(* the lines from its first byte's to its last byte's.                     *)
LEMMA TouchedIs ==
  ASSUME Memory, NEW from \in Bytes, NEW size \in Nat \ {0}, ~ AtTheTop(from, size)
  PROVE  /\ from + size - 1 < Addresses - LineSize
         /\ Touched(from, size) = LineOf(from) .. LineOf(from + size - 1)
  <1> DEFINE last == from + size - 1
  <1>1. /\ LineSize \in Nat \ {0} /\ Addresses \in Nat \ {0} /\ from \in Nat /\ from < Addresses
        /\ last \in Nat /\ from <= last
    BY LineSizes DEF Bytes
  <1>2. \A i \in 0 .. size - 1 : LineOf(Wrap(from + i)) \in Touched(from, size)
    BY DEF Touched, LineOf
  <1>3. last < Addresses - LineSize
    <2> SUFFICES ASSUME ~ last < Addresses - LineSize
                 PROVE  FALSE
      OBVIOUS
    <2>1. \E i \in 0 .. size - 1 : from + i < Addresses /\ from + i >= Addresses - LineSize
      <3>1. CASE last < Addresses
        <4>1. size - 1 \in 0 .. size - 1 /\ from + (size - 1) = last
          OBVIOUS
        <4> QED
          BY <1>1, <3>1, <4>1
      <3>2. CASE ~ last < Addresses
        <4> DEFINE i == Addresses - 1 - from
        <4>1. i \in 0 .. size - 1 /\ from + i = Addresses - 1
          BY <1>1, <3>2
        <4>2. from + i < Addresses /\ from + i >= Addresses - LineSize
          BY <1>1, <4>1
        <4> HIDE DEF i
        <4> QED
          BY <4>1, <4>2
      <3> QED
        BY <3>1, <3>2
    <2>2. PICK i \in 0 .. size - 1 : from + i < Addresses /\ from + i >= Addresses - LineSize
      BY <2>1
    <2>3. from + i \in Nat /\ Wrap(from + i) = from + i /\ from + i \in Bytes
      BY <1>1, <2>2, WrapIs DEF Bytes
    <2>4. LastLine \in Touched(from, size)
      BY <1>2, <2>2, <2>3, LinesAre
    <2> QED
      BY <2>4 DEF AtTheTop
  <1>4. \A i \in 0 .. size - 1 : Wrap(from + i) = from + i /\ from + i \in Nat /\ from <= from + i
                                 /\ from + i <= last
    BY <1>1, <1>3, WrapIs
  <1>5. Touched(from, size) = {LineOf(from + i) : i \in 0 .. size - 1}
    BY <1>4 DEF Touched, LineOf
  <1>6. \A i \in 0 .. size - 1 : LineOf(from + i) \in LineOf(from) .. LineOf(last)
    <2> TAKE i \in 0 .. size - 1
    <2>1. LineOf(from) <= LineOf(from + i) /\ LineOf(from + i) <= LineOf(last)
      BY <1>1, <1>4, LinesInOrder
    <2>2. LineOf(from) \in Nat /\ LineOf(from + i) \in Nat /\ LineOf(last) \in Nat
      BY <1>1, <1>4, LineOfIs
    <2> QED
      BY <2>1, <2>2
  <1>7. ASSUME NEW l \in LineOf(from) .. LineOf(last)
        PROVE  \E i \in 0 .. size - 1 : l = LineOf(from + i)
    <2>0. LineOf(from) \in Nat /\ LineOf(last) \in Nat /\ l \in Nat
      BY <1>1, LineOfIs
    <2>1. CASE l = LineOf(from)
      <3>1. 0 \in 0 .. size - 1 /\ from + 0 = from
        BY <1>1
      <3> QED
        BY <2>1, <3>1
    <2>2. CASE l # LineOf(from)
      <3> DEFINE a == l * LineSize
      <3>1. /\ LineOf(from) * LineSize + LineSize <= a /\ a <= LineOf(last) * LineSize /\ a \in Nat
        BY <1>1, <2>0, <2>2, Times
      <3>2. LineOf(a) = l
        BY <1>1, <2>0, <3>1, InLine
      <3>3. /\ from < LineOf(from) * LineSize + LineSize /\ LineOf(last) * LineSize <= last
            /\ LineOf(from) * LineSize \in Nat /\ LineOf(last) * LineSize \in Nat
        BY <1>1, LineOfIs
      <3> HIDE DEF a
      <3>4. a - from \in 0 .. size - 1 /\ from + (a - from) = a
        BY <1>1, <3>1, <3>3
      <3> QED
        BY <3>2, <3>4
    <2> QED
      BY <2>1, <2>2
  <1> QED
    BY <1>3, <1>5, <1>6, <1>7

(* One turn of a loop before the last line. *)
LEMMA NextLine ==
  ASSUME Memory, NEW start \in Bytes, NEW last \in Nat, last < Addresses - LineSize, start <= last,
         start = LineOf(start) * LineSize
  PROVE  /\ Wrap(start + LineSize) = start + LineSize
         /\ LineOf(start + LineSize) = LineOf(start) + 1
         /\ LineOf(start) \in Nat /\ LineOf(start) <= LineOf(last) /\ LineOf(last) \in Nat
         /\ start + LineSize = LineOf(start + LineSize) * LineSize
         /\ ~ start + LineSize <= last => LineOf(last) = LineOf(start)
  <1>1. /\ LineSize \in Nat \ {0} /\ Addresses \in Nat \ {0} /\ start \in Nat
        /\ start + LineSize \in Nat /\ start + LineSize < Addresses
    BY LineSizes DEF Bytes
  <1>2. Wrap(start + LineSize) = start + LineSize
    BY <1>1, WrapIs
  <1>3. LineOf(start) \in Nat /\ LineOf(start) <= LineOf(last) /\ LineOf(last) \in Nat
    BY <1>1, LineOfIs, LinesInOrder
  <1>4. (LineOf(start) + 1) * LineSize = start + LineSize
    BY <1>1, <1>3, Times
  <1>5. LineOf(start + LineSize) = LineOf(start) + 1
    BY <1>1, <1>3, <1>4, InLine
  <1>6. ~ start + LineSize <= last => LineOf(last) = LineOf(start)
    BY <1>1, <1>3, InLine
  <1> QED
    BY <1>2, <1>3, <1>4, <1>5, <1>6

(* --------------------------------- types -------------------------------- *)

(* A field with a new value of its type. *)
LEMMA ContextShaped ==
  ASSUME NEW f \in Contexts
  PROVE  /\ \A w \in {"idle", "line", "ret"} \cup Accessing : [f EXCEPT !.at = w] \in Contexts
         /\ \A w \in {"none"} \cup RangeOps \cup EntryOps : [f EXCEPT !.op = w] \in Contexts
         /\ \A w \in Nat : [f EXCEPT !.from = w] \in Contexts /\ [f EXCEPT !.size = w] \in Contexts
         /\ \A w \in Bytes : [f EXCEPT !.start = w] \in Contexts /\ [f EXCEPT !.end = w] \in Contexts
         /\ \A w \in SUBSET Lines : [f EXCEPT !.did = w] \in Contexts
         /\ \A w \in Lines : [f EXCEPT !.tag = w] \in Contexts /\ [f EXCEPT !.data = w] \in Contexts
         /\ [f EXCEPT !.ret = -1] \in Contexts /\ [f EXCEPT !.raced = TRUE] \in Contexts
  <1>1. \A w \in {"idle", "line", "ret"} \cup Accessing : [f EXCEPT !.at = w] \in Contexts
    BY DEF Contexts
  <1>2. \A w \in {"none"} \cup RangeOps \cup EntryOps : [f EXCEPT !.op = w] \in Contexts
    BY DEF Contexts
  <1>3. \A w \in Nat : [f EXCEPT !.from = w] \in Contexts /\ [f EXCEPT !.size = w] \in Contexts
    BY DEF Contexts
  <1>4. \A w \in Bytes : [f EXCEPT !.start = w] \in Contexts /\ [f EXCEPT !.end = w] \in Contexts
    BY DEF Contexts
  <1>5. \A w \in SUBSET Lines : [f EXCEPT !.did = w] \in Contexts
    BY DEF Contexts
  <1>6. \A w \in Lines : [f EXCEPT !.tag = w] \in Contexts /\ [f EXCEPT !.data = w] \in Contexts
    BY DEF Contexts
  <1>7. [f EXCEPT !.ret = -1] \in Contexts /\ [f EXCEPT !.raced = TRUE] \in Contexts
    BY DEF Contexts
  <1> QED
    BY <1>1, <1>2, <1>3, <1>4, <1>5, <1>6, <1>7

LEMMA CacheShaped ==
  ASSUME NEW h \in CacheShapes
  PROVE  /\ \A w \in Nat : [h EXCEPT !.line = w] \in CacheShapes /\ [h EXCEPT !.capacity = w] \in CacheShapes
         /\ \A w \in BOOLEAN : /\ [h EXCEPT !.indirect = w] \in CacheShapes /\ [h EXCEPT !.busy = w] \in CacheShapes
                               /\ [h EXCEPT !.succeeded = w] \in CacheShapes
         /\ \A w \in Lines : [h EXCEPT !.addr = w] \in CacheShapes
         /\ \A w \in SUBSET Lines : /\ [h EXCEPT !.valid = w] \in CacheShapes /\ [h EXCEPT !.dirty = w] \in CacheShapes
                                    /\ [h EXCEPT !.locked = w] \in CacheShapes
         /\ \A w \in Seq(Contexts) : [h EXCEPT !.contexts = w] \in CacheShapes
  <1>1. \A w \in Nat : [h EXCEPT !.line = w] \in CacheShapes /\ [h EXCEPT !.capacity = w] \in CacheShapes
    BY DEF CacheShapes
  <1>2. ASSUME NEW w \in BOOLEAN
        PROVE  /\ [h EXCEPT !.indirect = w] \in CacheShapes /\ [h EXCEPT !.busy = w] \in CacheShapes
               /\ [h EXCEPT !.succeeded = w] \in CacheShapes
    BY DEF CacheShapes
  <1>3. \A w \in Lines : [h EXCEPT !.addr = w] \in CacheShapes
    BY DEF CacheShapes
  <1>4. ASSUME NEW w \in SUBSET Lines
        PROVE  /\ [h EXCEPT !.valid = w] \in CacheShapes /\ [h EXCEPT !.dirty = w] \in CacheShapes
               /\ [h EXCEPT !.locked = w] \in CacheShapes
    BY DEF CacheShapes
  <1>5. \A w \in Seq(Contexts) : [h EXCEPT !.contexts = w] \in CacheShapes
    BY DEF CacheShapes
  <1> QED
    BY <1>1, <1>2, <1>3, <1>4, <1>5

LEMMA IdleIs ==
  ASSUME Memory
  PROVE  Idle \in Contexts /\ \A h : CacheSound(Idle, h)
  <1>1. Addresses \in Nat \ {0}
    BY LineSizes
  <1>2. Idle \in Contexts
    BY <1>1 DEF Idle, Contexts, Bytes
  <1>3. \A h : Placed(Idle) /\ EntrySound(Idle, h.addr) /\ RangeSound(Idle, h)
    BY DEF Idle, Placed, EntrySound, RangeSound, Accessing, RangeOps, EntryOps
  <1> QED
    BY <1>2, <1>3 DEF CacheSound

(* -------------------------------- contexts ------------------------------ *)

(* The top of the stack is one of its places. *)
LEMMA TopIs ==
  ASSUME top \in 1 .. 2
  PROVE  top \in 1 .. Len(cache.contexts)
  <1>1. \A n \in 1 .. 2 : n \in 1 .. n
    OBVIOUS
  <1>2. top \in 1 .. top
    BY <1>1
  <1>3. top = Len(cache.contexts)
    BY DEF top
  <1> QED
    BY <1>2, <1>3

LEMMA MeIs ==
  ASSUME CacheInv
  PROVE  /\ top \in 1 .. 2 /\ cache.contexts \in Seq(Contexts) /\ me \in Contexts
         /\ Placed(me) /\ EntrySound(me, cache.addr) /\ RangeSound(me, cache)
  <1>1. top \in 1 .. 2 /\ cache.contexts \in Seq(Contexts)
    BY DEF CacheInv, CacheShapes
  <1>2. me \in Contexts
    <2>1. top = Len(cache.contexts) /\ me = cache.contexts[top]
      BY DEF top, me
    <2>2. \A s \in Seq(Contexts) : \A n \in 1 .. Len(s) : s[n] \in Contexts
      OBVIOUS
    <2>3. top \in 1 .. Len(cache.contexts)
      BY <1>1, TopIs
    <2> QED
      BY <1>1, <2>1, <2>2, <2>3
  <1>3. CacheSound(me, cache)
    BY <1>1 DEF CacheInv, me
  <1> QED
    BY <1>1, <1>2, <1>3 DEF CacheSound

LEMMA StackIs ==
  ASSUME CacheInv, NEW f \in Contexts
  PROVE  [cache.contexts EXCEPT ![top] = f] \in Seq(Contexts)
  <1>1. cache.contexts \in Seq(Contexts) /\ top \in 1 .. 2
    BY MeIs
  <1>2. top \in 1 .. Len(cache.contexts)
    BY <1>1, TopIs
  <1> QED
    BY <1>1, <1>2, ExceptSeq

(* A context that a handler has cut does not depend on the cache. *)
LEMMA RacedSound ==
  ASSUME NEW f, Placed(f), f.raced, NEW h
  PROVE  CacheSound(f, h)
  BY DEF Placed, CacheSound, EntrySound, RangeSound, RangeOps, EntryOps

(* A step of the context at work. *)
LEMMA StackKept ==
  ASSUME CacheInv, NEW f \in Contexts, cache'.contexts = [cache.contexts EXCEPT ![top] = f],
         CacheSound(f, cache')
  PROVE  /\ cache'.contexts \in Seq(Contexts) /\ top' = top
         /\ top' = 2 => cache'.contexts[1].raced
         /\ \A n \in 1 .. top' : CacheSound(cache'.contexts[n], cache')
  <1>1. cache.contexts \in Seq(Contexts) /\ top \in 1 .. 2 /\ top = Len(cache.contexts)
    BY MeIs DEF top
  <1>2. /\ cache'.contexts \in Seq(Contexts) /\ Len(cache'.contexts) = top
        /\ \A n \in 1 .. top : cache'.contexts[n] = IF n = top THEN f ELSE cache.contexts[n]
    BY <1>1
  <1>3. top' = top
    BY <1>2 DEF top
  <1>4. ASSUME NEW n \in 1 .. top, n # top
        PROVE  cache.contexts[n].raced /\ Placed(cache.contexts[n])
    BY <1>1, <1>4 DEF CacheInv, CacheSound
  <1>5. ASSUME NEW n \in 1 .. top
        PROVE  CacheSound(cache'.contexts[n], cache')
    <2>1. CASE n = top
      BY <1>2, <2>1
    <2>2. CASE n # top
      BY <1>2, <1>4, <2>2, RacedSound
    <2> QED
      BY <2>1, <2>2
  <1>6. top = 2 => cache'.contexts[1].raced
    BY <1>2, <1>4
  <1> QED
    BY <1>2, <1>3, <1>5, <1>6

(* A step of the cache. *)
LEMMA SameStackKept ==
  ASSUME CacheInv, cache'.contexts = cache.contexts, CacheSound(me, cache')
  PROVE  /\ top' = top
         /\ top' = 2 => cache'.contexts[1].raced
         /\ \A n \in 1 .. top' : CacheSound(cache'.contexts[n], cache')
  <1>1. cache.contexts \in Seq(Contexts) /\ top \in 1 .. 2 /\ me \in Contexts /\ top' = top
    BY MeIs DEF top
  <1>2. cache'.contexts = [cache.contexts EXCEPT ![top] = me]
    BY <1>1 DEF me
  <1> QED
    BY <1>1, <1>2, StackKept

(* The handler's context goes. *)
LEMMA StackPopped ==
  ASSUME CacheInv, top = 2, cache' = [cache EXCEPT !.contexts = SubSeq(cache.contexts, 1, 1)]
  PROVE  CacheInv'
  <1>1. cache.contexts \in Seq(Contexts) /\ Len(cache.contexts) = 2 /\ cache \in CacheShapes
    BY MeIs DEF top, CacheInv
  <1> DEFINE s == SubSeq(cache.contexts, 1, 1)
  <1>2. s \in Seq(Contexts) /\ Len(s) = 1 /\ s[1] = cache.contexts[1]
    BY <1>1
  <1>3. Placed(cache.contexts[1]) /\ cache.contexts[1].raced
    BY <1>1 DEF CacheInv, CacheSound, top
  <1>4. CacheSound(cache.contexts[1], cache')
    BY <1>3, RacedSound
  <1> HIDE DEF s
  <1>5. /\ cache' \in CacheShapes /\ cache'.contexts = s
        /\ cache'.locked = cache.locked /\ cache'.dirty = cache.dirty /\ cache'.valid = cache.valid
    <2>1. cache' = [cache EXCEPT !.contexts = s]
      BY DEF s
    <2>2. cache' \in CacheShapes
      BY <1>1, <1>2, <2>1, CacheShaped
    <2> QED
      BY <1>1, <2>1, <2>2 DEF CacheShapes
  <1>6. top' = 1
    BY <1>2, <1>5 DEF top
  <1> QED
    BY <1>2, <1>4, <1>5, <1>6 DEF CacheInv

(* ------------------------------- the steps ------------------------------ *)

(* What a context's place and its lines' effect depend on. *)
LEMMA SameSound ==
  ASSUME NEW f, NEW g, NEW h, CacheSound(f, g), h.addr = g.addr, h.valid = g.valid, h.dirty = g.dirty,
         h.locked = g.locked
  PROVE  CacheSound(f, h)
  BY DEF CacheSound, RangeSound, Effect

(* The context at work moves on, and nothing else. *)
LEMMA MeKept ==
  ASSUME CacheInv, NEW f \in Contexts, CacheSound(f, cache), cache' = With(f)
  PROVE  CacheInv'
  <1> DEFINE s == [cache.contexts EXCEPT ![top] = f]
  <1>1. cache \in CacheShapes /\ cache.contexts \in Seq(Contexts) /\ top \in 1 .. 2
    BY MeIs DEF CacheInv
  <1>2. cache' = [cache EXCEPT !.contexts = s] /\ s \in Seq(Contexts)
    BY StackIs DEF With
  <1>3. /\ cache' \in CacheShapes /\ cache'.contexts = s /\ cache'.addr = cache.addr
        /\ cache'.locked = cache.locked /\ cache'.dirty = cache.dirty /\ cache'.valid = cache.valid
    <2> HIDE DEF s
    <2>1. cache' \in CacheShapes
      BY <1>1, <1>2, CacheShaped
    <2> QED
      BY <1>1, <1>2, <2>1 DEF CacheShapes
  <1>4. CacheSound(f, cache')
    BY <1>3, SameSound
  <1> QED
    BY <1>3, <1>4, StackKept DEF CacheInv

LEMMA FlushDoneSound ==
  ASSUME CacheInv, FlushDone
  PROVE  CacheInv'
  <1>1. cache \in CacheShapes /\ cache' = [cache EXCEPT !.busy = FALSE] /\ CacheSound(me, cache)
    BY MeIs DEF FlushDone, Set, CacheInv, CacheSound
  <1>2. cache' \in CacheShapes /\ UNCHANGED <<cache.contexts, cache.addr, cache.locked, cache.dirty, cache.valid>>
    BY <1>1 DEF CacheShapes
  <1>3. CacheSound(me, cache')
    BY <1>1, <1>2, SameSound
  <1> QED
    BY <1>2, <1>3, SameStackKept DEF CacheInv

(* Between two calls the program, arc_cache_init or a change of the access *)
(* mode may do anything to the cache.                                      *)
LEMMA IdleKept ==
  ASSUME Memory, CacheInv, me.at = "idle", cache' \in CacheShapes, cache'.contexts = cache.contexts,
         cache'.locked \cup cache'.dirty \subseteq cache'.valid
  PROVE  CacheInv'
  <1>1. CacheSound(me, cache')
    BY MeIs, IdleIs DEF Placed
  <1> QED
    BY <1>1, SameStackKept DEF CacheInv

LEMMA ProgramOk ==
  ASSUME Memory, CacheInv, Store \/ Fetch \/ arc_cache_init \/ AccessMode
  PROVE  CacheInv'
  <1>1. cache \in CacheShapes /\ cache.locked \cup cache.dirty \subseteq cache.valid
    BY DEF CacheInv
  <1>2. CASE Store
    <2>1. PICK l \in Lines : cache' = [cache EXCEPT !.valid = cache.valid \cup {l}, !.dirty = cache.dirty \cup {l}]
      BY <1>2 DEF Store, Set
    <2>2. cache' \in CacheShapes /\ cache'.contexts = cache.contexts
          /\ cache'.locked \cup cache'.dirty \subseteq cache'.valid
      BY <1>1, <2>1 DEF CacheShapes
    <2> QED
      BY <1>2, <2>2, IdleKept DEF Store
  <1>3. CASE Fetch
    <2>1. PICK l \in Lines : cache' = [cache EXCEPT !.valid = cache.valid \cup {l}]
      BY <1>3 DEF Fetch, Set
    <2>2. cache' \in CacheShapes /\ cache'.contexts = cache.contexts
          /\ cache'.locked \cup cache'.dirty \subseteq cache'.valid
      BY <1>1, <2>1 DEF CacheShapes
    <2> QED
      BY <1>3, <2>2, IdleKept DEF Fetch
  <1>4. CASE arc_cache_init
    <2> DEFINE mode == cache.kind = "d"
    <2>1. mode \in BOOLEAN /\ LineSize \in Nat /\ Capacity \in Nat
      BY DEF Memory
    <2>2. cache' = [cache EXCEPT !.line = LineSize, !.capacity = Capacity, !.indirect = mode,
                                 !.valid = {}, !.dirty = {}, !.locked = {}]
      BY <1>4 DEF arc_cache_init, Set
    <2> HIDE DEF mode
    <2>3. cache' \in CacheShapes
      <3>1. {} \in SUBSET Lines
        OBVIOUS
      <3> QED
        BY <1>1, <2>1, <2>2, <3>1, CacheShaped
    <2>4. cache'.contexts = cache.contexts /\ cache'.locked \cup cache'.dirty \subseteq cache'.valid
      BY <1>1, <2>2 DEF CacheShapes
    <2> QED
      BY <1>4, <2>3, <2>4, IdleKept DEF arc_cache_init
  <1>5. CASE AccessMode
    <2> DEFINE mode == ~ cache.indirect
    <2>1. mode \in BOOLEAN
      OBVIOUS
    <2>2. cache' = [cache EXCEPT !.indirect = mode]
      BY <1>5 DEF AccessMode, Set
    <2> HIDE DEF mode
    <2>3. cache' \in CacheShapes /\ cache'.contexts = cache.contexts
          /\ cache'.locked \cup cache'.dirty \subseteq cache'.valid
      BY <1>1, <2>1, <2>2 DEF CacheShapes
    <2> QED
      BY <1>5, <2>3, IdleKept DEF AccessMode
  <1> QED
    BY <1>2, <1>3, <1>4, <1>5

LEMMA HandlerSound ==
  ASSUME Memory, CacheInv, Return \/ Interrupt \/ HandlerLeaves
  PROVE  CacheInv'
  <1>1. cache \in CacheShapes /\ cache.contexts \in Seq(Contexts) /\ top \in 1 .. 2 /\ me \in Contexts
        /\ Placed(me) /\ top = Len(cache.contexts)
    BY MeIs DEF CacheInv, top
  <1>2. CASE top = 1 /\ Return
    BY <1>2, IdleIs, MeKept DEF Return, Set
  <1>3. CASE top = 2 /\ (Return \/ HandlerLeaves)
    <2>1. cache' = [cache EXCEPT !.contexts = SubSeq(cache.contexts, 1, 1)]
      BY <1>3 DEF Return, HandlerLeaves, Set
    <2> QED
      BY <1>3, <2>1, StackPopped
  <1>4. CASE Interrupt
    <2> DEFINE c == [me EXCEPT !.raced = TRUE]
               s == <<c, Idle>>
    <2>1. top = 1 /\ me.at \in Accessing /\ cache' = [cache EXCEPT !.contexts = s]
      BY <1>4 DEF Interrupt, Set, Accessing
    <2>2. c \in Contexts /\ Idle \in Contexts
      BY <1>1, IdleIs, ContextShaped
    <2>3. Placed(c) /\ c.raced
      BY <1>1, <2>1 DEF Placed, Contexts, Accessing
    <2>4. CacheSound(c, cache') /\ CacheSound(Idle, cache')
      BY <2>3, RacedSound, IdleIs
    <2>5. s \in Seq(Contexts) /\ Len(s) = 2 /\ s[1] = c /\ s[2] = Idle
      BY <2>2
    <2> HIDE DEF c, s
    <2>6. /\ cache' \in CacheShapes /\ cache'.contexts = s
          /\ cache'.locked = cache.locked /\ cache'.dirty = cache.dirty /\ cache'.valid = cache.valid
      <3>1. cache' \in CacheShapes
        BY <1>1, <2>1, <2>5, CacheShaped
      <3> QED
        BY <1>1, <2>1, <3>1 DEF CacheShapes
    <2>7. top' = 2
      BY <2>5, <2>6 DEF top
    <2>8. \A n \in 1 .. 2 : CacheSound(s[n], cache')
      BY <2>4, <2>5
    <2> QED
      BY <2>3, <2>5, <2>6, <2>7, <2>8 DEF CacheInv
  <1>5. top = 1 => ~ HandlerLeaves
    BY DEF HandlerLeaves
  <1> QED
    BY <1>1, <1>2, <1>3, <1>4, <1>5

(* ------------------------------- ranges --------------------------------- *)

LEMMA MlinesSound ==
  ASSUME Memory, CacheInv, NEW op \in RangeOps, NEW r \in Ranges, Mlines(op, r)
  PROVE  CacheInv'
  <1> DEFINE from == r[1]
             size == r[2]
             bad == [Idle EXCEPT !.op = op, !.from = from, !.size = size, !.at = "ret", !.ret = -1]
             last == from + size - 1
             good == [Idle EXCEPT !.op = op, !.from = from, !.size = size, !.at = "line",
                                  !.start = FirstOf(from), !.end = Wrap(last)]
  <1>1. from \in Bytes /\ from \in Nat /\ size \in Nat /\ Addresses \in Nat /\ LineSize \in Nat \ {0}
    BY DEF Memory, CacheConstants, Bytes
  <1>2. /\ size = 0 => cache' = With(bad)
        /\ cache' \in {With(bad), With(good)}
    BY DEF Mlines, Set
  <1>3. /\ Idle \in Contexts /\ Idle.tag = -1 /\ Idle.data = -1 /\ Idle.did = {} /\ Idle.raced = FALSE
        /\ Idle.ret = 0
    BY IdleIs DEF Idle
  <1>4. /\ FirstOf(from) = LineOf(from) * LineSize /\ LineOf(from) \in Nat
        /\ FirstOf(from) \in Bytes /\ FirstOf(from) <= from
    <2>1. /\ FirstOf(from) = LineOf(from) * LineSize /\ LineOf(from) \in Nat
          /\ LineOf(from) * LineSize \in Nat /\ LineOf(from) * LineSize <= from
      BY <1>1, LineOfIs
    <2>2. FirstOf(from) \in Nat /\ FirstOf(from) <= from
      BY <2>1
    <2>3. from < Addresses
      BY <1>1 DEF Bytes
    <2>4. FirstOf(from) \in Bytes
      BY <1>1, <2>2, <2>3 DEF Bytes
    <2> QED
      BY <2>1, <2>2, <2>4
  <1> HIDE DEF from, size
  <1>5. bad \in Contexts /\ CacheSound(bad, cache)
    <2>1. bad \in Contexts
      BY <1>1, <1>3, ContextShaped
    <2>2. bad.at = "ret" /\ bad.ret = -1 /\ bad.did = {} /\ bad.op = op /\ ~ bad.raced
          /\ bad.tag = -1 /\ bad.data = -1
      BY <1>3 DEF Contexts
    <2> HIDE DEF bad
    <2>3. Placed(bad) /\ EntrySound(bad, cache.addr) /\ RangeSound(bad, cache)
      BY <2>2 DEF Placed, EntrySound, RangeSound, Accessing, RangeOps, EntryOps
    <2> QED
      BY <2>1, <2>3 DEF CacheSound
  <1>6. ASSUME size # 0
        PROVE  good \in Contexts /\ CacheSound(good, cache)
    <2>0. last \in Nat /\ from <= last /\ size \in Nat \ {0}
      BY <1>1, <1>6
    <2>1. good \in Contexts
      <3>1. Wrap(last) \in Bytes
        BY <2>0, WrapIs
      <3> QED
        BY <1>1, <1>3, <1>4, <3>1, ContextShaped
    <2>2. /\ good.at = "line" /\ good.ret = 0 /\ good.did = {} /\ good.op = op /\ ~ good.raced
          /\ good.tag = -1 /\ good.data = -1 /\ good.from = from /\ good.size = size
          /\ good.start = FirstOf(from) /\ good.end = Wrap(last)
      BY <1>3 DEF Contexts
    <2> HIDE DEF good
    <2>3. Placed(good) /\ EntrySound(good, cache.addr)
      BY <2>2 DEF Placed, EntrySound, Accessing, RangeOps, EntryOps
    <2>4. ~ AtTheTop(from, size) => Looping(good)
      <3> HAVE ~ AtTheTop(from, size)
      <3>1. last < Addresses - LineSize /\ Wrap(last) = last
        BY <1>1, <2>0, TouchedIs, WrapIs
      <3>2. LineOf(FirstOf(from)) = LineOf(from)
        <4>1. LineOf(from) * LineSize \in Nat
          BY <1>1, LineOfIs
        <4> QED
          BY <1>1, <1>4, <4>1, InLine
      <3>3. LineOf(from) <= LineOf(last) /\ LineOf(last) \in Nat
        BY <1>1, <2>0, LinesInOrder, LineOfIs
      <3>4. {} = LineOf(from) .. LineOf(from) - 1
        BY <1>4
      <3>5. FirstOf(from) <= last
        BY <1>1, <1>4, <2>0 DEF Bytes
      <3> HIDE DEF last
      <3>6. good.from + good.size - 1 = last
        BY <2>2 DEF last
      <3> QED
        BY <1>1, <1>4, <1>6, <2>0, <2>2, <3>1, <3>2, <3>3, <3>4, <3>5, <3>6 DEF Looping
    <2>5. Effect(good, cache)
      BY <2>2 DEF Effect, RangeOps
    <2> QED
      BY <2>1, <2>2, <2>3, <2>4, <2>5 DEF CacheSound, RangeSound
  <1> QED
    BY <1>2, <1>5, <1>6, MeKept

LEMMA TurnIs ==
  ASSUME Memory, CacheInv, me.at = "line"
  PROVE  /\ Turn(me) \in Contexts /\ Placed(Turn(me)) /\ \A addr : EntrySound(Turn(me), addr)
         /\ LineOf(me.start) \in Lines /\ Turn(me).did = me.did \cup {LineOf(me.start)}
         /\ Turn(me).op = me.op /\ me.op \in RangeOps /\ Turn(me).from = me.from /\ Turn(me).size = me.size
         /\ ~ AtTheTop(me.from, me.size) => Looping(me) /\ Effect(me, cache) /\ Looping(Turn(me))
  <1> DEFINE l == LineOf(me.start)
             f == Turn(me)
             at == IF Wrap(me.start + LineSize) <= me.end THEN "line" ELSE "ret"
  <1>1. /\ me \in Contexts /\ me.start \in Bytes /\ me.start \in Nat /\ me.did \in SUBSET Lines
        /\ me.op \in RangeOps /\ ~ me.raced /\ me.from \in Nat /\ me.size \in Nat /\ me.end \in Bytes
        /\ LineSize \in Nat \ {0} /\ Addresses \in Nat \ {0}
    BY MeIs, LineSizes DEF Placed, Contexts, RangeOps, EntryOps, Bytes
  <1>2. l \in Lines /\ Wrap(me.start + LineSize) \in Bytes
    <2>1. me.start + LineSize \in Nat
      BY <1>1
    <2>2. Wrap(me.start + LineSize) \in Bytes
      BY <2>1, WrapIs
    <2>3. l \in Lines
      BY <1>1, LinesAre
    <2> QED
      BY <2>2, <2>3
  <1>3. f = [me EXCEPT !.start = Wrap(me.start + LineSize), !.did = me.did \cup {l}, !.at = at]
    BY <1>1 DEF Turn, LineOf, Contexts
  <1>4. at \in {"line", "ret"} /\ (at = "line" <=> Wrap(me.start + LineSize) <= me.end)
    OBVIOUS
  <1> HIDE DEF at, l, f
  <1>5. f \in Contexts
    BY <1>1, <1>2, <1>3, <1>4, ContextShaped, ZenonT(60)
  <1>6. /\ f.at = at /\ f.op = me.op /\ f.from = me.from /\ f.size = me.size /\ f.raced = me.raced
        /\ f.start = Wrap(me.start + LineSize) /\ f.end = me.end /\ f.did = me.did \cup {l}
        /\ f.tag = me.tag /\ f.data = me.data /\ f.ret = me.ret
    BY <1>1, <1>3 DEF Contexts
  <1>7. Placed(f)
    BY <1>1, <1>4, <1>6 DEF Placed, Accessing, RangeOps, EntryOps
  <1>8. \A addr : EntrySound(f, addr)
    BY <1>1, <1>4, <1>6, MeIs DEF EntrySound
  <1>9. ASSUME ~ AtTheTop(me.from, me.size)
        PROVE  Looping(me) /\ Effect(me, cache) /\ Looping(f)
    <2>1. Looping(me) /\ Effect(me, cache)
      BY <1>1, <1>9, MeIs DEF RangeSound
    <2> DEFINE last == me.from + me.size - 1
               k == LineOf(me.start)
    <2>2. /\ me.size > 0 /\ last < Addresses - LineSize /\ me.end = last /\ last \in Nat
          /\ me.start = k * LineSize /\ LineOf(me.from) <= k /\ me.did = LineOf(me.from) .. k - 1
          /\ me.start <= last
      BY <1>1, <2>1 DEF Looping
    <2>3. /\ Wrap(me.start + LineSize) = me.start + LineSize
          /\ LineOf(me.start + LineSize) = k + 1 /\ k \in Nat /\ k <= LineOf(last) /\ LineOf(last) \in Nat
          /\ me.start + LineSize = LineOf(me.start + LineSize) * LineSize
          /\ ~ me.start + LineSize <= last => LineOf(last) = k
      BY <1>1, <2>2, NextLine
    <2>4. LineOf(me.from) \in Nat /\ l = k
      BY <1>1, LineOfIs DEF l
    <2> HIDE DEF last, k
    <2>5. f.did = LineOf(me.from) .. (k + 1) - 1
      BY <1>6, <2>2, <2>3, <2>4
    <2>6. /\ LineOf(f.start) = k + 1 /\ f.start = LineOf(f.start) * LineSize /\ f.end = last
          /\ f.from + f.size - 1 = last
          /\ f.at = "line" => f.start <= last
          /\ f.at = "ret" => k = LineOf(last)
      BY <1>4, <1>6, <2>2, <2>3 DEF last
    <2>7. /\ f.size > 0 /\ last < Addresses - LineSize /\ LineOf(f.from) <= k + 1
          /\ k + 1 <= LineOf(last) + 1
      BY <1>6, <2>2, <2>3, <2>4
    <2>8. Looping(f)
      BY <1>6, <2>5, <2>6, <2>7 DEF Looping
    <2> QED
      BY <2>1, <2>8
  <1> QED
    BY <1>1, <1>2, <1>5, <1>6, <1>7, <1>8, <1>9 DEF f, l

(* A line invalidated, flushed or locked is so when the loop has gone on.  *)
LEMMA LineSound ==
  ASSUME Memory, CacheInv, Line
  PROVE  CacheInv'
  <1> DEFINE f == Turn(me)
             l == LineOf(me.start)
             s == [cache.contexts EXCEPT ![top] = f]
  <1>1. /\ cache \in CacheShapes /\ cache.contexts \in Seq(Contexts) /\ top \in 1 .. 2
        /\ cache.locked \cup cache.dirty \subseteq cache.valid /\ me \in Contexts /\ me.at = "line"
    BY MeIs DEF CacheInv, Line
  <1>2. /\ f \in Contexts /\ Placed(f) /\ (\A addr : EntrySound(f, addr)) /\ l \in Lines
        /\ f.did = me.did \cup {l} /\ f.op = me.op /\ me.op \in RangeOps /\ f.from = me.from
        /\ f.size = me.size
        /\ ~ AtTheTop(me.from, me.size) => Looping(me) /\ Effect(me, cache) /\ Looping(f)
    BY <1>1, TurnIs
  <1>3. s \in Seq(Contexts)
    BY <1>2, StackIs
  <1>4. With(f) = [cache EXCEPT !.contexts = s]
    BY DEF With
  <1> HIDE DEF s, f
  <1>5. /\ With(f) \in CacheShapes
        /\ With(f).contexts = s /\ With(f).valid = cache.valid /\ With(f).dirty = cache.dirty
        /\ With(f).locked = cache.locked /\ With(f).addr = cache.addr
    <2>1. With(f) \in CacheShapes
      BY <1>1, <1>3, <1>4, CacheShaped
    <2> QED
      BY <1>1, <1>4, <2>1 DEF CacheShapes
  <1>6. ASSUME cache' \in CacheShapes, cache'.contexts = s, Effect(f, cache') \/ AtTheTop(me.from, me.size),
               cache'.locked \cup cache'.dirty \subseteq cache'.valid
        PROVE  CacheInv'
    <2>1. RangeSound(f, cache')
      BY <1>2, <1>6 DEF RangeSound
    <2>2. CacheSound(f, cache')
      BY <1>2, <2>1 DEF CacheSound
    <2> QED
      BY <1>2, <1>6, <2>2, StackKept DEF CacheInv, s
  <1> DEFINE g == With(f)
             busy == cache.kind = "d"
  <1>7. /\ g \in CacheShapes /\ g.contexts = s /\ g.valid = cache.valid /\ g.dirty = cache.dirty
        /\ g.locked = cache.locked /\ busy \in BOOLEAN
    BY <1>5
  <1>8. \/ me.op = "invalidate" /\ cache' = [g EXCEPT !.valid = g.valid \ {l}, !.dirty = g.dirty \ {l},
                                                      !.locked = g.locked \ {l}, !.busy = busy]
        \/ me.op = "flush" /\ cache' = [g EXCEPT !.dirty = IF l \in g.locked THEN g.dirty ELSE g.dirty \ {l},
                                                 !.busy = TRUE]
        \/ me.op = "lock" /\ cache' = [g EXCEPT !.succeeded = TRUE, !.valid = g.valid \cup {l},
                                                !.locked = g.locked \cup {l}]
        \/ me.op = "lock" /\ cache' = Locked(With([me EXCEPT !.at = "ret", !.ret = -1]), l, FALSE)
    <2>1. \/ me.op = "invalidate" /\ cache' = Invalidated(g, l)
          \/ me.op = "flush" /\ cache' = Flushed(g, l)
          \/ me.op = "lock" /\ cache' = Locked(g, l, TRUE)
          \/ me.op = "lock" /\ cache' = Locked(With([me EXCEPT !.at = "ret", !.ret = -1]), l, FALSE)
      BY DEF Line, Set, LineOf, f
    <2> HIDE DEF g, l
    <2> QED
      BY <2>1 DEF Invalidated, Flushed, Locked
  <1> HIDE DEF g, l, busy
  <1>9. CASE me.op = "invalidate" /\ cache' = [g EXCEPT !.valid = g.valid \ {l}, !.dirty = g.dirty \ {l},
                                                        !.locked = g.locked \ {l}, !.busy = busy]
    <2>1. cache' \in CacheShapes
      <3>1. g.valid \ {l} \in SUBSET Lines /\ g.dirty \ {l} \in SUBSET Lines /\ g.locked \ {l} \in SUBSET Lines
        BY <1>7 DEF CacheShapes
      <3> QED
        BY <1>7, <1>9, <3>1, CacheShaped
    <2>2. /\ cache'.contexts = s /\ cache'.valid = cache.valid \ {l} /\ cache'.dirty = cache.dirty \ {l}
          /\ cache'.locked = cache.locked \ {l}
      BY <1>7, <1>9 DEF CacheShapes
    <2>3. Effect(f, cache') \/ AtTheTop(me.from, me.size)
      BY <1>2, <1>9, <2>2 DEF Effect
    <2> QED
      BY <1>1, <1>6, <2>1, <2>2, <2>3
  <1>10. CASE me.op = "flush" /\ cache' = [g EXCEPT !.dirty = IF l \in g.locked THEN g.dirty ELSE g.dirty \ {l},
                                                    !.busy = TRUE]
    <2> DEFINE d == IF l \in g.locked THEN g.dirty ELSE g.dirty \ {l}
    <2>1. d \in SUBSET Lines /\ d \subseteq cache.dirty /\ (l \in d => l \in cache.locked)
      BY <1>7 DEF CacheShapes
    <2>2. cache' = [g EXCEPT !.dirty = d, !.busy = TRUE]
      BY <1>10
    <2> HIDE DEF d
    <2>3. cache' \in CacheShapes
      BY <1>7, <2>1, <2>2 DEF CacheShapes
    <2>4. /\ cache'.contexts = s /\ cache'.valid = cache.valid /\ cache'.dirty = d
          /\ cache'.locked = cache.locked
      BY <1>7, <2>2 DEF CacheShapes
    <2>5. Effect(f, cache') \/ AtTheTop(me.from, me.size)
      BY <1>2, <1>10, <2>1, <2>4 DEF Effect
    <2> QED
      BY <1>1, <1>6, <2>1, <2>3, <2>4, <2>5
  <1>11. CASE me.op = "lock" /\ cache' = [g EXCEPT !.succeeded = TRUE, !.valid = g.valid \cup {l},
                                                   !.locked = g.locked \cup {l}]
    <2>1. cache' \in CacheShapes
      <3>1. g.valid \cup {l} \in SUBSET Lines /\ g.locked \cup {l} \in SUBSET Lines
        BY <1>2, <1>7 DEF CacheShapes
      <3> QED
        BY <1>7, <1>11, <3>1 DEF CacheShapes
    <2>2. /\ cache'.contexts = s /\ cache'.valid = cache.valid \cup {l} /\ cache'.dirty = cache.dirty
          /\ cache'.locked = cache.locked \cup {l}
      BY <1>7, <1>11 DEF CacheShapes
    <2>3. Effect(f, cache') \/ AtTheTop(me.from, me.size)
      BY <1>2, <1>11, <2>2 DEF Effect
    <2> QED
      BY <1>1, <1>6, <2>1, <2>2, <2>3
  <1>12. CASE me.op = "lock" /\ cache' = Locked(With([me EXCEPT !.at = "ret", !.ret = -1]), l, FALSE)
    <2> DEFINE e == [me EXCEPT !.at = "ret", !.ret = -1]
               t == [cache.contexts EXCEPT ![top] = e]
    <2>1. e \in Contexts
      BY <1>1, ContextShaped
    <2>2. /\ e.at = "ret" /\ e.ret = -1 /\ e.op = me.op /\ e.from = me.from /\ e.size = me.size
          /\ e.start = me.start /\ e.end = me.end /\ e.did = me.did /\ e.raced = me.raced
          /\ e.tag = me.tag /\ e.data = me.data
      BY <1>1 DEF Contexts
    <2> HIDE DEF e
    <2>3. t \in Seq(Contexts)
      BY <2>1, StackIs
    <2>4. With(e) = [cache EXCEPT !.contexts = t]
      BY DEF With
    <2> HIDE DEF t
    <2>5. cache' = [cache EXCEPT !.contexts = t, !.succeeded = FALSE]
      <3>1. With(e) \in CacheShapes
        BY <1>1, <2>3, <2>4, CacheShaped
      <3>2. cache' = [With(e) EXCEPT !.succeeded = FALSE, !.valid = With(e).valid, !.locked = With(e).locked]
        BY <1>12 DEF Locked, e
      <3>3. [With(e) EXCEPT !.succeeded = FALSE, !.valid = With(e).valid, !.locked = With(e).locked]
              = [With(e) EXCEPT !.succeeded = FALSE]
        BY <3>1 DEF CacheShapes
      <3> QED
        BY <2>4, <3>2, <3>3
    <2>6. cache' \in CacheShapes
      BY <1>1, <2>3, <2>5, CacheShaped
    <2>7. /\ cache'.contexts = t /\ cache'.valid = cache.valid /\ cache'.dirty = cache.dirty
          /\ cache'.locked = cache.locked
      BY <1>1, <2>5 DEF CacheShapes
    <2>8. Placed(e) /\ EntrySound(e, cache'.addr)
      BY <1>1, <1>2, <2>2, MeIs DEF Placed, EntrySound, Accessing, RangeOps, EntryOps
    <2>9. ~ AtTheTop(me.from, me.size) => Looping(e) /\ Effect(e, cache')
      <3> HAVE ~ AtTheTop(me.from, me.size)
      <3>1. Looping(me) /\ Effect(me, cache)
        BY <1>2
      <3>2. Looping(e)
        BY <2>2, <3>1 DEF Looping
      <3>3. Effect(e, cache')
        BY <2>2, <2>7, <3>1 DEF Effect
      <3> QED
        BY <3>2, <3>3
    <2>10. CacheSound(e, cache')
      BY <2>2, <2>8, <2>9 DEF CacheSound, RangeSound
    <2> QED
      BY <1>1, <2>1, <2>6, <2>7, <2>10, StackKept DEF CacheInv, t
  <1> QED
    BY <1>8, <1>9, <1>10, <1>11, <1>12

(* ------------------------------- entries -------------------------------- *)

LEMMA EntryCallSound ==
  ASSUME Memory, CacheInv, NEW op \in EntryOps, NEW a \in Entries, Entry(op, a)
  PROVE  CacheInv'
  <1> DEFINE bad == [Idle EXCEPT !.op = op, !.at = "ret", !.ret = -1]
             good == [Idle EXCEPT !.op = op, !.from = a, !.at = "addr"]
  <1>1. cache' \in {With(bad), With(good)}
    BY DEF Entry, Set
  <1>2. /\ Idle \in Contexts /\ Idle.tag = -1 /\ Idle.data = -1 /\ Idle.raced = FALSE /\ Idle.from = 0
    BY IdleIs DEF Idle
  <1>3. a \in Lines /\ a \in Nat /\ 0 \in Lines
    BY LinesAre DEF Memory, CacheConstants, Lines
  <1>4. bad \in Contexts /\ good \in Contexts
    BY <1>2, <1>3, ContextShaped DEF Accessing
  <1>5. /\ bad.op = op /\ bad.at = "ret" /\ ~ bad.raced /\ bad.tag = -1 /\ bad.data = -1 /\ bad.from = 0
        /\ good.op = op /\ good.at = "addr" /\ ~ good.raced /\ good.tag = -1 /\ good.data = -1
        /\ good.from = a
    BY <1>2 DEF Contexts
  <1> HIDE DEF bad, good
  <1>6. CacheSound(bad, cache)
    BY <1>3, <1>5 DEF CacheSound, Placed, EntrySound, RangeSound, Accessing, RangeOps, EntryOps
  <1>7. CacheSound(good, cache)
    BY <1>3, <1>5 DEF CacheSound, Placed, EntrySound, RangeSound, Accessing, RangeOps, EntryOps
  <1> QED
    BY <1>1, <1>4, <1>6, <1>7, MeKept

(* The address register holds what the call wrote until another context    *)
(* uses the cache.                                                         *)
LEMMA AccessSound ==
  ASSUME Memory, CacheInv, WriteAddr \/ ReadResult \/ AccessTag \/ AccessData
  PROVE  CacheInv'
  <1>1. /\ cache \in CacheShapes /\ cache.contexts \in Seq(Contexts) /\ me \in Contexts /\ Placed(me)
        /\ EntrySound(me, cache.addr) /\ me.at \in Accessing /\ me.op \in EntryOps /\ me.from \in Lines
        /\ cache.addr \in Lines /\ cache.locked \cup cache.dirty \subseteq cache.valid
    BY MeIs DEF CacheInv, CacheShapes, Placed, WriteAddr, ReadResult, AccessTag, AccessData, Accessing
  <1>2. ASSUME NEW f, f \in Contexts, f.op = me.op, f.from = me.from, f.at \in Accessing \cup {"ret"},
               EntrySound(f, cache'.addr), f.raced => me.raced
        PROVE  CacheSound(f, cache')
    BY <1>1, <1>2 DEF CacheSound, Placed, RangeSound, Accessing, RangeOps, EntryOps
  <1>3. CASE WriteAddr
    <2> DEFINE next == IF me.op = "indirect_read" THEN "result" ELSE "tag"
               ok == IF me.op = "indirect_read" THEN me.from \in cache.valid ELSE cache.succeeded
               f == [me EXCEPT !.at = next]
               s == [cache.contexts EXCEPT ![top] = f]
    <2>1. next \in {"result", "tag"} /\ ok \in BOOLEAN
      <3> DEFINE present == me.from \in cache.valid
      <3>1. present \in BOOLEAN
        OBVIOUS
      <3>2. cache.succeeded \in BOOLEAN
        BY <1>1 DEF CacheShapes
      <3>3. ok = IF me.op = "indirect_read" THEN present ELSE cache.succeeded
        OBVIOUS
      <3> HIDE DEF present, ok
      <3> QED
        BY <3>1, <3>2, <3>3
    <2>2. With(f) = [cache EXCEPT !.contexts = s]
      BY DEF With
    <2>3. cache' = [cache EXCEPT !.contexts = s, !.addr = me.from, !.succeeded = ok]
      <3>1. cache' = [With(f) EXCEPT !.addr = me.from,
                         !.succeeded = IF me.op = "indirect_read" THEN me.from \in cache.valid ELSE With(f).succeeded]
        BY <1>3 DEF WriteAddr, Set
      <3>2. With(f).succeeded = cache.succeeded
        BY <1>1, <2>2 DEF CacheShapes
      <3> QED
        BY <2>2, <3>1, <3>2
    <2>4. f \in Contexts /\ f.at = next /\ f.op = me.op /\ f.from = me.from /\ f.raced = me.raced
          /\ f.tag = me.tag /\ f.data = me.data
      BY <1>1, <2>1 DEF Contexts, Accessing
    <2>5. s \in Seq(Contexts)
      BY <2>4, StackIs
    <2> HIDE DEF next, ok, f, s
    <2>6. cache' \in CacheShapes
      BY <1>1, <2>1, <2>3, <2>5, CacheShaped
    <2>7. /\ cache'.contexts = s /\ cache'.addr = me.from /\ cache'.valid = cache.valid
          /\ cache'.dirty = cache.dirty /\ cache'.locked = cache.locked
      BY <1>1, <2>3 DEF CacheShapes
    <2>8. EntrySound(f, cache'.addr)
      BY <1>1, <2>4, <2>7 DEF EntrySound
    <2>9. CacheSound(f, cache')
      BY <1>2, <2>1, <2>4, <2>8 DEF Accessing
    <2> QED
      BY <1>1, <2>4, <2>6, <2>7, <2>9, StackKept DEF CacheInv, s
  <1>4. ASSUME NEW f, f \in Contexts, f.op = me.op, f.from = me.from, f.at \in Accessing \cup {"ret"},
               EntrySound(f, cache.addr), f.raced => me.raced, cache' = With(f)
        PROVE  CacheInv'
    <2>1. CacheSound(f, cache)
      BY <1>1, <1>4 DEF CacheSound, Placed, RangeSound, Accessing, RangeOps, EntryOps
    <2> QED
      BY <1>4, <2>1, MeKept
  <1>5. CASE ReadResult
    <2> DEFINE f == IF cache.succeeded THEN [me EXCEPT !.at = "tag"] ELSE [me EXCEPT !.at = "ret", !.ret = -1]
    <2>1. me.at = "result" /\ cache' = With(f)
      BY <1>5 DEF ReadResult, Set
    <2>2. f \in Contexts
      BY <1>1, ContextShaped DEF Accessing
    <2>3. f.at \in {"tag", "ret"} /\ f.op = me.op /\ f.from = me.from /\ f.raced = me.raced
          /\ f.tag = me.tag /\ f.data = me.data
      BY <1>1 DEF Contexts
    <2> HIDE DEF f
    <2>4. EntrySound(f, cache.addr)
      BY <1>1, <2>1, <2>3 DEF EntrySound
    <2> QED
      BY <1>4, <2>1, <2>2, <2>3, <2>4 DEF Accessing
  <1>6. CASE AccessTag
    <2> DEFINE f == [me EXCEPT !.tag = cache.addr, !.at = "data"]
    <2>1. me.at = "tag" /\ cache' = With(f)
      BY <1>6 DEF AccessTag, Set
    <2>2. f \in Contexts
      BY <1>1, ContextShaped DEF Accessing
    <2>3. f.at = "data" /\ f.op = me.op /\ f.from = me.from /\ f.raced = me.raced
          /\ f.tag = cache.addr /\ f.data = me.data
      BY <1>1 DEF Contexts
    <2> HIDE DEF f
    <2>4. EntrySound(f, cache.addr)
      BY <1>1, <2>1, <2>3 DEF EntrySound
    <2> QED
      BY <1>4, <2>1, <2>2, <2>3, <2>4 DEF Accessing
  <1>7. CASE AccessData
    <2> DEFINE f == [me EXCEPT !.data = cache.addr, !.at = "ret"]
    <2>1. me.at = "data" /\ cache' = With(f)
      BY <1>7 DEF AccessData, Set
    <2>2. f \in Contexts
      BY <1>1, ContextShaped DEF Accessing
    <2>3. f.at = "ret" /\ f.op = me.op /\ f.from = me.from /\ f.raced = me.raced
          /\ f.tag = me.tag /\ f.data = cache.addr
      BY <1>1 DEF Contexts
    <2> HIDE DEF f
    <2>4. EntrySound(f, cache.addr)
      BY <1>1, <2>1, <2>3 DEF EntrySound
    <2> QED
      BY <1>4, <2>1, <2>2, <2>3, <2>4 DEF Accessing
  <1> QED
    BY <1>3, <1>5, <1>6, <1>7

(* ------------------------------- theorems ------------------------------- *)

LEMMA CacheStarts ==
  ASSUME Memory, Init
  PROVE  CacheInv
  <1>1. PICK kind \in Kinds, uses \in Programs :
          cache = [kind |-> kind, uses |-> uses, line |-> 0, capacity |-> 0, indirect |-> FALSE,
                   busy |-> FALSE, addr |-> 0, succeeded |-> FALSE, valid |-> {}, dirty |-> {},
                   locked |-> {}, contexts |-> <<Idle>>]
    BY DEF Init
  <1>2. /\ kind \in {"i", "d"} /\ uses \in SUBSET {"access", "entry", "invalidate", "flush", "lock"}
        /\ 0 \in Lines /\ Idle \in Contexts
    BY LinesAre, IdleIs DEF Memory, CacheConstants
  <1>3. <<Idle>> \in Seq(Contexts) /\ Len(<<Idle>>) = 1 /\ <<Idle>>[1] = Idle
    BY <1>2
  <1>4. cache \in CacheShapes /\ cache.contexts = <<Idle>> /\ cache.locked \cup cache.dirty \subseteq cache.valid
    BY <1>1, <1>2, <1>3 DEF CacheShapes
  <1>5. top = 1
    BY <1>3, <1>4 DEF top
  <1> QED
    BY <1>3, <1>4, <1>5, IdleIs DEF CacheInv

LEMMA CacheKept ==
  ASSUME Memory, CacheInv, [Next]_cache
  PROVE  CacheInv'
  <1>1. CASE UNCHANGED cache
    <2>1. CacheSound(me, cache')
      BY <1>1, MeIs DEF CacheSound
    <2> QED
      BY <1>1, <2>1, SameStackKept DEF CacheInv
  <1>2. CASE Works
    BY <1>2, LineSound, AccessSound, HandlerSound DEF Works
  <1>3. CASE FlushDone \/ arc_cache_init \/ Interrupt \/ AccessMode \/ Store \/ Fetch
    BY <1>3, FlushDoneSound, ProgramOk, HandlerSound
  <1>4. CASE \E op \in RangeOps, r \in Ranges : Mlines(op, r)
    BY <1>4, MlinesSound
  <1>5. CASE \E op \in EntryOps, a \in Entries : Entry(op, a)
    BY <1>5, EntryCallSound
  <1> QED
    BY <1>1, <1>2, <1>3, <1>4, <1>5 DEF Next

LEMMA CacheHolds == Memory => (Spec => []CacheInv)
  <1> SUFFICES ASSUME Memory
               PROVE  Spec => []CacheInv
    OBVIOUS
  <1> QED
    BY CacheStarts, CacheKept, PTL DEF Spec

(* The cache, its registers and the contexts keep their types, and a line  *)
(* that is dirty or locked is in the cache, whatever arc_cache.c does to it*)
THEOREM CacheTypes ==
  ASSUME Memory
  PROVE  Spec => []TypeOK
  <1>1. CacheInv => TypeOK
    BY DEF CacheInv, CacheShapes, TypeOK
  <1> QED
    BY <1>1, CacheHolds, PTL

(* The loops of arc_cache.c operate on the lines of their range and on no  *)
(* other, and on each of them when they return 0, for any address, size and*)
(* line, unless the range reaches the last line of the address space: there*)
(* the comparison with the end comes round.                                *)
THEOREM RangesAreDone ==
  ASSUME Memory
  PROVE  Spec => []RangeDone
  <1>1. ASSUME CacheInv, NEW f \in Contexts, RangeSound(f, cache), f.op \in RangeOps,
               ~ AtTheTop(f.from, f.size)
        PROVE  LET range == Touched(f.from, f.size) IN
                 /\ f.did \subseteq range
                 /\ f.at = "ret" /\ f.ret = 0 =>
                      /\ f.did = range
                      /\ CASE f.op = "invalidate" -> range \cap cache.valid = {}
                           [] f.op = "flush" -> range \cap cache.dirty \subseteq cache.locked
                           [] f.op = "lock" -> range \subseteq cache.locked
    <2>1. CASE f.at = "ret" /\ f.ret = -1 /\ f.did = {}
      BY <2>1
    <2>2. CASE Looping(f) /\ Effect(f, cache)
      <3> DEFINE last == f.from + f.size - 1
                 range == Touched(f.from, f.size)
      <3>0. f.from \in Bytes /\ f.size \in Nat \ {0}
        BY <1>1, <2>2, LineSizes DEF Looping, Contexts, Bytes
      <3>1. range = LineOf(f.from) .. LineOf(last) /\ f.size > 0
        BY <1>1, <3>0, TouchedIs
      <3>2. last \in Nat /\ f.start \in Nat /\ f.from \in Nat
        BY <1>1, <3>1 DEF Contexts, Bytes
      <3>3. LineOf(f.from) \in Nat /\ LineOf(f.start) \in Nat /\ LineOf(last) \in Nat
        BY <3>2, LineOfIs
      <3>4. /\ LineOf(f.start) <= LineOf(last) + 1 /\ f.did = LineOf(f.from) .. LineOf(f.start) - 1
            /\ f.at = "ret" /\ f.ret = 0 => LineOf(f.start) = LineOf(last) + 1
        BY <2>2 DEF Looping
      <3> HIDE DEF last, range
      <3>5. f.did \subseteq range
        BY <3>1, <3>3, <3>4
      <3>6. f.at = "ret" /\ f.ret = 0 => f.did = range
        BY <3>1, <3>3, <3>4
      <3> QED
        BY <2>2, <3>5, <3>6 DEF Effect, range
    <2> QED
      BY <1>1, <2>1, <2>2 DEF RangeSound
  <1>2. CacheInv => RangeDone
    <2> SUFFICES ASSUME CacheInv, NEW n \in 1 .. top
                 PROVE  LET f == cache.contexts[n]
                            range == Touched(f.from, f.size)
                        IN f.op \in RangeOps /\ ~ AtTheTop(f.from, f.size) =>
                          /\ f.did \subseteq range
                          /\ f.at = "ret" /\ f.ret = 0 =>
                               /\ f.did = range
                               /\ CASE f.op = "invalidate" -> range \cap cache.valid = {}
                                    [] f.op = "flush" -> range \cap cache.dirty \subseteq cache.locked
                                    [] f.op = "lock" -> range \subseteq cache.locked
      BY DEF RangeDone
    <2>1. cache.contexts \in Seq(Contexts) /\ RangeSound(cache.contexts[n], cache)
      BY MeIs DEF CacheInv, CacheSound
    <2>2. cache.contexts[n] \in Contexts
      BY <2>1 DEF top
    <2> QED
      BY <1>1, <2>1, <2>2
  <1> QED
    BY <1>2, CacheHolds, PTL

(* A function on the cache's memory, which leaves interrupts on, has TAG   *)
(* and DATA of its own entry unless a handler used the cache between its   *)
(* accesses: the address register is the caller's until then.              *)
THEOREM EntriesAreOwn ==
  ASSUME Memory
  PROVE  Spec => []OwnEntry
  <1>1. CacheInv => OwnEntry
    BY DEF CacheInv, CacheSound, EntrySound, OwnEntry
  <1> QED
    BY <1>1, CacheHolds, PTL

(* The three together: what the functions of arc_cache.c do to a cache     *)
(* whose other users may cut them.                                         *)
THEOREM CachesAsAsked ==
  ASSUME Memory
  PROVE  Spec => []CacheAsAsked
  BY CacheTypes, RangesAreDone, EntriesAreOwn, PTL DEF CacheAsAsked
=============================================================================
