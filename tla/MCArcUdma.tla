----------------------------- MODULE MCArcUdma -----------------------------
(* Instances of the uDMA driver for TLC.  The clients are interchangeable; *)
(* the channels are not: reservations and handlers go from the lowest.     *)
EXTENDS ArcUdma, TLC

SoftThenPeripheral == [c \in 0 .. NumChannels - 1 |-> IF c = 0 THEN {"soft"} ELSE {"peripheral"}]
PeripheralOnly == [c \in 0 .. NumChannels - 1 |-> {"peripheral"}]
ClientSymmetry == Permutations(Chn)
=============================================================================
