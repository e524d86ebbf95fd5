----------------------------- MODULE MCDesignWare ----------------------------
(* The DesignWare drivers, and that of a flash chip, a client of dw_spi, for*)
(* TLC.  They share no state, so a behaviour is one of one driver, chosen at*)
(* the start; the others keep an initial state.                             *)
EXTENDS Integers, Sequences

VARIABLES driver, spi, iic, i2s, gpio, pwm, sdio, flash

(* One element in place, two of which the second's transmit part lies       *)
(* behind the first's receive part, one at an odd offset, and one whose     *)
(* empty part is at an odd offset: with 16-bit frames it never ends.        *)
E(to, tl, ro, rl) == [to |-> to, tl |-> tl, ro |-> ro, rl |-> rl]
SomeChains == {<<E(0, 2, 2, 2)>>, <<E(0, 2, 0, 2), E(2, 0, 0, 4)>>, <<E(1, 2, 0, 1)>>, <<E(3, 0, 0, 2)>>}
(* Outputs, outputs with handlers that write them, types with interrupts,   *)
(* handlers and two users.                                                  *)
SomeClients == {{"out", "dir", "share"}, {"out", "int"}, {"cfg", "int"}, {"isr", "int", "share"}}
(* A sector, part of the first two, the last one; a write over three pages, *)
(* one within a page, one of nothing.                                       *)
SomeErases == {<<0, 4>>, <<3, 2>>, <<8, 4>>}
SomeWrites == {<<1, 4>>, <<6, 1>>, <<2, 0>>}

(* A PWM channel and a timer too slow for its counter, handlers that close  *)
(* their channel or switch its interrupt off, and each other kind of call.  *)
W(mode, freq, dc) == [mode |-> mode, freq |-> freq, dc |-> dc]
P(writes, does, reacts) == [writes |-> writes, does |-> does, reacts |-> reacts]
Shut == W("close", 0, 0)
Slow == W("timer", 1, 0)
Timer == W("timer", 3, 0)
Wave == W("pwm", 5, 30)
SomePrograms == {P({Slow, Wave}, {}, {"none"}), P({Shut, Timer}, {}, {"close"}), P({Wave}, {"channel"}, {"none"}),
                 P({Timer}, {"line"}, {"none"}), P({Timer}, {"isr"}, {"dis"}), P({Timer}, {"cfg"}, {"none"})}
(* Reads that reach no trigger level, one, and more than the FIFO holds;    *)
(* a transfer that times out is stopped and another follows; two cards that  *)
(* are opened and closed between reads.                                     *)
C(ops, lens, calls) == [ops |-> ops, lens |-> lens, calls |-> calls]
SomeUses == {C({"command", "read"}, {1, 3, 5}, 2), C({"read", "stop"}, {3}, 3), C({"write", "stop"}, {5}, 3),
             C({"cards", "read"}, {3}, 2)}

Spi == INSTANCE DwSpi WITH Chains <- SomeChains, Sizes <- {8, 16}, Depth <- 2, MaxOpen <- 2, Careless <- {}
Iic == INSTANCE DwIic WITH Lens <- {2}, Depth <- 1
I2s == INSTANCE DwI2s WITH Lens <- {6}, Depth <- 3, Triggers <- {1, 2}
Gpio == INSTANCE DwGpio WITH Bits <- {0, 1}, MaxOpen <- 2, Clients <- SomeClients
Pwm == INSTANCE DwPwmTimer WITH NumChannels <- 2, Clock <- 24, Width <- 8, Programs <- SomePrograms
Sdio == INSTANCE DwSdio WITH Cards <- {0, 1}, Depth <- 4, MaxFails <- 1, Clients <- SomeUses
Flash == INSTANCE SpiFlash WITH Size <- 12, Sector <- 4, Page <- 2, Erases <- SomeErases, Writes <- SomeWrites,
           MaxCalls <- 3, MaxFails <- 1

ASSUME Constants == Spi!SpiConstants /\ Iic!IicConstants /\ I2s!I2sConstants /\ Gpio!DwGpioConstants
                    /\ Pwm!PwmConstants /\ Sdio!SdioConstants /\ Flash!SpiFlashConstants

vars == <<driver, spi, iic, i2s, gpio, pwm, sdio, flash>>
Init == /\ driver \in {"spi", "iic", "i2s", "gpio", "pwm", "sdio", "flash"}
        /\ Spi!Init /\ Iic!Init /\ I2s!Init /\ Gpio!Init /\ Pwm!Init /\ Sdio!Init /\ Flash!Init
        /\ driver # "i2s" => i2s.dev = "tx" /\ i2s.trig = 1
        /\ driver # "gpio" => gpio.client = {"cfg", "int"}
        /\ driver # "pwm" => pwm.program = P({Wave}, {"channel"}, {"none"})
        /\ driver # "sdio" => "cards" \in sdio.client.ops
        /\ driver # "flash" => flash.prot = "none"
Next == /\ UNCHANGED driver
        /\ \/ driver = "spi" /\ Spi!Next /\ UNCHANGED <<iic, i2s, gpio, pwm, sdio, flash>>
           \/ driver = "iic" /\ Iic!Next /\ UNCHANGED <<spi, i2s, gpio, pwm, sdio, flash>>
           \/ driver = "i2s" /\ I2s!Next /\ UNCHANGED <<spi, iic, gpio, pwm, sdio, flash>>
           \/ driver = "gpio" /\ Gpio!Next /\ UNCHANGED <<spi, iic, i2s, pwm, sdio, flash>>
           \/ driver = "pwm" /\ Pwm!Next /\ UNCHANGED <<spi, iic, i2s, gpio, sdio, flash>>
           \/ driver = "sdio" /\ Sdio!Next /\ UNCHANGED <<spi, iic, i2s, gpio, pwm, flash>>
           \/ driver = "flash" /\ Flash!Next /\ UNCHANGED <<spi, iic, i2s, gpio, pwm, sdio>>
(* The fairness of a driver at rest holds: nothing in it waits.             *)
Spec == /\ Init /\ [][Next]_vars
        /\ Spi!Fairness /\ Iic!Fairness /\ I2s!Fairness /\ Gpio!Fairness
        /\ Pwm!Fairness /\ Sdio!Fairness /\ Flash!Fairness

(* The fields of each driver's record have their types.                     *)
TypeOK == /\ Spi!TypeOK /\ Iic!TypeOK /\ I2s!TypeOK /\ Gpio!TypeOK
          /\ Pwm!TypeOK /\ Sdio!TypeOK /\ Flash!TypeOK

(* What moves between a client's buffer and the line is moved once and in   *)
(* order, and no buffer is overrun.  SPI: what dw_spi_writer has counted    *)
(* and dw_spi_reader has not is in the FIFOs or the shift register.  I2C: a *)
(* byte stored was asked for by that very call, calls share no transaction  *)
(* on the bus, and what was asked for and is not stored is in the FIFOs,    *)
(* unless a call timed out or an abort was missed.  I2S: but for a FIFO     *)
(* that overflowed and a transfer that was interfered with.  SDIO: a word   *)
(* stored or sent is the call's own, unless a call before timed out.        *)
BytesInOrder == /\ Spi!Conservation
                /\ Iic!OwnBytes /\ Iic!RequestsMatch
                /\ I2s!InOrder /\ I2s!InBuffer
                /\ Sdio!WordsInOrder

(* A callback of dw_spi_isr outside an abort, and the return of a polled    *)
(* transfer, mean that the whole chain went out in order and its answers    *)
(* are stored.                                                              *)
CompleteWhenDone == Spi!CompleteWhenDone

(* A client is told of the end of its transfer, once and truly.  SPI:       *)
(* dw_spi_isr and dw_spi_abort_* never call back for one transfer twice.    *)
(* I2C: a send that lost a byte is reported as failed, unless the abort     *)
(* came while the routine ran, and a receive never ends both ways.  I2S: a  *)
(* callback or a return means that every pair is stored, or out or in the   *)
(* FIFO; there is one, unless the length is a multiple of the batch, after  *)
(* which dw_i2s_mst_int_* leaves the interrupt on.  SDIO: E_OK means that   *)
(* the response is the command's own and every word has moved; a read that  *)
(* fits into the FIFO may have read nothing.                                *)
ToldOnce == /\ Spi!CalledOnce
            /\ Iic!OutcomeTold
            /\ I2s!ToldWhenThrough /\ I2s!CalledOnce
            /\ Sdio!OkMeansDone

(* The places that hold the state of a transfer agree.  SPI and I2C: who    *)
(* waits has the transfer in progress and every gate of its interrupt open, *)
(* otherwise they are closed.  I2S: calls are refused with E_CTX for ever   *)
(* only after a routine without a buffer.                                   *)
GatesAgree == Spi!WaitedFor /\ Iic!Gates /\ I2s!NotWedged

(* dw_gpio.c: outputs and enabled bits are what the calls of thread and     *)
(* handlers made of them, unless a handler wrote the register between the   *)
(* thread's read of it and its write; a closed device drives nothing and    *)
(* interrupts nobody, whatever handlers ran while dw_gpio_close was at work.*)
(* dw_pwm_timer.c: likewise, and a channel's frequency and duty are those   *)
(* asked for where the counts fit.  dw_sdio.c: the card opened last has     *)
(* power, none that is closed has.                                          *)
PinsAsAsked == /\ Gpio!OutputsAsWritten /\ Gpio!EnablesAsAsked /\ Gpio!ClosedIsQuiet
               /\ Pwm!ChannelsAsWritten /\ Pwm!ClosedIsQuiet
               /\ Sdio!CardsAsOpened

(* spi_flash_w25qxx.c: what calls that returned promise is in the chip and  *)
(* nothing else was touched, but for the sector behind an erase that ends   *)
(* with a sector; the chip takes every erase and program command, and a     *)
(* read is answered, unless a failed call left the chip at work.            *)
FlashAsAsked == Flash!FlashAsAsked

(* What a driver is waited for happens: a transfer that dw_spi_transfer or  *)
(* a SET_*INT_BUF call starts ends, unless it has 16-bit frames and an empty*)
(* part at an odd offset, which dw_spi_chk_xfer_aligned accepts; a master's *)
(* transfer by interrupt (I2C) ends in a callback unless its abort was      *)
(* missed, and a reading master is answered by a slave that answers by      *)
(* interrupt; a polled transfer (I2S) returns unless an interrupt keeps it  *)
(* from running, one by interrupt ends unless its client goes on replacing  *)
(* the buffer, or an overrun is pending with the FIFO flushed under it; an  *)
(* event on the GPIO bit served last is handled unless dw_gpio_isr_handler's*)
(* end of interrupt cleared it unseen; so is one of a timer unless it comes *)
(* before the end of interrupt; a call of the SDIO driver returns unless the*)
(* transfer fails while it is at the FIFO or a call before timed out, and   *)
(* one of the flash's driver unless a protection bit stays set.             *)
Waiting == \/ Spi!Running(spi) # {} /\ ~ Spi!Endless(spi)
           \/ Iic!Waits \/ Iic!Asked \/ I2s!Polling \/ Gpio!Unhandled(1)
           \/ Pwm!Unhandled(1) \/ Sdio!InCall \/ Flash!InCall
TransfersEnd == (Waiting ~> ~ Waiting) /\ I2s!BufferEnds
=============================================================================
