----------------------------- MODULE MCSubsystem -----------------------------
(* The drivers of the ARC subsystem's peripherals for TLC.  They share      *)
(* neither state nor code, so a behaviour is one of one driver, chosen at   *)
(* the start; the others keep an initial state.                             *)
EXTENDS Integers, Sequences

VARIABLES driver, uart, spi, iic, gpio, i2s

(* A client with hardware flow control, one in both directions, one that    *)
(* sets enable bits by hand and shares the device, one that polls.          *)
UartClients == {{"tx", "flow"}, {"tx", "rx"}, {"tx", "poll", "int", "share"}, {"rx", "int", "poll"}}
(* One direction each, both with equal lengths, and with unequal ones.      *)
SpiPairs == {<<3, 0>>, <<0, 3>>, <<3, 3>>, <<1, 3>>}
GpioClients == {{"out", "dir", "share"}, {"out", "int"}, {"cfg"}, {"isr", "int"}}

Uart == INSTANCE SsUart WITH Clients <- UartClients, Lens <- {0, 3}, Depth <- 2, Width <- 4
Spi == INSTANCE SsSpi WITH Sizes <- {3}, Pairs <- SpiPairs, Depth <- 2, MaxUsers <- 1, MaxCauses <- 1, Width <- 4
Iic == INSTANCE SsIic WITH Lens <- {3}, Depth <- 2, StopLines <- BOOLEAN
Gpio == INSTANCE SsGpio WITH Bits <- {0, 1}, MaxOpen <- 2, Clients <- GpioClients
I2s == INSTANCE SsI2s WITH Lens <- {0, 2, 3}, Depth <- 2, Thresholds <- {0, 1}

ASSUME Constants ==
  Uart!SsUartConstants /\ Spi!SsSpiConstants /\ Iic!SsIicConstants /\ Gpio!SsGpioConstants
  /\ I2s!SsI2sConstants

vars == <<driver, uart, spi, iic, gpio, i2s>>
Init == /\ driver \in {"uart", "spi", "iic", "gpio", "i2s"}
        /\ Uart!Init /\ Spi!Init /\ Iic!Init /\ Gpio!Init /\ I2s!Init
        /\ driver # "uart" => uart.uses = {"tx", "rx"}
        /\ driver # "iic" => iic.line
        /\ driver # "gpio" => gpio.client = {"cfg"} /\ gpio.level = {}
        /\ driver # "i2s" => i2s.dev = "tx" /\ i2s.sticky
Next == /\ UNCHANGED driver
        /\ \/ driver = "uart" /\ Uart!Next /\ UNCHANGED <<spi, iic, gpio, i2s>>
           \/ driver = "spi" /\ Spi!Next /\ UNCHANGED <<uart, iic, gpio, i2s>>
           \/ driver = "iic" /\ Iic!Next /\ UNCHANGED <<uart, spi, gpio, i2s>>
           \/ driver = "gpio" /\ Gpio!Next /\ UNCHANGED <<uart, spi, iic, i2s>>
           \/ driver = "i2s" /\ I2s!Next /\ UNCHANGED <<uart, spi, iic, gpio>>
(* The fairness of a driver at rest holds: nothing in it waits.             *)
Spec == Init /\ [][Next]_vars /\ Uart!Fairness /\ Spi!Fairness /\ Iic!Fairness /\ Gpio!Fairness
        /\ I2s!Fairness

(* The fields of each driver's record have their types.                     *)
TypeOK == Uart!TypeOK /\ Spi!TypeOK /\ Iic!TypeOK /\ Gpio!TypeOK /\ I2s!TypeOK

(* Bytes leave, reach the slave or are stored once each and in order, and   *)
(* no byte outside a buffer is touched.  UART: unless a callback started    *)
(* the buffer, the modem interrupt overtook io_uart_write, or an enable bit *)
(* was lost or set by hand.  SPI: unless the receive FIFO overran, a command*)
(* emptied the FIFOs, or a transfer in both directions has two lengths.     *)
(* I2C: a write is one message unless a RESTART was asked for or a byte was *)
(* not acknowledged, and fill_txfifo finds room unless a STOP of an earlier *)
(* call ended one whose bytes are still in the FIFO.  I2S: unless the       *)
(* receiver overran; the transmitter is never overfilled.                   *)
CallsInOrder == /\ Uart!InOrder /\ Uart!InBuffer
                /\ Spi!InOrder /\ Spi!InBuffer
                /\ Iic!OneMessage /\ Iic!OwnBytes /\ Iic!NoRunaway
                /\ I2s!InOrder /\ I2s!NoOverflow

(* A return without error, or a callback, means that the call is done.      *)
(* UART: the last byte has left, the buffer is full or the line was broken. *)
(* SPI: all bytes have left and all frames are stored, and the callback is  *)
(* about the transfer that was started, unless handling_tx or handling_rx   *)
(* was left set.  I2C: all bytes but the one on the line have moved.        *)
(* I2S: all samples have moved.                                             *)
DoneMeansDone == /\ Uart!ReturnMeansDone
                 /\ Spi!DoneMeansComplete /\ Spi!RightCallback
                 /\ Iic!ReturnMeansDone /\ I2s!ReturnMeansDone

(* A device is not lost to its users.  UART: it runs exactly while somebody *)
(* has it open, unless a closed one was closed.  SPI: BUSY is set only      *)
(* while something is in progress, or after a transfer was refused for its  *)
(* offsets.  I2C: an idle device takes calls, unless an error came after a  *)
(* call returned.                                                           *)
NotWedged == Uart!OpenMatches /\ Spi!NotWedged /\ Iic!NotWedged

(* gpio.c and ss_gpio.c: a bit of DR is what the last write to it made it,  *)
(* unless ss_gpio_write copied another bit's pin that showed something else;*)
(* the enabled bits are those asked for, and the types those configured,    *)
(* but for a handler that changed the method during the thread's call and   *)
(* bits that ss_gpio_open left as they were; a closed device is silent, and *)
(* the port is open exactly while somebody uses it.                         *)
PortAsAsked == /\ Gpio!OutputsAsWritten /\ Gpio!EnablesAsAsked
               /\ Gpio!ClosedIsQuiet /\ Gpio!TypesAsConfigured

(* What a driver is waited for happens: a UART call returns if the peer     *)
(* holds CTS until the routine has looked at it; an SPI transfer or call    *)
(* ends, but for those whose flags were cleared behind the callback, and    *)
(* polled ones in a mode left behind or that lost a frame; an I2C call ends *)
(* unless its callback was replaced, the device disabled, a byte lost, or   *)
(* STOP_DET, which the driver masks, is what it waits for; an event on the  *)
(* GPIO bit served last is handled unless gpio_ISR_proc cleared it unseen;  *)
(* an I2S call ends if the data interrupt was not left masked by an earlier *)
(* one, the receiver does not overrun, the device is enabled, the callback  *)
(* not replaced, and the length not 0.                                      *)
Waiting == \/ Uart!InCall \/ Spi!InTransfer \/ Spi!InCall \/ Iic!InCall \/ Gpio!Unhandled(1)
           \/ I2s!InCall
CallsEnd == Waiting ~> ~ Waiting
=============================================================================
