-------------------------------- MODULE DwSdio -------------------------------
(***************************************************************************)
(* The DesignWare SDIO driver (device/ip/designware/sdio/dw_sdio.c): the   *)
(* polled command with its data, over a controller that goes on when the   *)
(* driver has given up, and the cards that share one controller.  No board *)
(* installs dw_sdio_isr.  Data are words, a block is not divided.          *)
(***************************************************************************)
EXTENDS Integers, Sequences, FiniteSets

CONSTANTS Cards, Depth,      \* cards of the controller, words of its FIFO
          MaxFails,          \* bound
          Clients            \* what a client does: kinds of calls, words of a transfer, number of commands

VARIABLE sdio

SdioConstants == /\ Depth > 1 /\ MaxFails \in Nat
                 /\ \A c \in Clients : /\ c.ops \subseteq {"command", "read", "write", "stop", "cards"}
                                       /\ c.lens \subseteq Nat \ {0} /\ c.calls \in Nat
NoCommand == [n |-> 0, op |-> "none", len |-> 0]
NoData == [n |-> 0, op |-> "none", len |-> 0, done |-> 0]

(* opn, powered: open count and power register; mine: the cards opened and *)
(* not closed; last: the one of them opened last.                          *)
(* at, n, op, len, moved, ret: the call, its number, its words through the *)
(* data register, and what it returned (forgotten at a reset).             *)
(* cmd, data, fifo, raw, resp, busy: the controller's command not yet sent,*)
(* data transfer, FIFO, raw interrupts, owner of the response; card at work*)
(* after a write.  Words carry their call's number and their place.        *)
(* late: a call gave up waiting, nothing has stopped the transfer since;   *)
(* cut: a transfer failed while the driver was at the FIFO; wrong: a word  *)
(* of another call or place was stored or sent while not late; others: the *)
(* response read was another call's.                                       *)
Init == \E client \in Clients :
  sdio = [client |-> client, opn |-> 0, powered |-> {}, mine |-> {}, last |-> {},
          at |-> "idle", n |-> 0, op |-> "none", len |-> 0, moved |-> 0, ret |-> "none",
          cmd |-> NoCommand, data |-> NoData, fifo |-> <<>>, raw |-> {}, resp |-> 0, busy |-> FALSE,
          fails |-> 0, late |-> FALSE, cut |-> FALSE, wrong |-> FALSE, others |-> FALSE]

Set(h) == sdio' = h
Returns(h, ret) == [h EXCEPT !.at = "idle", !.ret = ret]
HasData == sdio.op \in {"read", "write"}

(* --------------------------- the controller ----------------------------- *)

(* It takes a new command only when the last one has been sent; all but    *)
(* the stopping one wait for the end of the data.                          *)
Command(h, c) == IF h.cmd # NoCommand THEN [h EXCEPT !.raw = @ \cup {"error"}] ELSE [h EXCEPT !.cmd = c]
Answered(h) ==
  IF sdio.cmd.op = "stop"
  THEN [h EXCEPT !.raw = @ \cup {"done"} \cup (IF sdio.data = NoData THEN {} ELSE {"over"}), !.data = NoData]
  ELSE IF sdio.cmd.op = "command" THEN [h EXCEPT !.raw = @ \cup {"done"}]
  ELSE [h EXCEPT !.raw = @ \cup (IF sdio.cmd.op = "write" THEN {"done", "txdr"} ELSE {"done"}),
                 !.data = [n |-> sdio.cmd.n, op |-> sdio.cmd.op, len |-> sdio.cmd.len, done |-> 0]]
Send == /\ sdio.cmd # NoCommand /\ (sdio.data = NoData \/ sdio.cmd.op = "stop")
        /\ LET h == [sdio EXCEPT !.cmd = NoCommand, !.resp = sdio.cmd.n] IN
           \/ Set(Answered(h))
           \/ sdio.fails < MaxFails /\ Set([h EXCEPT !.raw = @ \cup {"done", "refused"}, !.fails = @ + 1])
Word == <<sdio.data.n, sdio.data.done + 1>>
Foreign(word) == ~ sdio.late /\ Head(sdio.fifo) # word
Move == \/ /\ sdio.data.op = "read" /\ sdio.data.done < sdio.data.len /\ Len(sdio.fifo) < Depth
           /\ Set([sdio EXCEPT !.data.done = @ + 1, !.fifo = Append(@, Word),
                               !.raw = IF Len(sdio.fifo) + 1 > (Depth \div 2) - 1 THEN @ \cup {"rxdr"} ELSE @])
        \/ /\ sdio.data.op = "write" /\ sdio.data.done < sdio.data.len /\ sdio.fifo # <<>>
           /\ Set([sdio EXCEPT !.data.done = @ + 1, !.fifo = Tail(@), !.wrong = @ \/ Foreign(Word),
                               !.raw = IF Len(sdio.fifo) - 1 <= Depth \div 2 THEN @ \cup {"txdr"} ELSE @])
Over == /\ sdio.data # NoData /\ sdio.data.done = sdio.data.len
        /\ Set([sdio EXCEPT !.data = NoData, !.raw = @ \cup {"over"}, !.busy = sdio.data.op = "write"])
Fails == /\ sdio.data # NoData /\ sdio.fails < MaxFails
         /\ Set([sdio EXCEPT !.data = NoData, !.raw = @ \cup {"error"}, !.fails = @ + 1,
                             !.cut = @ \/ sdio.at \in {"drain", "fill"}])
Programmed == sdio.busy /\ Set([sdio EXCEPT !.busy = FALSE])
Controller == Send \/ Move \/ Over \/ Programmed

(* ------------------------------ the call -------------------------------- *)

dw_sdio_cmd_poll(op, len) ==
  /\ sdio.at = "idle" /\ op \in sdio.client.ops /\ sdio.opn > 0 /\ sdio.n < sdio.client.calls
  /\ Set([sdio EXCEPT !.at = "busy", !.n = @ + 1, !.op = op, !.len = len, !.moved = 0, !.ret = "none", !.others = FALSE])
(* Mutant: the raw interrupts of the last call stay. *)
Ready_Kept == /\ sdio.at = "busy"
              /\ IF sdio.busy THEN Set(Returns(sdio, "timeout"))
                 ELSE Set([sdio EXCEPT !.at = IF HasData THEN "setup" ELSE "send"])
(* Half a second for a card at work; then every raw interrupt is cleared.  *)
Ready == /\ sdio.at = "busy"
         /\ IF sdio.busy THEN Set(Returns(sdio, "timeout"))
            ELSE Set([sdio EXCEPT !.raw = {}, !.at = IF HasData THEN "setup" ELSE "send"])
(* Mutant: the FIFO is not reset. *)
Setup_Kept == sdio.at = "setup" /\ Set([sdio EXCEPT !.at = "send"])
Setup == sdio.at = "setup" /\ Set([sdio EXCEPT !.fifo = <<>>, !.at = "send"])
dw_sdio_cmd_set == /\ sdio.at = "send"
                   /\ Set(Command([sdio EXCEPT !.at = "poll"], [n |-> sdio.n, op |-> sdio.op, len |-> sdio.len]))
(* A stopping command that was answered ends what went on before.          *)
Poll ==
  /\ sdio.at = "poll"
  /\ IF "done" \notin sdio.raw THEN Set(Returns([sdio EXCEPT !.late = TRUE], "timeout"))
     ELSE LET h == [sdio EXCEPT !.raw = IF HasData THEN @ ELSE {}] IN
       IF "refused" \in sdio.raw THEN Set(Returns(h, "refused"))
       ELSE LET g == [h EXCEPT !.others = sdio.resp # sdio.n] IN
         IF HasData THEN Set([g EXCEPT !.at = "data"])
         ELSE Set(Returns([g EXCEPT !.late = @ /\ (sdio.op # "stop" \/ sdio.resp # sdio.n)], "ok"))
(* One turn of the loop of dw_sdio_data_transfer_poll.                     *)
DataStep ==
  /\ sdio.at = "data"
  /\ IF "error" \in sdio.raw THEN Set(Returns(sdio, "error"))
     ELSE IF "over" \in sdio.raw THEN Set(Returns(sdio, "ok"))
     ELSE IF sdio.op = "read" /\ "rxdr" \in sdio.raw /\ sdio.moved < sdio.len THEN Set([sdio EXCEPT !.at = "drain"])
     ELSE IF sdio.op = "write" /\ "txdr" \in sdio.raw /\ sdio.moved < sdio.len THEN Set([sdio EXCEPT !.at = "fill"])
     ELSE Set(Returns([sdio EXCEPT !.late = TRUE], "timeout"))
(* Both loops wait for the FIFO without a limit.                           *)
dw_sdio_fifo_read_poll ==
  /\ sdio.at = "drain" /\ sdio.fifo # <<>>
  /\ Set([sdio EXCEPT !.fifo = Tail(@), !.moved = @ + 1, !.wrong = @ \/ Foreign(<<sdio.n, sdio.moved + 1>>),
                      !.at = IF sdio.moved + 1 = sdio.len THEN "data" ELSE @,
                      !.raw = IF sdio.moved + 1 = sdio.len THEN @ \ {"rxdr"} ELSE @])
dw_sdio_fifo_write_poll ==
  /\ sdio.at = "fill" /\ Len(sdio.fifo) < Depth
  /\ Set([sdio EXCEPT !.fifo = Append(@, <<sdio.n, sdio.moved + 1>>), !.moved = @ + 1,
                      !.at = IF sdio.moved + 1 = sdio.len THEN "data" ELSE @,
                      !.raw = IF sdio.moved + 1 = sdio.len THEN @ \ {"txdr"} ELSE @])
Works == Ready \/ Setup \/ dw_sdio_cmd_set \/ Poll \/ DataStep \/ dw_sdio_fifo_read_poll \/ dw_sdio_fifo_write_poll

(* ------------------------------ the cards ------------------------------- *)

(* The first open and the last close reset the controller and its FIFO.    *)
Reset(h) == [h EXCEPT !.cmd = NoCommand, !.data = NoData, !.fifo = <<>>, !.late = FALSE, !.ret = "none"]
(* The power register is written whole.                                    *)
dw_sdio_open(c) ==
  /\ sdio.at = "idle" /\ c \notin sdio.mine /\ ("cards" \in sdio.client.ops \/ sdio.opn = 0)
  /\ Set([IF sdio.opn = 0 THEN Reset(sdio) ELSE sdio
            EXCEPT !.opn = @ + 1, !.powered = {c}, !.mine = @ \cup {c}, !.last = {c}])
(* Mutant: the power stays on while others use the device. *)
dw_sdio_close_On(c) ==
  /\ sdio.at = "idle" /\ c \in sdio.mine /\ "cards" \in sdio.client.ops
  /\ Set([IF sdio.opn = 1 THEN Reset(sdio) ELSE sdio
            EXCEPT !.opn = @ - 1, !.powered = IF sdio.opn = 1 THEN @ \ {c} ELSE @, !.mine = @ \ {c}, !.last = @ \ {c}])
dw_sdio_close(c) ==
  /\ sdio.at = "idle" /\ c \in sdio.mine /\ "cards" \in sdio.client.ops
  /\ Set([IF sdio.opn = 1 THEN Reset(sdio) ELSE sdio
            EXCEPT !.opn = @ - 1, !.powered = @ \ {c}, !.mine = @ \ {c}, !.last = @ \ {c}])

Next == \/ Controller \/ Fails \/ Works
        \/ \E op \in {"command", "stop"} : dw_sdio_cmd_poll(op, 0)
        \/ \E op \in {"read", "write"}, len \in sdio.client.lens : dw_sdio_cmd_poll(op, len)
        \/ \E c \in Cards : dw_sdio_open(c) \/ dw_sdio_close(c)
Spec == Init /\ [][Next]_sdio
(* The controller goes on with what it has; so does a call.                *)
Waits == \/ sdio.at \in {"busy", "setup", "send", "poll", "data"}
         \/ sdio.at = "drain" /\ sdio.fifo # <<>>
         \/ sdio.at = "fill" /\ Len(sdio.fifo) < Depth
Moves == \/ sdio.busy
         \/ sdio.cmd # NoCommand /\ (sdio.data = NoData \/ sdio.cmd.op = "stop")
         \/ sdio.data # NoData /\ sdio.data.done = sdio.data.len
         \/ sdio.data.op = "read" /\ Len(sdio.fifo) < Depth
         \/ sdio.data.op = "write" /\ sdio.fifo # <<>>
Fairness == /\ []<>(~ Waits) \/ []<><<Works>>_sdio
            /\ []<>(~ Moves) \/ []<><<Controller>>_sdio

(* ------------------------------ properties ------------------------------ *)

(* Every field keeps its type.                                             *)
TypeOK == /\ sdio.opn = Cardinality(sdio.mine) /\ Len(sdio.fifo) <= Depth /\ sdio.powered \subseteq Cards
          /\ sdio.raw \subseteq {"done", "refused", "over", "error", "rxdr", "txdr"}
          /\ sdio.at \in {"idle", "busy", "setup", "send", "poll", "data", "drain", "fill"}
          /\ sdio.moved \in 0 .. sdio.len
(* The words a call stores or the card receives are that call's, in order, *)
(* whatever a failed call left in the FIFO, unless one timed out before    *)
(* and neither a stopping command nor a reset came since (late).           *)
WordsInOrder == ~ sdio.wrong
(* A call that returns E_OK has the response of its own command, and has   *)
(* moved every word; but a read that fits into the FIFO may return with    *)
(* nothing read, if its end is seen with its first words or alone.         *)
OkMeansDone ==
  sdio.ret = "ok" => \/ sdio.late
                     \/ /\ ~ sdio.others
                        /\ \/ sdio.moved = sdio.len
                           \/ sdio.op = "read" /\ sdio.len <= Depth /\ sdio.moved = 0
(* A call is at work; it hangs if the transfer fails while the driver waits*)
(* for the FIFO, and may hang after a call that timed out.                 *)
InCall == sdio.at # "idle" /\ ~ sdio.cut /\ ~ sdio.late
(* The card opened last is powered until it is closed, and no card is that *)
(* nobody has open (others that are open are not powered).                 *)
CardsAsOpened == sdio.last \subseteq sdio.powered /\ sdio.powered \subseteq sdio.mine
=============================================================================
