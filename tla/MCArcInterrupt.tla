--------------------------- MODULE MCArcInterrupt ---------------------------
(* An instance of ArcInterrupt for TLC: two interrupts from 16 on.          *)
EXTENDS ArcInterrupt

a == 16
b == 17
Bad == 15                       \* an exception, not an interrupt

(* dw_uart's handlers disable their interrupts (dw_uart_dis_cbr). *)
DivertThread == {int_handler_install(a), int_enable(a), int_enable(b), int_pri_get(Bad),
                 int_level_get(b), int_secure_set(b, 1), int_handler_install(Bad)}
DivertHandlers == [i \in Irq |-> {int_disable(a)}]
=============================================================================
