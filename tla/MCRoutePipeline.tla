--------------------------- MODULE MCRoutePipeline ---------------------------
(* Sources, routes and destinations for TLC.                                *)
EXTENDS RoutePipeline

To(d, h) == [dst |-> d, handler |-> h]

\* Every handler before one of filter.c or none, and a list that calls the
\* handler that lengthens three times and ends at a port never written to.
Lists == {<<To("HOST", g), To("UART", h)>> :
             g \in Handlers, h \in {"none", "usb_to_uart", "uart_to_usb"}}
         \cup {<<To("HOST", "uart_to_usb"), To("UART", "uart_to_usb"),
              To("NET", "uart_to_usb")>>}

Kinds == [d \in {"HOST", "UART", "NET"} |->
             CASE d = "HOST" -> "socket" [] d = "UART" -> "serial" [] d = "NET" -> "udp"]
==============================================================================
