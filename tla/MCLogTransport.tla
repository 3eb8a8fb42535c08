--------------------------- MODULE MCLogTransport ---------------------------
(* LogTransport for TLC: the configurations of the service.                *)
EXTENDS LogTransport

Setup(elk, file, port, ends) ==
  [elk |-> elk, file |-> file, console |-> TRUE, dev |-> FALSE, port |-> port, ends |-> ends]

\* The deployed configuration, the console alone, a port out of range, no Logstash.
MCSetups == {Setup(TRUE, TRUE, TRUE, TRUE), Setup(TRUE, FALSE, TRUE, FALSE),
             Setup(TRUE, FALSE, FALSE, FALSE), Setup(FALSE, TRUE, TRUE, FALSE)}
=============================================================================
