----------------------------- MODULE MCSessions -----------------------------
(* Sessions on small instances: see MCSessions.cfg and MCSessionsSsl.cfg.     *)
EXTENDS Sessions

CONSTANTS peer1, peer2

\* One SMTP peer that says much, and two of echo_server's that say little.
MCClients == [smtp |-> {peer1}, s2n |-> {peer1, peer2}, ssl |-> {peer1}]
MCSays == [smtp |-> {"mail", "mail1", "mail0", "rcpt", "data", "body", "blank", "quit"},
           s2n |-> {"line", "quit"}, ssl |-> {"line", "quit"}]
MCMaxSent == [smtp |-> 3, s2n |-> 1, ssl |-> 2]

OneSsl == [ssl |-> {peer1}]
OneSays == [ssl |-> {"line"}]
OneLine == [ssl |-> 1]
=============================================================================
