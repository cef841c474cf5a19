------------------------------ MODULE MCWiz5500 ------------------------------
(* Two messages to two hosts and one or two bytes long, two datagrams of     *)
(* other hosts; memories that hold two of them, and that wrap around.        *)
EXTENDS Wiz5500

CONSTANTS m1, m2, p1, p2

MCLength ==
  [p \in Payloads |-> CASE p = m1 -> 1 [] p = m2 -> 2 [] p = p1 -> 1 [] OTHER -> 2]
MCDest   == [m \in Messages |-> IF m = m1 THEN <<"ip1", "port1">>
                                          ELSE <<"ip2", "port2">>]
MCRules  == {"await_sent", "clear_first", "await_packet", "one_datagram"}
=============================================================================
