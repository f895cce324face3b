---------------------------- MODULE MCResolver -----------------------------
(* A host and an alias, three addresses (z is private), five resolvers (the *)
(* second unsuitable), and a message for every branch of dnsAnswers: loops, *)
(* invalid, foreign and repeated records, chains within and across          *)
(* messages, more addresses than are kept.                                  *)
EXTENDS Resolver

CONSTANTS h, a, x, y, z

MCNames == {h, a}
MCAddrs == {x, y, z}
MCUnicast == {x, y}
MCAllows == {{}, {x, z}}
MCServers == <<TRUE, FALSE, TRUE, TRUE, TRUE>>

A(n, ip) == [owner |-> n, addr |-> ip]
C(n, c) == [owner |-> n, alias |-> c]
MCMessages == {
  <<>>, <<A(h, x)>>, <<A(h, z)>>, <<A(h, y), A(h, x)>>, <<A(a, x)>>, <<A(a, y), A(a, x), A(a, z)>>,
  <<C(h, a)>>, <<C(h, h)>>, <<C(a, h)>>, <<C(h, Invalid), A(h, x)>>, <<C(h, a), A(a, y)>>,
  <<C(h, a), C(a, h)>>, <<C(h, h), C(h, a), A(a, x)>>}
============================================================================
