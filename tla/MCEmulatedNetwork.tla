-------------------------- MODULE MCEmulatedNetwork --------------------------
(* Three hosts on the bus, added in the order h1, h2, h3. The violation    *)
(* runs take the first two.                                                *)
EXTENDS EmulatedNetwork

CONSTANTS h1, h2, h3, bus

MCHosts == {h1, h2, h3}
MCHostOrder == <<h1, h2, h3>>
MCTwoHosts == {h1, h2}
MCTwoHostOrder == <<h1, h2>>
MCExecutors == MCHosts \cup {bus}
MCTwoExecutors == MCTwoHosts \cup {bus}
\* The violation runs: two answers to input on two hosts.
MCMaxReplies == 2
\* The order and liveness run: three gratuitous ARPs (two senders for every
\* receiver) and one answer.
MCOneReply == 1
====
