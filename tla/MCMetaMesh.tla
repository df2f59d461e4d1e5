----------------------------- MODULE MCMetaMesh -----------------------------
(* Instances of MetaMesh for TLC.                                          *)
EXTENDS MetaMesh

(* All connections yield the same edge data.                               *)
SameData == [c \in ConnId |-> 1]

Setup(pairs, up, servers) ==
    [connect_to |-> pairs, established |-> up, tunnel_servers |-> servers]

AllPairs == {pair \in SUBSET (1 .. 3) : Cardinality(pair) = 2}

(* A line of three, any two of whom may be connected once more.            *)
Line == Setup(AllPairs, <<{1, 2}, {2, 3}>>, {})

LineOnly == {Line}
=============================================================================
