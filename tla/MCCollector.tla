---------------------------- MODULE MCCollector ----------------------------
(* Small relay chains for the collector. *)
EXTENDS Collector

CONSTANTS LastBlock,   \* the highest block number
          ForkedAt,    \* the numbers that have a second head, without descendants
          SessionLength

MainHeads == {<<"head", n>> : n \in 0..LastBlock}
ForkHeads == {<<"fork", n>> : n \in ForkedAt}

MCBlocks == 0..LastBlock
MCHeads == MainHeads \cup ForkHeads
MCNumberOf == [h \in MCHeads |-> h[2]]
MCAncestorsOf == [h \in MCHeads |-> {g \in MainHeads : g[2] < h[2]}]
MCSessionOf == [h \in MCHeads |-> 1 + h[2] \div SessionLength]
MCSessionKey == [i \in 0..LastBlock + 1 |-> <<"session", i>>]
OneCandidate == {<<"candidate", 1>>}

(* The relay parent of the candidate is the genesis block. *)
MCRelayParentOf == [c \in Candidates |-> <<"head", c[2] - 1>>]
MCKeys == MCHeads \cup Candidates \cup {MCSessionKey[MCSessionOf[h]] : h \in MCHeads}
=============================================================================
