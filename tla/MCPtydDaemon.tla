---------------------------- MODULE MCPtydDaemon ----------------------------
(* Instances of PtydDaemon for TLC.                                        *)
EXTENDS PtydDaemon, TLC

Interchangeable == Permutations(Client)
OneSize == {1}

\* The daemon never looks into a line it has queued or is about to answer, only
\* at how many a client owes and whether an answer says "live": states that
\* agree on those have the same steps and satisfy the same invariants.
OwedOnly ==
    <<threadVars, clients, conn, hearsAll, terminals,
      [c \in Client |-> Len(outbox[c])], stalled,
      [c \in Client |-> <<handler[c].at, handler[c].term,
                          handler[c].line.kind \in {"replay", "header"}>>],
      seen>>
=============================================================================
