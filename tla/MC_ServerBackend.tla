------------------------- MODULE MC_ServerBackend -------------------------
(***************************************************************************)
(* Instantiation of ServerBackend for TLC: model values for the threads,  *)
(* the transaction ids and the file names are given in each .cfg.         *)
(***************************************************************************)
EXTENDS ServerBackend, TLC

\* Threads and transaction ids are interchangeable model values.
Symmetry == Permutations(Workers) \cup Permutations(TxnIds)

\* States that differ only in the answer a thread last sent are merged:
\* no property of these runs reads an answer.
StateView ==
    <<srv, rec, live, attrSize, commits,
      [w \in Workers |-> [wk[w] EXCEPT !.resp = "none"]],
      txnLocks, fileLocks, disk, onDisk, jlog, crashes, used, incs,
      committed, durable, acked, uaf>>

=============================================================================
