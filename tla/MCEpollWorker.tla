---------------------------- MODULE MCEpollWorker ----------------------------
(***************************************************************************)
(* EpollWorker on small instances: the workers, clients and fds are each    *)
(* interchangeable.                                                        *)
(***************************************************************************)
EXTENDS EpollWorker, TLC

Symmetry == Permutations(Workers) \cup Permutations(Clients) \cup Permutations(Fds)
=============================================================================
