---------------------------- MODULE MCStoreWorker ----------------------------
(* Two operations of a page: enough for one to queue behind the other and to *)
(* run in a second worker while a transaction of the first is still open.    *)
EXTENDS StoreWorker

CONSTANTS p1, p2
TwoOperations == {p1, p2}
=============================================================================
