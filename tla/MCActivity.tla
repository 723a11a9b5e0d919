----------------------------- MODULE MCActivity -----------------------------
(* Small instances of the supervisor and its web clients for TLC. *)
EXTENDS ActivityProperties, TLC

BrowserSymmetry == Permutations(Browser)
WorkerSymmetry == Permutations(Worker)
PageSymmetry == BrowserSymmetry \union WorkerSymmetry
=============================================================================
