--------------------------- MODULE MCAsyncWorker ---------------------------
(* AsyncWorker for TLC; the cfg files give the bounds. *)
EXTENDS AsyncWorker
=============================================================================
