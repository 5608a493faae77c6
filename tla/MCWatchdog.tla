----------------------------- MODULE MCWatchdog -----------------------------
(* Watchdog on a small instance: the labels at which a kill leaves the file whole, and *)
(* the states worth a look: every property excuses what follows an overlap.            *)
EXTENDS Watchdog, TLC

WholeFile == {"probe", "decide", "send"}

InTurn == ~ overlapped
=============================================================================
