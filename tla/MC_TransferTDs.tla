---------------------------- MODULE MC_TransferTDs ----------------------------
(* Packets of two bytes: transfers of no data, of two TDs with the last not  *)
(* full, and of three full TDs, and two transfers on the pipe at a time.     *)
EXTENDS TransferTDs

MCSizes == {0, 3, 6}
===============================================================================
