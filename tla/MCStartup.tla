------------------------------ MODULE MCStartup -------------------------------
(* Start-up with two Binance sockets and the Gate socket.  Of the symbols  *)
(* 1 is a fallback and blacklisted, as all of the code's fallbacks are; 2  *)
(* has less volume than 3, and one reply lists 1 with too little.          *)
EXTENDS Startup, TLC

MCSockets == {<<"binance", 1>>, <<"binance", 2>>, <<"gate", 1>>}
MCCapacity == [e \in Exchanges |-> IF e = "binance" THEN 3 ELSE 1]
Volumes(symbols) == [s \in symbols |-> IF s = 2 THEN 1 ELSE 2]
MCReplies ==
  {[binance |-> Volumes({1, 2, 3}), gate |-> Volumes({1, 2, 3})],
   [binance |-> Volumes({2}), gate |-> Volumes({2, 3}) @@ (1 :> 0)],
   [binance |-> <<>>, gate |-> Volumes({1, 2, 3})]}
=============================================================================
