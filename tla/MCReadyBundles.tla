---------------------------- MODULE MCReadyBundles ----------------------------
(* Model checking of publication, ACK retirement and raw retirement.          *)
EXTENDS ReadyBundles, TLC

CONSTANTS srcA, srcB, srcC

\* srcA holds records 0 and 1, with no packet in 1; srcB is a quarantined source
\* whose certified prefix replays them and goes on with 2, which does not
\* continue them (Breaks); srcC disagrees with srcB on record 2.
MCFirst == srcA :> 0 @@ srcB :> 0 @@ srcC :> 2
MCSize == srcA :> 2 @@ srcB :> 4 @@ srcC :> 1
MCPrefix == srcA :> 2 @@ srcB :> 3 @@ srcC :> 1
MCVariant == srcA :> 0 @@ srcB :> 0 @@ srcC :> 1
MCRank == srcA :> 0 @@ srcB :> 1 @@ srcC :> 2

\* One source of two records.
AckFirst == srcA :> 0
AckSize == srcA :> 2
AckVariant == srcA :> 0
AckRank == srcA :> 0
===============================================================================
