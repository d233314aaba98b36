------------------------- MODULE MCRealtimeDatabase -------------------------
(* A record of two leaves, one of them in a bucket of its own; the rules   *)
(* may refuse writes at the other one.  A process may make three writes    *)
(* with one observer, or two with two.  Behaviours of their own are about   *)
(* messages of nanopb.                                                      *)
EXTENDS RealtimeDatabase, MCNanopb

MCPath      == {"entry", "info"}
MCPlace     == {"record", "bucket"}
MCUnder     == [l \in MCPlace |-> IF l = "record" THEN MCPath ELSE {"entry"}]
MCVisit     == [l \in MCPlace |-> IF l = "record" THEN 1 ELSE 0]
MCMayRefuse == {"info"}

MaxBudget  == 4
Budget     == nextWrite + PendingWrites + nextHandle <= MaxBudget

(* The messages of nanopb may come to an end, the client does not.          *)

ClientInit == Init /\ (NoMessages \/ Pb!Init)
ClientNext ==
    \/ schema = NullPtr /\ Next /\ Budget' /\ UNCHANGED pbVars
    \/ schema # NullPtr /\ (Pb!Next \/ UNCHANGED pbVars) /\ UNCHANGED vars
ClientSpec == ClientInit /\ [][ClientNext]_<<vars, pbVars>>
=============================================================================
