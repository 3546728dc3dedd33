----------------------------- MODULE MCOpening ------------------------------
(* With 0.18 s to a hop the CANCEL of early_cancel_lost100 arrives 0.5 s and *)
(* three hops after the INVITE, 1.04 s at the worst, which rounds to 1.0.    *)
EXTENDS Opening

MCCalls == [cls : OpeningClasses, fault : {"none"}]
           \cup [cls : OpeningClasses \ {"1"}, fault : {"deaf"}]
MCDelays == {0, 9, 18}
=============================================================================
