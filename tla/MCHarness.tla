----------------------------- MODULE MCHarness ------------------------------
(* The longest calls: 5 + 13 + 9 s where Alice hangs up, 30 s without an     *)
(* answer, and 45 s without media after an answer at 3 s at the latest; two  *)
(* more for messages.  RTPproxy is ready at once, late, and too late; so is  *)
(* the SSuT.                                                                 *)
EXTENDS Harness

MCLasts ==
    [t \in AllTests |->
        CASE t \in {"13", "14", "reinv_bad_ack"} -> 50
          [] t \in {"11", "12"} -> 32
          [] OTHER -> 29]

MCConfs ==
    {c \in [mm : MmTypes, rtpc : {"udp", "rtp.io"}, mode : Modes,
            fault : HarnessFaults, rtppReady : {0, 6, 7}, mmReady : {0, 5, 6}] :
        /\ c.rtpc = "rtp.io" => c.mm \in {"b2bua", "opensips"} /\ c.rtppReady = 0
                                /\ c.fault # "rtpp_crash"
        /\ c.fault = "mm_sock" => c.mm = "b2bua"
        /\ c.fault = "mm_config" => c.mm \in {"opensips", "kamailio"}}

NoDraws == {}
=============================================================================
