------------------------------ MODULE MCUplink ------------------------------
(* Instances of Uplink for TLC.  A pcap_upload is three times as long as    *)
(* any other frame.                                                         *)
EXTENDS Uplink

MCFrameLength == [k \in FrameKinds |-> IF k = "pcap_upload" THEN 3 ELSE 1]
=============================================================================
