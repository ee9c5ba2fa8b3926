---------------------------- MODULE MCIcmpPacket ----------------------------
(***************************************************************************)
(* Small bytes and words for the run of IcmpPacket: a byte has four values *)
(* and a timestamp two bytes, so a ping's content has six.                 *)
(***************************************************************************)
EXTENDS IcmpPacket

MCPings == [tid : {0, 1, 14}, stamp : [1..2 -> Byte], idx : {0, 1, 6, 15}]

MCStrings == UNION {[1..n -> Byte] : n \in 0..3}
               \cup {[j \in 1..15 |-> 3], [j \in 1..14 |-> j % 4]}
=============================================================================
