------------------------------- MODULE MCXPing -------------------------------
(***************************************************************************)
(* Model values and bounds for the runs of XPing.                          *)
(***************************************************************************)
EXTENDS XPing, TLC

\* Requests are interchangeable, and so are addresses.
Symmetry == Permutations(Req) \cup Permutations(Addr)

\* Packets the raw socket also receives, with the timestamp of our first task:
\* a reply to another worker thread, a reply to another process, and the echo
\* request of another xping that pings this host.
MCOtherPackets ==
  LET pkt(tid, type, id) ==
        [tid |-> tid, type |-> type, id |-> id, stamp |-> 1, idx |-> 0,
         req |-> NoReq]
  IN {pkt(ThreadId + 1, "reply", ShortPid), pkt(ThreadId, "reply", ShortPid + 1),
      pkt(ThreadId, "request", ShortPid)}
=============================================================================
