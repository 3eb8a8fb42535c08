------------------------------- MODULE MCChat --------------------------------
(* Workloads for TLC: small groups of events that share rooms.               *)
EXTENDS Chat, TLC

CONSTANTS ana, bea, cid, guest, north, south

MCWorkload(ops, users, clientCount, messages, width) ==
  [ops |-> ops, users |-> users, sockets |-> clientCount, messages |-> messages, width |-> width]

MCSupplierOf == [e \in {ana, bea, cid} |-> IF e = cid THEN south ELSE north]

MCSymmetry == Permutations(Workers) \cup Permutations(Sockets)

MCWorkloads ==
  {MCWorkload({"Connect", "GroupHttp", "Fail"}, {ana, bea, cid}, 3, 0, 1),
   MCWorkload({"Connect", "Disconnect", "Private"}, {ana, guest}, 3, 0, 2),
   MCWorkload({"Connect", "Private"}, {ana, bea, guest}, 3, 0, 1),
   MCWorkload({"Connect", "CreateRoom", "Private"}, {ana, bea, cid}, 1, 0, 1),
   MCWorkload({"Connect", "Send", "Load"}, {ana, bea}, 2, 1, 2),
   MCWorkload({"Connect", "Send", "Join", "Load"}, {ana}, 2, 2, 1),
   MCWorkload({"Connect", "Leave", "BotHttp", "PostHttp", "LoadHttp"}, {ana}, 2, 2, 1),
   MCWorkload({"Connect", "PrivateHttp", "Fail"}, {ana, bea}, 2, 0, 1),
   MCWorkload({"Connect", "Send", "Page"}, {ana}, 1, 3, 2)}
=============================================================================
