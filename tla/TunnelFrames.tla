---------------------------- MODULE TunnelFrames -----------------------------
(***************************************************************************)
(* The receive loop of the tunnel with both kinds of work it hands out,    *)
(* plain HTTP requests and WebSocket channels, over connections that are   *)
(* lost and made again (python/yr_sandbox/tunnel_client.py, _proxy_loop).  *)
(***************************************************************************)
EXTENDS TunnelDedup, TunnelChannel

VARIABLE carries       \* bound: which kind of work this behaviour has

vars == <<wire, dedup, channel, carries>>

Init ==
    /\ WireInit /\ DedupInit /\ ChannelInit
    /\ carries \in {"http", "ws"}

Lost == Lose /\ DedupLose /\ ChannelLose /\ UNCHANGED carries
Left == RxLeaves /\ DedupLeave /\ ChannelLeave /\ UNCHANGED carries
Connected == Connect /\ DedupConnect /\ UNCHANGED <<channel, carries>>

Http(step) == carries = "http" /\ step /\ UNCHANGED <<channel, carries>>
Ws(step) == carries = "ws" /\ step /\ UNCHANGED <<dedup, carries>>

Next == Http(DedupNext) \/ Ws(ChannelNext) \/ Lost \/ Left \/ Connected

(* The event loop runs every task that can run, the receive loop reads what
   has come, _connect_loop connects again, and the peer reads. *)
Spec ==
    /\ Init /\ [][Next]_vars
    /\ WF_vars(Left) /\ WF_vars(Connected)
    /\ WF_vars(Http(DedupRun))
    /\ WF_vars(Ws(ReceiveSteps)) /\ WF_vars(Ws(PeerTakes))
    /\ \A u \in Uses : /\ WF_vars(Ws(HandlerSteps(u))) /\ WF_vars(Ws(PumpsIn(u)))
                       /\ WF_vars(Ws(PumpsOut(u) \/ OutEnds(u)))

(* Type correctness. *)
TypeOK == DedupTypeOK /\ ChannelTypeOK /\ link \in {"up", "lost", "down"}
=============================================================================
