----------------------------- MODULE TunnelWire ------------------------------
(***************************************************************************)
(* The connection as the frame handlers of TunnelClient._proxy_loop see it *)
(* (python/yr_sandbox/tunnel_client.py): it is lost and made again, and    *)
(* the one receive loop may be caught in a send of its own.  TunnelLink    *)
(* has the details; TunnelDedup and TunnelChannel are built on this.       *)
(***************************************************************************)
EXTENDS Naturals

CONSTANT MaxLosses     \* bound: losses of the connection

ASSUME WireAssumption == MaxLosses \in Nat

VARIABLES link,        \* "up", "lost" (frames received before may remain), "down"
          losses,      \* losses so far, which number the connections
          wedged       \* the receive loop waits for ws_ready in send_frame

wire == <<link, losses, wedged>>

WireInit == link = "up" /\ losses = 0 /\ wedged = FALSE

(* The receive loop takes the next frame. *)
RxReads == link \in {"up", "lost"} /\ ~wedged

(* send_frame called by the receive loop itself: on a lost connection it
   clears ws_ready and waits for a connection that needs its return. *)
RxSends == wedged' = (link = "lost") /\ UNCHANGED <<link, losses>>

(* external: the network. *)
Lose ==
    /\ link = "up" /\ losses < MaxLosses
    /\ link' = "lost" /\ losses' = losses + 1
    /\ UNCHANGED wedged

RxLeaves ==
    /\ link = "lost" /\ ~wedged
    /\ link' = "down"
    /\ UNCHANGED <<losses, wedged>>

Connect ==
    /\ link = "down"
    /\ link' = "up"
    /\ UNCHANGED <<losses, wedged>>
=============================================================================
