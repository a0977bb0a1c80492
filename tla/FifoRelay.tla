------------------------------ MODULE FifoRelay ------------------------------
(***************************************************************************)
(* What a relay of messages promises: on each channel the receiver gets    *)
(* what the sender sent, whole, in order and once, as far as it gets.      *)
(***************************************************************************)
EXTENDS Naturals, Sequences

CONSTANTS Chans, Msgs

VARIABLES sent,   \* per channel, the messages given to the relay
          got     \* per channel, the messages it handed over

Init == sent = [c \in Chans |-> <<>>] /\ got = [c \in Chans |-> <<>>]

Send(c, msg) ==
    /\ sent' = [sent EXCEPT ![c] = Append(@, msg)]
    /\ UNCHANGED got

Deliver(c) ==
    /\ Len(got[c]) < Len(sent[c])
    /\ got' = [got EXCEPT ![c] = Append(@, sent[c][Len(@) + 1])]
    /\ UNCHANGED sent

Next == \E c \in Chans : Deliver(c) \/ \E msg \in Msgs : Send(c, msg)

Spec == Init /\ [][Next]_<<sent, got>>
=============================================================================
