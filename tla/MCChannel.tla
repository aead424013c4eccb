----------------------------- MODULE MCChannel -----------------------------
(* Instances of ChannelDelivery for TLC. *)
EXTENDS ChannelDelivery

\* Every message comes from one customer.
OneUser == [m \in 1..N |-> CHOOSE u \in Users : TRUE]

\* So many starts, a reply of so many segments, and every trouble of S once.
Budget(starts, segs, S) ==
    [l \in Limits |-> IF l = "starts" THEN starts
                      ELSE IF l = "segs" THEN segs
                      ELSE IF l \in S THEN 1 ELSE 0]
Late(m) == [Budget(2, 1, {"sleep"}) EXCEPT !.old = m]

Troubled == {Budget(2, 1, {"stall", "drop", "receipt"}),
             Budget(2, 2, {"receipt"}), Budget(1, 2, {"takeover"}), Budget(2, 2, {"sleep"}),
             Budget(3, 1, {"page", "ack", "poison"})}
TakenOver == {Budget(2, 1, {"takeover"}), Late(0), Late(1), Late(2)}
Living == {Budget(2, 1, {"stall"}), Budget(2, 1, {"receipt", "sleep"}), Budget(2, 1, {"takeover"})}
LostPage == {Budget(2, 1, {"page"})}
=============================================================================
