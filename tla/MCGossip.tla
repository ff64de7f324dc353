------------------------------ MODULE MCGossip -------------------------------
\* Networks and transactions for TLC.
EXTENDS Gossip, TLC

CONSTANTS n1, n2, n3, n4, t1, t2

Both(pairs) == pairs \cup {<<p[2], p[1]>> : p \in pairs}
Star == Both({<<n1, n2>>, <<n2, n3>>, <<n2, n4>>})
Ring == Both({<<n1, n2>>, <<n2, n3>>, <<n3, n4>>, <<n4, n1>>})
Triangle == Both({<<n1, n2>>, <<n2, n3>>, <<n3, n1>>})
StarAndRing == {Star, Ring}
OnlyTriangle == {Triangle}

\* t2 is sent from the middle of the star, of what t1 brought; it may overtake t1.
Origins == t1 :> n1 @@ t2 :> n2
Chained == t1 :> {} @@ t2 :> {t1}
OneOrigin == t1 :> n1
OneAlone == t1 :> {}
=============================================================================
