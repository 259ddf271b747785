--------------------------- MODULE MCAdvancement ---------------------------
(* Instances of Advancement for TLC: a pool of two matches whose first two  *)
(* meet; the winner plays a seeded entry, the loser the third of the pool.  *)
EXTENDS Advancement, TLC

CONSTANTS a, b, c, d, h, g1, g2, sf, final, third

Ids == (a :> 1) @@ (b :> 2) @@ (c :> 3) @@ (d :> 4) @@ (h :> 5)

Seed(e) == [kind |-> "seed", entry |-> e]
Rank(r) == [kind |-> "rank", rank |-> r]
From(kind, m) == [kind |-> kind, match |-> m]

Format ==
  (<<g1, "home">> :> Seed(a)) @@ (<<g1, "away">> :> Seed(b)) @@
  (<<g2, "home">> :> Seed(c)) @@ (<<g2, "away">> :> Seed(d)) @@
  (<<sf, "home">> :> Rank(1)) @@ (<<sf, "away">> :> Rank(2)) @@
  (<<final, "home">> :> From("winner", sf)) @@ (<<final, "away">> :> Seed(h)) @@
  (<<third, "home">> :> Rank(3)) @@ (<<third, "away">> :> From("loser", sf))
=============================================================================
