----------------------------- MODULE MCBlkCache -----------------------------
(* The extents a run's requests may use: single aligned pages, any range,  *)
(* single sectors, or with two sectors to a page a mixture of a sector, a  *)
(* straddling range and two whole pages.                                   *)
EXTENDS BlkCache, TLC

WholePages == {<<p * SPP, p * SPP + SPP - 1>> : p \in Pages}
Runs == {e \in Sectors \X Sectors : e[1] <= e[2]}
OneSector == {<<s, s>> : s \in Sectors}
Partial == {<<1, 1>>, <<1, 2>>, <<0, 3>>}

(* A table of at most 8 lines is its own probe neighbourhood. *)
ProbeAll == [k \in Devs \X Pages |-> Lines]

Symmetry == Permutations(Clients)
====
