----------------------------- MODULE MCRanking ------------------------------
(* An instance of Ranking for TLC: two jobs and a resume that fits the first. *)
EXTENDS Ranking

CONSTANTS jt1, jt2, ct1, tag1

MCScore(query, text) == IF query = text \/ <<query, text>> = <<ct1, jt1>> THEN 9 ELSE 1
MCMatch     == <<0, 5>>
MCSkills(t) == IF t \in {jt1, ct1} THEN {tag1} ELSE {}

MCRankInit == RankInit /\ jdOf[1] = jt1
=============================================================================
