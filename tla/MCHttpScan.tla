----------------------------- MODULE MCHttpScan ----------------------------
(***************************************************************************)
(* A small instance of HttpScan for TLC: pages with at most two "</html>", *)
(* one "</HTML>" and two blank lines.                                      *)
(***************************************************************************)
EXTENDS HttpScan, FiniteSets

AtMost(n) == {S \in SUBSET Offset : Cardinality(S) <= n}

SmallPage == {pg \in [lower : AtMost(2), upper : AtMost(1), blank : AtMost(2)] : IsPage(pg)}

MCInit == page \in SmallPage /\ total_len = 0 /\ task = "reading"

MCSpec == MCInit /\ [][Next]_vars
=============================================================================
