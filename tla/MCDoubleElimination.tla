------------------------- MODULE MCDoubleElimination -------------------------
(* Requests that await their snapshot are told apart by nothing.           *)
EXTENDS DoubleElimination, TLC

Symmetry == Permutations(Requests)

\* Three participants: two requests wait at once and any result is entered
\* meanwhile.  Five: one waits.  Once a request out of date has written, requests
\* are served one after the other.
UntilOutdated ==
  {<<3, "ask", 1, FALSE>>, <<3, "result", 1, FALSE>>, <<3, "result", 2, FALSE>>,
   <<5, "result", 1, FALSE>>}
=============================================================================
