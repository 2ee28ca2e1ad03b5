--------------------------- MODULE MCScrapeMatter ---------------------------
(***************************************************************************)
(* Instances of ScrapeMatter for TLC.                                      *)
(***************************************************************************)
EXTENDS ScrapeMatter

\* M1220 and M12205: the shorter one is a part of the longer one.
TwoMatters == {<<1, 2, 2, 0>>, <<1, 2, 2, 0, 5>>}

\* Any matter, type and link, counts that are right, wrong, or end as they
\* should, and any figures that a delivery can have (k up to the cap, n one
\* of the counts).
Guesses ==
  [matter : Matters, counts : [Types -> {0, 1, 3, 13}], k : {1, 2},
   n : {1, 3}, type : Types, link : Links]

=============================================================================
