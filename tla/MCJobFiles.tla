----------------------------- MODULE MCJobFiles -----------------------------
(***************************************************************************)
(* Instances of JobFiles for TLC.                                          *)
(***************************************************************************)
EXTENDS JobFiles

\* Two files; one file and a stray; two buttons with one file name.
SomeBatches ==
  {[paths |-> <<"a", "b">>, strays |-> {}],
   [paths |-> <<"a">>, strays |-> {"b"}],
   [paths |-> <<"a", "a">>, strays |-> {}]}

=============================================================================
