------------------------- MODULE MCCollectDocuments -------------------------
(***************************************************************************)
(* Instances of CollectDocuments for TLC.                                  *)
(***************************************************************************)
EXTENDS CollectDocuments

\* Every row a document of its own.
OwnDoc == [r \in Rows |-> r]

\* Rows 2 and 4 carry one file stem, as H-1.pdf and H-1.docx would.
SharedDoc == [r \in Rows |-> IF r = 4 THEN 2 ELSE r]

=============================================================================
