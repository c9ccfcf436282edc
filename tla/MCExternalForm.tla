--------------------------- MODULE MCExternalForm ---------------------------
(***************************************************************************)
(* Small instances of ExternalForm for TLC.                                *)
(***************************************************************************)
EXTENDS ExternalForm, TLC

CONSTANTS l1, l2, r1, r2, s1, s2, w1, w2

\* One row, its recipient.
OneOwner == (l1 :> r1)

\* Two rows of two recipients of the same task.
TwoOwners == (l1 :> r1) @@ (l2 :> r2)

\* Worker threads are interchangeable, and so are submitters.
WorkerSymmetry == Permutations({w1, w2})
SubmitterSymmetry == Permutations({s1, s2})
=============================================================================
