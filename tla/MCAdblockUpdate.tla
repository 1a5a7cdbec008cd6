--------------------------- MODULE MCAdblockUpdate ---------------------------
(***************************************************************************)
(* AdblockUpdate with three published versions of two lists: the second    *)
(* changes one list only, the third drops the other.                       *)
(***************************************************************************)
EXTENDS AdblockUpdate, TLC

MCPublished == << ("ads" :> "a1") @@ ("cookies" :> "c1"),
                  ("ads" :> "a2") @@ ("cookies" :> "c1"),
                  ("ads" :> "a3") @@ ("cookies" :> "none") >>
=============================================================================
