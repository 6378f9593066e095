---------------------------- MODULE RowLifecycle ----------------------------
(***************************************************************************)
(* What the service promises about one row of trending_repos, whatever     *)
(* goroutines work on the table and in whatever order:                     *)
(*                                                                         *)
(*   absent --> pending --> visible          a row appears, is enriched    *)
(*                 |           |                                           *)
(*                 +-> gone <--+             GitHub says 404, for good     *)
(*                                                                         *)
(* and visible rows become pending again only all together.  The database  *)
(* may be an old one, with rows at any stage.                              *)
(***************************************************************************)
CONSTANT Keys

VARIABLE life

Stages == {"absent", "pending", "visible", "gone"}

Init == life \in [Keys -> Stages]

\* A scrape lists a repo that the table does not have.
Discover(k) ==
  /\ life[k] = "absent"
  /\ life' = [life EXCEPT ![k] = "pending"]

\* The enricher completes a row; clients see it from now on.
Enrich(k) ==
  /\ life[k] = "pending"
  /\ life' = [life EXCEPT ![k] = "visible"]

\* GitHub does not know the repo.
Drop(k) ==
  /\ life[k] \in {"pending", "visible"}
  /\ life' = [life EXCEPT ![k] = "gone"]

\* The operator asks to enrich everything again.
ForceAll ==
  life' = [k \in Keys |-> IF life[k] = "visible" THEN "pending" ELSE life[k]]

Next ==
  \/ \E k \in Keys : Discover(k) \/ Enrich(k) \/ Drop(k)
  \/ ForceAll

Spec == Init /\ [][Next]_life
=============================================================================
