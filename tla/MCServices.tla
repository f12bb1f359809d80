----------------------------- MODULE MCServices -----------------------------
(* A TLC instance of Services; the values come from services.cfg.           *)
EXTENDS Services, TLC

CONSTANTS n1, n2, c1, c2, k1

(* Placement's clients; the other components know nothing of them. *)
Symmetry == Permutations(Client)

(* What the keys of the API are good for: one of them is unknown.           *)
KeyScopes == [k \in {"good", "bad"} |->
  IF k = "bad" THEN {}
  ELSE {"nodes:write", "nodes:read", "scheduler:read", "canary:control"}]
=============================================================================
