-------------------------------- MODULE MCFiles --------------------------------
(***************************************************************************)
(* Two keys of each kind that matters, and a photo of an owner's intake.   *)
(***************************************************************************)
EXTENDS Files, TLC

CONSTANTS c1, c2, g1, g2, n1, w1, w2

MCPrefixOf ==
  [f \in Files |-> CASE f \in {c1, c2} -> "customer_docs"
                     [] f \in {g1, g2} -> "agreements"
                     [] f = n1 -> "intake_photos"]

Everything == {"sweep", "purge"} \cup Tables

(* The purge overlaps all the rest.                                        *)
PurgeBeside == w1 :> Everything \ {"purge"} @@ w2 :> {"purge"}
================================================================================
