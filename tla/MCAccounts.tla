------------------------------ MODULE MCAccounts ------------------------------
(***************************************************************************)
(* Two scenes over two Clerk accounts.  "mail": two emails, which the      *)
(* accounts hold one after the other or exchange, with sign-ins, webhooks  *)
(* and invites.  "homes": one email, which the accounts hold one after the *)
(* other, and every call.                                                  *)
(***************************************************************************)
EXTENDS Accounts, TLC

CONSTANTS c1, c2, e1, e2, r1, r2, a1, w1, w2,
          MaxEvents    \* webhook events of all accounts that wait for an answer

VARIABLE scene

Symmetry == Permutations(Accounts) \cup Permutations(Rows)

(* One worker does everything, and an agency's invite may overlap all of   *)
(* it.                                                                     *)
InviteBeside == w1 :> Calls @@ w2 :> {"invite"}

MCInit == Init /\ scene \in {"mail", "homes"}

MCNext ==
  /\ Next /\ scene' = scene
  /\ Cardinality({x \in Accounts \X Events : x[2] \in events'[x[1]]}) <= MaxEvents
  /\ scene = "mail" =>
       /\ ties' = ties
       /\ \A w \in Workers : job'[w].call \notin {"leave", "activate"}
  /\ scene = "homes" =>
       /\ \A c \in Accounts : address'[c] # e2
       /\ \A w \in Workers : job'[w].email # e2

MCSpec == MCInit /\ [][MCNext]_<<vars, scene>>
================================================================================
