------------------------------- MODULE MCFiles -------------------------------
(***************************************************************************)
(* Small instances of images and owners for TLC.                           *)
(***************************************************************************)
EXTENDS FileProperties, TLC

\* Lists of up to two images, in both orders.
MCLists == {s \in UNION {[1..n -> Hashes] : n \in 0..2} : IsInjective(s)}

\* Once all requests have begun, a token that none of them uses is nothing to
\* look at: the same is there without it.
TokensUsed ==
  tokens # {} /\ requests = MaxRequests =>
    \/ \E c \in Clients : tx[c].req.op = "verify"
    \/ \E i \in DOMAIN history : history[i].req.op = "verify"

Symmetric == Permutations(Clients) \cup Permutations(Persons) \cup Permutations(Hashes)
=============================================================================
