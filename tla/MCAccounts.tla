----------------------------- MODULE MCAccounts -----------------------------
(* A small instance of Accounts: the owner, and a user who signs up.        *)
EXTENDS Accounts, TLC
CONSTANTS owner, user, k1, k2, k3

\* The user gets two codes, owner two links.
Codes == owner :> 0 @@ user :> 2
Links == owner :> 2 @@ user :> 0

KeySymmetry == Permutations(Keys)
=============================================================================
