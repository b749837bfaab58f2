----------------------------- MODULE MCAccounts -----------------------------
(* Instances of Accounts: one account, which the administrator registers.     *)
EXTENDS Accounts, TLC

CONSTANTS ann, x, y

MCLike == [name \in Name |-> {name}]

MCAnn == {<<[name |-> ann, address |-> x, password |-> x]>>}
=============================================================================
