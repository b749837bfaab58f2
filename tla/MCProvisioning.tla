--------------------------- MODULE MCProvisioning ----------------------------
(* Instances of Provisioning: accounts of which some have one key or one      *)
(* name, multisigs with enough and with unknown members, in any order.        *)
EXTENDS Provisioning, TLC

CONSTANTS ann, ANN, bob, cy, x, y, z, m, n

\* Two of the names differ in case only.
MCLike == [name \in Name |-> IF name \in {ann, ANN} THEN {ann, ANN} ELSE {name}]

New(name, address) == [name |-> name, address |-> address, password |-> x]

\* One account, and two lists of which one repeats a name.  Between the lists,
\* keys are shared.
MCBatches == {<<New(ann, x)>>, <<New(bob, z), New(cy, y)>>, <<New(ANN, z), New(ANN, y)>>}

Part(address, weight) == [address |-> address, weight |-> weight]

Asked(name, threshold, attested, members) ==
    [name |-> name, threshold |-> threshold, attested |-> attested, members |-> members]

\* A threshold that some pairs meet exactly, one that waits for attestation,
\* and one that names an account twice.
MCMsigSetups ==
    {Asked(m, 3, FALSE, <<Part(y, 1), Part(x, 2), Part(z, 1)>>),
     Asked(n, 2, FALSE, <<Part(z, 2), Part(x, 1)>>),
     Asked(n, 2, TRUE, <<Part(x, 1), Part(y, 1)>>),
     Asked(m, 2, FALSE, <<Part(x, 1), Part(x, 1)>>)}

\* Threads that run a request differ in nothing but their names.
HandlersAlike == Permutations(Handler)
=============================================================================
