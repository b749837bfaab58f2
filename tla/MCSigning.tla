----------------------------- MODULE MCSigning ------------------------------
(* Instances of Signing: three users, two multisigs, a few payloads.         *)
EXTENDS Signing, TLC

CONSTANTS a, b, c, m1, m2

MCMembers ==
    (m1 :> <<[user |-> a, weight |-> 1], [user |-> b, weight |-> 2], [user |-> c, weight |-> 1]>>)
        @@ (m2 :> <<[user |-> b, weight |-> 3]>>)
MCThreshold == (m1 :> 3) @@ (m2 :> 3)

Ask(sender, sponsor) == [requestor |-> a, sender |-> sender, sponsor |-> sponsor]

\* The requestor signs alone; sender and sponsor are single accounts.
Alone == Ask(DefaultEntry, DefaultEntry)
Sponsored == Ask(DefaultEntry, UserEntry(b))
\* A multisig signs: enough of its members, too few of them.
ByMultisig == Ask(MsigEntry(m1, <<a, b>>), DefaultEntry)
ByMinority == Ask(MsigEntry(m1, <<a, c>>), DefaultEntry)
\* A single member's multisig pays for another account's transaction.
MultisigPays == Ask(UserEntry(c), MsigEntry(m2, <<b>>))

MCSinglePayloads == {Alone, Sponsored, ByMultisig, ByMinority}
MCSponsored == {Sponsored}
MCMultisigPays == {MultisigPays}
MCMultisigs == {Alone, ByMultisig, MultisigPays}
=============================================================================
