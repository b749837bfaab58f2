------------------------------ MODULE MCSigners ------------------------------
(* Enumerates the entries a payload can have, to compare what the server      *)
(* makes of them with what they mean.                                         *)
EXTENDS Signers, TLC, SequencesExt

CONSTANTS a, b, c, d, m1, m2

VARIABLE entry

MCMembers ==
    (m1 :> <<[user |-> a, weight |-> 1], [user |-> b, weight |-> 2], [user |-> c, weight |-> 1]>>)
        @@ (m2 :> <<[user |-> c, weight |-> 3], [user |-> a, weight |-> 3]>>)
MCThreshold == (m1 :> 3) @@ (m2 :> 3)

Entries ==
    {DefaultEntry} \cup {UserEntry(u) : u \in User}
        \cup {MsigEntry(m, l) : m \in Msig, l \in BoundedSeq(User, 3)}

Init == entry = DefaultEntry
Next == \E e \in Entries : entry' = e
Spec == Init /\ [][Next]_entry

\* "Optionally these are active_addresses for the msig members who are
\* required to sign. If None, all members must sign" (payload.py, MultiSig).
OmittedSignersAreAllMembers ==
    (entry.kind = "msig" /\ entry.msig \in Confirmed /\ entry.signers = <<>>) =>
        /\ Accepted(entry)
        /\ SignersOf(entry, {}) = MemberUsers(entry.msig)
=============================================================================
