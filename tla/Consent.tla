------------------------------- MODULE Consent -------------------------------
(***************************************************************************)
(* What the service promises about a transaction, without requests,        *)
(* sessions or handlers: a set of slots is asked, each gives its consent   *)
(* on its own, and the transaction is sent only when all of them did.      *)
(* Signing implements it (signing.py), for any number of handlers.         *)
(***************************************************************************)
EXTENDS FiniteSets

CONSTANTS Track, Slot

VARIABLES
    asked,   \* asked[t]: the slots whose consent t needs, {} before it is submitted
    given,   \* given[t]: the slots that consented
    sent     \* the transactions that were sent to the chain

vars == <<asked, given, sent>>

Init ==
    /\ asked = [t \in Track |-> {}]
    /\ given = [t \in Track |-> {}]
    /\ sent = {}

\* A transaction asks its slots, once.
Ask(t) ==
    /\ asked[t] = {}
    /\ t \notin sent
    /\ \E party \in SUBSET Slot : asked' = [asked EXCEPT ![t] = party]
    /\ UNCHANGED <<given, sent>>

\* One slot consents.  Consent is not taken back.
Give(t, s) ==
    /\ s \in asked[t]
    /\ given' = [given EXCEPT ![t] = @ \cup {s}]
    /\ UNCHANGED <<asked, sent>>

\* Only a transaction all of whose slots consented is sent.
Send(t) ==
    /\ given[t] = asked[t]
    /\ sent' = sent \cup {t}
    /\ UNCHANGED <<asked, given>>

Next == \E t \in Track : Ask(t) \/ Send(t) \/ \E s \in Slot : Give(t, s)

Spec == Init /\ [][Next]_vars
=============================================================================
