----------------------------- MODULE MCReports ------------------------------
(* Instances of Reports: accounts that ask with and without a filter.         *)
EXTENDS MCSigning, Reports

By(as, flags) == [as |-> as, flags |-> flags]

\* Everything, two selections, and a role that is none.
MCFilters == {By("none", {}), By("sender", {"pending", "signed"}), By("sponsor", {"denied"}),
              By("other", {})}

\* One account in both roles, besides the payloads of MCSigning.
BothRoles == Ask(DefaultEntry, UserEntry(a))
MCAllPayloads == MCSinglePayloads \cup {BothRoles}
=============================================================================
