---------------------------- MODULE MCPackLifecycle ----------------------------
(* Small instances of PackLifecycle for TLC. *)
EXTENDS PackLifecycle, TLC

CONSTANTS j1, j2, s1, s2, c1, c2, t1

MCJobs == {j1, j2}
MCSlots == {s1, s2}
MCCalls == {c1, c2}
MCTenants == {t1}
MCTenantOf == [c \in Calls |-> t1]

Ask(kind, to, role) == [kind |-> kind, to |-> to, role |-> role]

\* A block, an early publication, one that its role forbids, and every other
\* kind of call (whose target and role are not read).
MCRequests ==
    {Ask("transition", "BLOCKED", "PLATFORM_ADMIN"),
     Ask("transition", "BLOCKED", "TENANT_ADMIN"),
     Ask("transition", "PUBLISHED", "TENANT_ADMIN"),
     Ask("certify", "CERTIFIED", "TENANT_ADMIN"),
     Ask("revoke", "VALIDATED", "PLATFORM_ADMIN"),
     Ask("install", "PUBLISHED", "OPERATOR"),
     Ask("uninstall", "PUBLISHED", "OPERATOR")}

MCSymmetry == Permutations({s1, s2}) \cup Permutations({j1, j2})
                \cup Permutations({c1, c2})
===============================================================================
