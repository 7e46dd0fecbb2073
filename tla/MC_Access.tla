----------------------------- MODULE MC_Access -----------------------------
EXTENDS Access

CONSTANTS r1, s1, s2, u1, kr, kw, c1

Of(kind, min) == [kind |-> kind, min |-> min, scopes |-> {}]
Service(S) == [kind |-> "service", min |-> 0, scopes |-> S]
MCChecks == Requests \X Tiers
MCHolder == [s \in Sessions |-> u1]
MCKeyOwner == [k \in Keys |-> u1]
MCKeyCap == [k \in Keys |-> IF k = kr THEN READER ELSE 4]
MCGrants == [c \in Clients |-> {"execute"}]
MCAuthorities == {[role |-> 0, active |-> TRUE], [role |-> 4, active |-> TRUE],
                  [role |-> 4, active |-> FALSE]}
\* Both tiers in one route, in either order; two thresholds on one resolution;
\* a token and a key together; the bare principal alone, exempt and beside a
\* capability; a key guard that any owner meets; a key guard above the ceiling
\* and a service guard without scopes.
MCRoutes == {<<Of("user", 0), Of("role", 2)>>, <<Of("role", 1), Of("role", 4)>>,
             <<Of("role", 2), Of("user", 0)>>,
             <<Of("key", 2), Of("role", 2)>>, <<Of("key", 1), Of("key", 2)>>,
             <<Of("user", 0), Of("bare", 0)>>, <<Of("bare", 0)>>, <<Of("key", 0)>>, <<Of("key", 4)>>,
             <<Service({"execute"}), Of("bare", 0)>>, <<Service({"admin"})>>,
             <<Service({})>>}
MCExempt == {<<Of("bare", 0)>>}
=============================================================================
