-------------------------- MODULE MCServiceStartup --------------------------
\* Replicas of the services, as the release before the last schema step and
\* as this one.
EXTENDS ServiceStartup, SchemaMigrations

CONSTANTS s1, s2, m1, r1, proxy, rules, sources, profiles

MCReleases == {1, 2}
MCDeployed == [i \in Instances |-> IF i \in Supports THEN MCReleases ELSE {2}]
MCKnown == [r \in MCReleases |-> Len(Migrations) - 2 + r]
MCAccessSets == <<proxy, rules>>
MCAllAccessSets == <<proxy, rules, sources>>
MCTelemetrySets == <<profiles>>

=============================================================================
