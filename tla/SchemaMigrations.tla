-------------------------- MODULE SchemaMigrations --------------------------
(***************************************************************************)
(* The schema steps of internal/platform/state/migrations.go, oldest       *)
(* first: the tables a step's statements need, create and drop, without    *)
(* their prefix platform_.  Every create and drop says "if [not] exists".  *)
(* Columns, indexes, "analyze" and the rewriting of rows are left out.     *)
(***************************************************************************)

Step(version, needs, creates, drops) ==
  [version |-> version, needs |-> needs, creates |-> creates, drops |-> drops]

V1 == Step(1, {}, {"providers", "profiles", "credentials", "oauth_sessions",
                   "models", "catalog_rows"}, {})

V2 == Step(2, {}, {"mcp_servers", "skills", "rules"}, {})

V3 == Step(3, {}, {"sessions", "chats", "agent_session_actions",
                   "domain_outbox", "domain_consumer_events"}, {})

V4 == Step(4, {}, {"cli_version_snapshots"}, {})

V7 == Step(7, {"chats", "agent_session_actions"}, {}, {})

V9 == Step(9, {}, {}, {"cli_definitions"})

V10 == Step(10, {}, {}, {"vendor_definitions"})

V11 == Step(11, {}, {}, {"agent_runs"})

V12 == Step(12, {}, {"model_registry_entries", "model_registry_observations",
                     "model_registry_source_status"}, {"model_definitions"})

V13 == Step(13, {"model_registry_observations"}, {}, {})

V14 == Step(14, {"model_registry_entries"}, {"model_registry_aliases"}, {})

V15 == Step(15, {"model_registry_entries", "model_registry_observations"}, {}, {})

V16 == Step(16, {"model_registry_entries"}, {"model_cards", "organizations"}, {})

V17 == Step(17, {}, {"credential_material_values"}, {})

\* Mutation: the rebuilt registry, whose step comes after those that use it.
RegistryLate == <<V1, V2, V3, V4, V7, V9, V10, V11, V13, V12, V14, V15, V16, V17>>

Migrations == <<V1, V2, V3, V4, V7, V9, V10, V11, V12, V13, V14, V15, V16, V17>>

\* Tables of releases before the ones these steps know.
LegacyTables == {"cli_definitions", "vendor_definitions", "agent_runs", "model_definitions"}

\* What the services of this repository read and write.
RuntimeTables == {"domain_outbox", "cli_version_snapshots"}
SupportTables == RuntimeTables \cup {"domain_consumer_events"}
ModelTables == {"domain_outbox", "model_registry_entries",
                "model_registry_observations", "model_registry_aliases",
                "model_cards"}

=============================================================================
