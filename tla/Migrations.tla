----------------------------- MODULE Migrations -----------------------------
(***************************************************************************)
(* The revisions of alembic/versions and what alembic does with them:      *)
(* upgrade and downgrade run the steps of every revision on the way in one *)
(* transaction (env.py), so that a step that fails leaves the database as  *)
(* it was.  What makes a step fail is what PostgreSQL refuses: a table,    *)
(* column, index or enum type that exists already or does not exist, a     *)
(* table others reference, a NOT NULL column without a default where there *)
(* are rows.  Dropping a table leaves its enum types behind.               *)
(***************************************************************************)
EXTENDS Models, Integers, Sequences

CONSTANT Stored  \* bound: the tables that may hold rows

ASSUME StoredAssumption == Stored \subseteq DOMAIN Declared

VARIABLES
    revision,  \* the number of revisions applied: the row of alembic_version
    tables,    \* the tables, each with the fields of SchemaTables
    types,     \* the enum types
    rows       \* the tables that hold rows

vars == <<revision, tables, types, rows>>

-----------------------------------------------------------------------------
\* The steps of a revision.
create(t, def) == [op |-> "create", table |-> t, def |-> def]

\* drop_index for each index the revision names, then drop_table.
drop(t, index) == [op |-> "drop", table |-> t, index |-> index]

\* The other steps on one table, taken together: columns, indexes and foreign
\* keys go before others come.
Same == [drop |-> {}, drop_index |-> {}, drop_refs |-> {}, required |-> {},
         defaulted |-> {}, optional |-> {}, loosen |-> {}, tighten |-> {},
         index |-> {}, unique |-> {}, refs |-> {}]
alter(t, change) == [op |-> "alter", table |-> t, change |-> change]

upgrade_2b ==
    <<create("plans", plans), create("users", users),
      create("user_preferences", user_preferences),
      create("workspaces", workspaces),
      alter("users", [Same EXCEPT !.refs = To("workspaces", {"default_workspace_id"})])>>
downgrade_2b ==
    <<alter("users", [Same EXCEPT !.drop_refs = {"default_workspace_id"}]),
      drop("workspaces", {}), drop("user_preferences", {}), drop("users", {}),
      drop("plans", {})>>

upgrade_2c ==
    <<create("permissions", permissions), create("roles", roles),
      create("role_permissions", role_permissions)>>
downgrade_2c ==
    <<drop("role_permissions", {}), drop("roles", {}), drop("permissions", {})>>

upgrade_2d ==
    <<create("workspace_members", workspace_members),
      create("workspace_invites", workspace_invites)>>
downgrade_2d ==
    <<drop("workspace_invites", {{"workspace_id", "email"}}),
      drop("workspace_members", {})>>

\* The new key of a user may be null.
upgrade_2eBug ==
    <<alter("users", [Same EXCEPT
        !.drop = {"hashed_password", "last_login", "password_changed_at",
                  "two_factor_enabled", "is_verified"},
        !.optional = {"supabase_user_id"}, !.defaulted = {"is_verified"},
        !.index = {{"supabase_user_id"}}, !.unique = {{"supabase_user_id"}}])>>

upgrade_2e ==
    <<alter("users", [Same EXCEPT
        !.drop = {"hashed_password", "last_login", "password_changed_at",
                  "two_factor_enabled", "is_verified"},
        !.required = {"supabase_user_id"}, !.defaulted = {"is_verified"},
        !.index = {{"supabase_user_id"}}, !.unique = {{"supabase_user_id"}}])>>
downgrade_2e ==
    <<alter("users", [Same EXCEPT
        !.drop_index = {{"supabase_user_id"}},
        !.drop = {"supabase_user_id", "is_verified"},
        !.required = {"is_verified", "two_factor_enabled", "hashed_password"},
        !.optional = {"password_changed_at", "last_login"}])>>

upgrade_2f ==
    <<create("api_keys", api_keys), create("audit_logs", audit_logs),
      create("notifications", notifications)>>
downgrade_2f ==
    <<drop("notifications", {}), drop("audit_logs", {}), drop("api_keys", {})>>

upgrade_6d96 ==
    <<create("assets", assets), create("brand_kits", brand_kits),
      create("campaigns", campaigns), create("campaign_assets", campaign_assets),
      create("campaign_content", campaign_content),
      create("campaign_schedules", campaign_schedules),
      create("campaign_content_assets", campaign_content_assets),
      alter("users", [Same EXCEPT !.drop = {"is_verified"}])>>

\* is_verified stays dropped.
downgrade_6d96Bug ==
    <<drop("campaign_content_assets", {}),
      drop("campaign_schedules", campaign_schedules.index),
      drop("campaign_content", campaign_content.index),
      drop("campaign_assets", {}), drop("campaigns", campaigns.index),
      drop("brand_kits", brand_kits.index), drop("assets", assets.index)>>

downgrade_6d96 ==
    <<alter("users", [Same EXCEPT !.defaulted = {"is_verified"}]),
      drop("campaign_content_assets", {}),
      drop("campaign_schedules", campaign_schedules.index),
      drop("campaign_content", campaign_content.index),
      drop("campaign_assets", {}), drop("campaigns", campaigns.index),
      drop("brand_kits", brand_kits.index), drop("assets", assets.index)>>

upgrade_7cd2 ==
    <<create("social_accounts", social_accounts),
      create("publish_history", publish_history)>>

\* The accounts go before the history that references them.
downgrade_7cd2Bug ==
    <<drop("social_accounts", social_accounts.index),
      drop("publish_history", publish_history.index)>>

downgrade_7cd2 ==
    <<drop("publish_history", publish_history.index),
      drop("social_accounts", social_accounts.index)>>

upgrade_e0e7 ==
    <<create("ai_usage", ai_usage),
      create("analytics_snapshots", analytics_snapshots),
      create("campaign_analytics", campaign_analytics)>>
downgrade_e0e7 ==
    <<drop("campaign_analytics", campaign_analytics.index),
      drop("analytics_snapshots", analytics_snapshots.index),
      drop("ai_usage", ai_usage.index)>>

upgrade_a7be ==
    <<create("notification_preferences", notification_preferences),
      create("notification_templates", notification_templates),
      create("notification_deliveries", notification_deliveries)>>
downgrade_a7be ==
    <<drop("notification_deliveries", notification_deliveries.index),
      drop("notification_templates", notification_templates.index),
      drop("notification_preferences", notification_preferences.index)>>

upgrade_83b5 == <<create("job_executions", job_executions)>>
downgrade_83b5 == <<drop("job_executions", job_executions.index)>>

upgrade_8c6a ==
    <<alter("audit_logs", [Same EXCEPT
        !.drop = {"created_at", "resource", "user_id"},
        !.drop_index = Each({"action", "id", "request_id", "resource", "user_id"}),
        !.drop_refs = {"workspace_id", "user_id"},
        !.required = {"resource_type"}, !.defaulted = {"timestamp"},
        !.optional = {"actor_id", "user_agent", "correlation_id"},
        !.loosen = {"workspace_id"}, !.tighten = {"resource_id"},
        !.index = Each({"actor_id", "correlation_id", "resource_type", "timestamp"})
                  \cup {{"workspace_id", "resource_type"}}])>>
downgrade_8c6a ==
    <<alter("audit_logs", [Same EXCEPT
        !.drop = {"timestamp", "correlation_id", "user_agent",
                  "resource_type", "actor_id"},
        !.drop_index = Each({"actor_id", "correlation_id", "resource_type", "timestamp"})
                       \cup {{"workspace_id", "resource_type"}},
        !.required = {"resource", "created_at"}, !.optional = {"user_id"},
        !.loosen = {"resource_id"}, !.tighten = {"workspace_id"},
        !.index = Each({"action", "id", "request_id", "resource", "user_id"}),
        !.refs = To("users", {"user_id"}) \cup To("workspaces", {"workspace_id"})])>>

upgrade_8a83 ==
    <<create("feature_flags", feature_flags),
      create("runtime_configurations", runtime_configurations),
      create("system_announcements", system_announcements),
      create("workspace_features", workspace_features)>>
downgrade_8a83 ==
    <<drop("workspace_features", workspace_features.index),
      drop("system_announcements", {}),
      drop("runtime_configurations", runtime_configurations.index),
      drop("feature_flags", feature_flags.index)>>

upgrade_f89b == <<create("integration_connections", integration_connections)>>
downgrade_f89b == <<drop("integration_connections", integration_connections.index)>>

\* TABLES of feb635deb4a4.
SoftDeletedBug ==
    <<"users", "workspaces", "workspace_members", "campaigns", "assets",
      "brand_kits", "campaign_content", "social_accounts">>

SoftDeleted ==
    <<"users", "workspaces", "workspace_members", "campaigns", "assets",
      "brand_kits", "campaign_content", "social_accounts", "publish_history">>
upgrade_feb6 ==
    [i \in DOMAIN SoftDeleted |->
        alter(SoftDeleted[i], [Same EXCEPT !.defaulted = {"is_deleted"}])]
downgrade_feb6 ==
    [i \in DOMAIN SoftDeleted |->
        alter(SoftDeleted[Len(SoftDeleted) + 1 - i],
              [Same EXCEPT !.drop = {"is_deleted"}])]

\* The revisions in the order their down_revision gives; 9dbb1d5fef6c is empty.
Revisions ==
    <<[up |-> upgrade_2b, down |-> downgrade_2b],
      [up |-> upgrade_2c, down |-> downgrade_2c],
      [up |-> upgrade_2d, down |-> downgrade_2d],
      [up |-> upgrade_2e, down |-> downgrade_2e],
      [up |-> upgrade_2f, down |-> downgrade_2f],
      [up |-> upgrade_6d96, down |-> downgrade_6d96],
      [up |-> upgrade_7cd2, down |-> downgrade_7cd2],
      [up |-> upgrade_e0e7, down |-> downgrade_e0e7],
      [up |-> upgrade_a7be, down |-> downgrade_a7be],
      [up |-> upgrade_83b5, down |-> downgrade_83b5],
      [up |-> upgrade_8c6a, down |-> downgrade_8c6a],
      [up |-> upgrade_8a83, down |-> downgrade_8a83],
      [up |-> upgrade_f89b, down |-> downgrade_f89b],
      [up |-> <<>>, down |-> <<>>],
      [up |-> upgrade_feb6, down |-> downgrade_feb6]>>

HeadRevision == Len(Revisions)
Auth == 4       \* 2e_supabase_auth
Campaigns == 6  \* 6d964d031095
Audit == 11     \* 8c6ab8f9e25e

-----------------------------------------------------------------------------
\* What one step does to a database [tables, types, rows, ok]; a database on
\* which a step has failed is not ok and the steps after it are not run.
Columns(def) == def.required \cup def.optional

Without(columns, keys) == {k \in keys : k \cap columns = {}}

Altered(def, c) ==
    [required |-> (def.required \ (c.drop \cup c.loosen))
                  \cup c.required \cup c.defaulted \cup c.tighten,
     optional |-> (def.optional \ (c.drop \cup c.tighten))
                  \cup c.optional \cup c.loosen,
     refs |-> {r \in def.refs : r[1] \notin c.drop \cup c.drop_refs} \cup c.refs,
     index |-> Without(c.drop, def.index \ c.drop_index) \cup c.index,
     unique |-> Without(c.drop, def.unique \ c.drop_index) \cup c.unique,
     types |-> def.types]

\* The tables that others reference, and a table that is missing, are noticed.
References(db, t) == {s \in DOMAIN db.tables : \E r \in db.tables[s].refs : r[2] = t}

\* An enum type that is there already is taken as it is.
CanCreateBug(db, s) ==
    /\ s.table \notin DOMAIN db.tables
    /\ \A r \in s.def.refs : r[2] \in DOMAIN db.tables \cup {s.table}

\* create_table creates the enum types without asking whether they exist.
CanCreate(db, s) ==
    /\ s.table \notin DOMAIN db.tables
    /\ s.def.types \cap db.types = {}
    /\ \A r \in s.def.refs : r[2] \in DOMAIN db.tables \cup {s.table}

CanDrop(db, s) ==
    /\ s.table \in DOMAIN db.tables
    /\ s.index \subseteq db.tables[s.table].index
    /\ References(db, s.table) \subseteq {s.table}

\* A column that may no longer be null is refused for any rows: the two there
\* are come together with a column no row has.
CanAlter(db, s) ==
    /\ s.table \in DOMAIN db.tables
    /\ LET def == db.tables[s.table]
           c == s.change
       IN  /\ c.drop \subseteq Columns(def)
           /\ c.drop_index \subseteq def.index
           /\ c.drop_refs \subseteq {r[1] : r \in def.refs}
           /\ (c.required \cup c.defaulted \cup c.optional)
                 \cap (Columns(def) \ c.drop) = {}
           /\ c.index \cap Without(c.drop, def.index \ c.drop_index) = {}
           /\ \A r \in c.refs : r[2] \in DOMAIN db.tables
           /\ s.table \in db.rows => c.required = {} /\ c.tighten = {}

Stepped(db, s) ==
    LET t == s.table IN
    CASE s.op = "create" /\ CanCreate(db, s) ->
            [db EXCEPT !.tables = [x \in DOMAIN @ \cup {t} |->
                                      IF x = t THEN s.def ELSE @[x]],
                       !.types = @ \cup s.def.types]
      [] s.op = "drop" /\ CanDrop(db, s) ->
            [db EXCEPT !.tables = [x \in DOMAIN @ \ {t} |-> @[x]],
                       !.rows = @ \ {t}]
      [] s.op = "alter" /\ CanAlter(db, s) ->
            [db EXCEPT !.tables[t] = Altered(@, s.change)]
      [] OTHER -> [db EXCEPT !.ok = FALSE]

Run(db, steps) ==
    LET after[n \in 0 .. Len(steps)] ==
            IF n = 0 THEN db
            ELSE IF after[n - 1].ok THEN Stepped(after[n - 1], steps[n])
            ELSE after[n - 1]
    IN  after[Len(steps)]

\* run_migrations from one revision to a later one, and to an earlier one.
Upgraded(db, from, to) ==
    LET after[n \in from .. to] ==
            IF n = from THEN db ELSE Run(after[n - 1], Revisions[n].up)
    IN  after[to]

Downgraded(db, from, to) ==
    LET after[n \in to .. from] ==
            IF n = from THEN db ELSE Run(after[n + 1], Revisions[n + 1].down)
    IN  after[to]

-----------------------------------------------------------------------------
Empty == [tables |-> <<>>, types |-> {}, rows |-> {}, ok |-> TRUE]
Database == [tables |-> tables, types |-> types, rows |-> rows, ok |-> TRUE]

Init ==
    /\ revision = 0
    /\ tables = Empty.tables
    /\ types = {}
    /\ rows = {}

Committed(db, to) ==
    /\ db.ok
    /\ revision' = to
    /\ tables' = db.tables
    /\ types' = db.types
    /\ rows' = db.rows

upgrade(to) == Committed(Upgraded(Database, revision, to), to)

downgrade(to) == Committed(Downgraded(Database, revision, to), to)

\* Rows come and go while the program of the revision runs; a row needs the
\* rows its NOT NULL foreign keys reference, and goes before them.
Parents(t) == {r[2] : r \in {q \in tables[t].refs : q[1] \in tables[t].required}}

insert(t) ==
    /\ t \in DOMAIN tables \ rows
    /\ Parents(t) \subseteq rows
    /\ rows' = rows \cup {t}
    /\ UNCHANGED <<revision, tables, types>>

delete(t) ==
    /\ t \in rows
    /\ \A s \in rows \ {t} : t \notin Parents(s)
    /\ rows' = rows \ {t}
    /\ UNCHANGED <<revision, tables, types>>

Next ==
    \/ \E to \in 0 .. HeadRevision :
          \/ to > revision /\ upgrade(to)
          \/ to < revision /\ downgrade(to)
    \/ \E t \in Stored : insert(t) \/ delete(t)

Spec == Init /\ [][Next]_vars

-----------------------------------------------------------------------------
Crossed(r, from, to) == from < r /\ r <= to

\* Each revision's schema and types on a database that only ever went up.
Chain == [r \in 0 .. HeadRevision |-> Upgraded(Empty, 0, r)]

\* Whatever way up and down a database went, its tables are those of its
\* revision, but for the index on last_login, which downgrade_2e forgets.
RevisionFixesSchema ==
    LET chain == Chain[revision].tables IN
    /\ DOMAIN tables = DOMAIN chain
    /\ \A t \in DOMAIN tables :
          \/ tables[t] = chain[t]
          \/ /\ t = "users"
             /\ revision < Auth
             /\ tables[t] = [chain[t] EXCEPT !.index = @ \ {{"last_login"}}]

\* An upgrade fails if and only if it creates an enum type an earlier downgrade
\* has left behind, or crosses 2e with users or 8c6ab8f9e25e with audit rows.
WhatBlocksUpgrades ==
    \A to \in revision + 1 .. HeadRevision :
        Upgraded(Database, revision, to).ok <=>
            /\ types \cap (Chain[to].types \ Chain[revision].types) = {}
            /\ ~("users" \in rows /\ Crossed(Auth, revision, to))
            /\ ~("audit_logs" \in rows /\ Crossed(Audit, revision, to))

\* A downgrade fails if and only if it crosses one of the two with such rows:
\* the order of its steps never stands in its way.
WhatBlocksDowngrades ==
    \A to \in 0 .. revision - 1 :
        Downgraded(Database, revision, to).ok <=>
            /\ ~("users" \in rows /\ Crossed(Auth, to, revision))
            /\ ~("audit_logs" \in rows /\ Crossed(Audit, to, revision))

\* At the last revision the tables have the columns, nullability, keys and
\* indexes the classes declare, without the indexes on is_deleted; the type
\* campaign_schedules.status is cast to is the only one that does not exist.
HeadMatchesModels ==
    revision = HeadRevision =>
        /\ DOMAIN tables = DOMAIN Declared
        /\ \A t \in DOMAIN tables :
              LET table == tables[t]
                  class == Declared[t]
              IN  /\ table.required = class.required
                  /\ table.optional = class.optional
                  /\ table.refs = class.refs
                  /\ table.unique = class.unique
                  /\ table.index = class.index \ {{"is_deleted"}}
        /\ (UNION {Declared[t].types : t \in DOMAIN Declared}) \ types
              = {"schedulestatus"}

\* An upgrade keeps every row, and with it every column but is_verified; a
\* downgrade loses no rows but those of the tables it drops.
DataSurvives ==
    [][/\ revision' > revision =>
             /\ rows' = rows
             /\ \A t \in rows :
                   Columns(tables[t]) \ Columns(tables'[t]) \subseteq
                       IF t = "users" /\ Crossed(Campaigns, revision, revision')
                       THEN {"is_verified"} ELSE {}
       /\ revision' < revision => rows' = rows \cap DOMAIN tables']_vars

=============================================================================
