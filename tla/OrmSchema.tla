------------------------------- MODULE OrmSchema -------------------------------
(* The tables as the queries of the API see them: what the object-relational
   mapper was told, file by file, of keys, unique columns and the states a row may
   be in.  Nothing generates these declarations from the migrations, nor the other
   way round: they must say what the database says.  They know no users: a profile
   stands for its user. *)
EXTENDS SchemaKeys, TLC

Declare(refers, unique, states) == [refers |-> refers, unique |-> unique, states |-> states]

AppTables ==
  [profiles         |-> Declare({}, {}, {"active", "invited", "suspended", "deleted"}),
   roles            |-> Declare({}, {{"key"}}, {}),
   permissions      |-> Declare({}, {{"key"}}, {}),
   user_roles       |-> Declare({Owned("user_roles", "user_id", "profiles"),
                                 Owned("user_roles", "role_id", "roles")},
                                {{"user_id", "role_id"}}, {}),
   role_permissions |-> Declare({Owned("role_permissions", "role_id", "roles"),
                                 Owned("role_permissions", "permission_id", "permissions")},
                                {{"role_id", "permission_id"}}, {}),
   settings         |-> Declare({}, {{"key"}}, {})]

MediaTables ==
  [asset_folders |-> Declare({Nested("asset_folders", "parent_id", "asset_folders")}, {}, {}),
   assets        |-> Declare({Optional("assets", "folder_id", "asset_folders")},
                             {{"bucket", "object_key"}}, {}),
   asset_usages  |-> Declare({Owned("asset_usages", "asset_id", "assets")},
                             {{"asset_id", "entity_type", "entity_id", "usage_type"}}, {})]

ContentTables ==
  [content_items |->
     Declare({Needed("content_items", "author_id", "profiles"),
              Optional("content_items", "cover_asset_id", "assets"),
              Optional("content_items", "og_asset_id", "assets")},
             {{"type", "slug"}}, {"draft", "review", "scheduled", "published", "archived"}),
   content_revisions |->
     Declare({Owned("content_revisions", "content_id", "content_items")},
             {{"content_id", "revision_number"}}, {}),
   categories |-> Declare({}, {{"slug"}}, {}),
   tags       |-> Declare({}, {{"slug"}}, {})]

TaxonomyTables ==
  [content_categories |->
     Declare({Owned("content_categories", "content_id", "content_items"),
              Owned("content_categories", "category_id", "categories")},
             {{"content_id", "category_id"}}, {}),
   content_tags |->
     Declare({Owned("content_tags", "content_id", "content_items"),
              Owned("content_tags", "tag_id", "tags")},
             {{"content_id", "tag_id"}}, {}),
   redirects        |-> Declare({}, {{"source_path"}}, {}),
   navigation_items |-> Declare({Nested("navigation_items", "parent_id", "navigation_items")}, {}, {})]

ClientTables ==
  [clients |-> Declare({Needed("clients", "created_by", "profiles")}, {{"slug"}},
                       {"lead", "active", "paused", "completed", "archived"}),
   contacts |-> Declare({Owned("contacts", "client_id", "clients")}, {{"client_id"}}, {}),
   leads |-> Declare({Optional("leads", "assigned_to", "profiles")}, {},
                     {"new", "contacted", "qualified", "won", "lost", "spam"})]

ProjectTables ==
  [projects |->
     Declare({Needed("projects", "client_id", "clients"), Needed("projects", "created_by", "profiles")},
             {{"client_id", "slug"}},
             {"planned", "active", "paused", "launched", "completed", "cancelled"}),
   project_milestones |->
     Declare({Owned("project_milestones", "project_id", "projects")}, {},
             {"pending", "active", "done", "blocked"}),
   project_tasks |->
     Declare({Owned("project_tasks", "project_id", "projects"),
              Optional("project_tasks", "milestone_id", "project_milestones"),
              Optional("project_tasks", "assigned_to", "profiles")}, {},
             {"todo", "doing", "review", "done", "blocked"})]

CommerceTables ==
  [vendors |-> Declare({Optional("vendors", "logo_asset_id", "assets")}, {{"slug"}},
                       {"draft", "active", "archived"}),
   tools   |-> Declare({Optional("tools", "vendor_id", "vendors")}, {{"slug"}},
                       {"draft", "active", "archived"}),
   offers  |-> Declare({Optional("offers", "tool_id", "tools")}, {{"slug"}},
                       {"draft", "active", "expired", "archived"}),
   affiliate_links |->
     Declare({Nested("affiliate_links", "tool_id", "tools"),
              Nested("affiliate_links", "offer_id", "offers")}, {}, {"active", "paused", "archived"}),
   pricing_snapshots |-> Declare({Owned("pricing_snapshots", "tool_id", "tools")}, {}, {})]

ThreadTables ==
  [email_mailboxes |-> Declare({}, {{"channel"}, {"address"}}, {"active", "paused", "retired"}),
   email_templates |-> Declare({}, {{"key"}}, {"draft", "active", "archived"}),
   email_threads   |->
     Declare({Needed("email_threads", "mailbox_id", "email_mailboxes"),
              Optional("email_threads", "client_id", "clients"),
              Optional("email_threads", "lead_id", "leads"),
              Optional("email_threads", "assigned_to", "profiles")}, {},
             {"open", "waiting", "closed", "archived"})]

MessageTables ==
  [email_messages |->
     Declare({Owned("email_messages", "thread_id", "email_threads"),
              Optional("email_messages", "created_by", "profiles")},
             {{"job_id"}, {"idempotency_key"}, {"provider", "provider_message_id"},
              {"provider", "rfc_message_id"}},
             {"queued", "processing", "provider_accepted", "delivered", "bounced", "failed",
              "received"}),
   email_attachments |->
     Declare({Owned("email_attachments", "message_id", "email_messages")},
             {{"bucket", "object_key"}}, {})]

SyncTables ==
  [outbox_events   |-> Declare({}, {{"dedupe_key"}},
                               {"pending", "processing", "processed", "failed", "dead_lettered"}),
   projection_runs |-> Declare({}, {}, {"started", "completed", "failed"})]

AuditTables == [audit_logs |-> Declare({}, {}, {})]

AnalyticsTables ==
  [events_daily |-> Declare({}, {{"date", "event_name", "entity_type", "entity_id"}}, {})]

SystemTables ==
  [feature_flags |-> Declare({}, {{"key"}}, {}),
   integrations  |-> Declare({}, {}, {"active", "paused", "broken", "archived"})]

Declared ==
  AppTables @@ MediaTables @@ ContentTables @@ TaxonomyTables @@ ClientTables @@ ProjectTables
    @@ CommerceTables @@ ThreadTables @@ MessageTables @@ SyncTables
    @@ AuditTables @@ AnalyticsTables @@ SystemTables

-----------------------------------------------------------------------------
(* What the database has: its unique columns, unconditional or for some rows, and
   the states its checks admit. *)

BySlug == {"categories", "tags", "clients", "vendors", "tools", "offers"}
ByKey  == {"roles", "permissions", "settings", "email_templates", "feature_flags"}

Unique ==
  [t \in BySlug |-> {{"slug"}}] @@ [t \in ByKey |-> {{"key"}}] @@
  [t \in {"assets", "email_attachments"} |-> {{"bucket", "object_key"}}] @@
  [user_roles         |-> {{"user_id", "role_id"}},
   role_permissions   |-> {{"role_id", "permission_id"}},
   asset_usages       |-> {{"asset_id", "entity_type", "entity_id", "usage_type"}},
   content_items      |-> {{"type", "slug"}},
   content_revisions  |-> {{"content_id", "revision_number"}},
   content_categories |-> {{"content_id", "category_id"}},
   content_tags       |-> {{"content_id", "tag_id"}},
   redirects          |-> {{"source_path"}},
   contacts           |-> {{"client_id"}},
   projects           |-> {{"client_id", "slug"}},
   email_mailboxes    |-> {{"channel"}, {"address"}},
   email_messages     |-> {{"provider", "provider_message_id"}, {"job_id"}, {"idempotency_key"},
                           {"provider", "rfc_message_id"}},
   outbox_events      |-> {{"dedupe_key"}},
   events_daily       |-> {{"date", "event_name", "entity_type", "entity_id"}},
   integrations       |-> {{"provider", "name"}}]

Published == {"draft", "active", "archived"}

States ==
  [t \in {"vendors", "tools", "email_templates"} |-> Published] @@
  [profiles           |-> {"active", "invited", "suspended", "deleted"},
   content_items      |-> {"draft", "review", "scheduled", "published", "archived"},
   clients            |-> {"lead", "active", "paused", "completed", "archived"},
   leads              |-> {"new", "contacted", "qualified", "won", "lost", "spam"},
   projects           |-> {"planned", "active", "paused", "launched", "completed", "cancelled"},
   project_milestones |-> {"pending", "active", "done", "blocked"},
   project_tasks      |-> {"todo", "doing", "review", "done", "blocked"},
   offers             |-> Published \cup {"expired"},
   affiliate_links    |-> {"active", "paused", "archived"},
   email_mailboxes    |-> {"active", "paused", "retired"},
   email_threads      |-> {"open", "waiting", "closed", "archived"},
   email_messages     |-> {"queued", "processing", "provider_accepted", "delivered", "bounced",
                           "failed", "received"},
   outbox_events      |-> {"pending", "processing", "processed", "failed", "dead_lettered"},
   projection_runs    |-> {"started", "completed", "failed"},
   integrations       |-> {"active", "paused", "broken", "archived"}]

\* A declared key is a key of the database, with the same action and the same
\* "not null"; a profile has the key of its user.
InDatabase(k) == (IF k.to = "profiles" THEN [k EXCEPT !.to = "users"] ELSE k) \in ForeignKeys

\* Queries are typed by these declarations: a state they admit is one the database
\* takes, a lookup they think unique is unique, and a key they follow is enforced.
ASSUME OrmAgrees ==
  /\ Tables \subseteq DOMAIN Declared \cup {"users"}
  /\ \A t \in DOMAIN Declared :
       /\ \A k \in Declared[t].refers : k.from = t /\ InDatabase(k)
       /\ Declared[t].unique # {} => Declared[t].unique = Unique[t]
       /\ IF t \in DOMAIN States THEN Declared[t].states = States[t] ELSE Declared[t].states = {}
=============================================================================
