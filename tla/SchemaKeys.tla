------------------------------ MODULE SchemaKeys ------------------------------
(* The foreign keys of the canonical schema, and what its triggers say of tables.
   Tables that no key touches are left out. *)

(* Foreign keys: table, column, what it refers to, its action, and "not null". *)

ForeignKey(from, column, to, onDelete, required) ==
  [from |-> from, column |-> column, to |-> to, onDelete |-> onDelete, required |-> required]

Owned(from, column, to)    == ForeignKey(from, column, to, "cascade", TRUE)
Nested(from, column, to)   == ForeignKey(from, column, to, "cascade", FALSE)

\* Mutant of Optional: what it refers to is held.
OptionalHolds(from, column, to) == ForeignKey(from, column, to, "restrict", FALSE)

Optional(from, column, to) == ForeignKey(from, column, to, "set null", FALSE)

\* Mutant of Needed: whatever it refers to may go.
NeededCleared(from, column, to) == ForeignKey(from, column, to, "set null", TRUE)

Needed(from, column, to) == ForeignKey(from, column, to, "restrict", TRUE)

AppKeys ==
  {Owned("profiles", "id", "users"), Optional("profiles", "avatar_asset_id", "assets"),
   Owned("user_roles", "user_id", "users"), Owned("user_roles", "role_id", "roles"),
   Optional("user_roles", "assigned_by", "users"),
   Owned("role_permissions", "role_id", "roles"),
   Owned("role_permissions", "permission_id", "permissions"),
   Optional("settings", "updated_by", "users")}

MediaKeys ==
  {Nested("asset_folders", "parent_id", "asset_folders"),
   Optional("assets", "folder_id", "asset_folders"), Needed("assets", "uploaded_by", "users"),
   Owned("asset_usages", "asset_id", "assets")}

ContentKeys ==
  {Optional("content_items", "cover_asset_id", "assets"),
   Optional("content_items", "og_asset_id", "assets"),
   Optional("content_items", "published_by", "users"),
   Owned("content_revisions", "content_id", "content_items"),
   Owned("content_categories", "content_id", "content_items"),
   Owned("content_categories", "category_id", "categories"),
   Owned("content_tags", "content_id", "content_items"), Owned("content_tags", "tag_id", "tags"),
   Nested("navigation_items", "parent_id", "navigation_items")}
  \cup {Needed("content_items", c, "users") : c \in {"author_id", "created_by", "updated_by"}}
  \cup {Needed("content_revisions", "created_by", "users")}

CrmKeys ==
  {Needed("clients", "created_by", "users"), Owned("contacts", "client_id", "clients"),
   Optional("leads", "assigned_to", "users"),
   Needed("projects", "client_id", "clients"), Needed("projects", "created_by", "users"),
   Owned("project_milestones", "project_id", "projects"),
   Owned("project_tasks", "project_id", "projects"),
   Optional("project_tasks", "milestone_id", "project_milestones"),
   Optional("project_tasks", "assigned_to", "users")}

CommerceKeys ==
  {Optional("vendors", "logo_asset_id", "assets"), Optional("tools", "vendor_id", "vendors"),
   Optional("offers", "tool_id", "tools"),
   Nested("affiliate_links", "tool_id", "tools"), Nested("affiliate_links", "offer_id", "offers"),
   Owned("pricing_snapshots", "tool_id", "tools")}

CommsKeys ==
  {Optional("email_threads", "client_id", "clients"), Optional("email_threads", "lead_id", "leads"),
   Owned("email_messages", "thread_id", "email_threads")}

InboxKeys ==
  {Needed("email_threads", "mailbox_id", "email_mailboxes"),
   Optional("email_threads", "assigned_to", "users"), Optional("email_messages", "created_by", "users"),
   Owned("email_attachments", "message_id", "email_messages")}

OperationKeys ==
  {Optional("audit_logs", "actor_id", "users"), Optional("feature_flags", "updated_by", "users")}

ForeignKeys ==
  AppKeys \cup MediaKeys \cup ContentKeys \cup CrmKeys \cup CommerceKeys \cup CommsKeys
    \cup InboxKeys \cup OperationKeys

Tables == {k.from : k \in ForeignKeys} \cup {k.to : k \in ForeignKeys}

KeysOf == [table \in Tables |-> {k \in ForeignKeys : k.from = table}]

\* Tables whose inserts, updates and deletes write an event in the same transaction.
Projected ==
  {"content_items", "categories", "tags", "navigation_items", "vendors", "tools", "offers"}

AppendOnly == {"content_revisions", "audit_logs"}
=============================================================================
