---------------------------- MODULE PolicyTables ----------------------------
(* The policies of row-level security, table by table: those that created the
   canonical tables ("Original") and those that replaced them to be cheaper to
   evaluate ("Optimized"); and the permissions that the seed grants to roles.

   What a policy says of a row's columns is one flag: the row is "shown"
   (published, active, within its dates, or the caller's own) or "hidden".
   content_items is in module Content. *)

Writes   == {"insert", "update", "delete"}
Commands == {"select"} \cup Writes

(* What one table says.
     public: a shown row is readable without any permission; everyone: any row is
     self:   the commands a signed-in caller may use on a row of their own
     read:   permissions that let a caller read hidden rows too
     write:  the permission each writing command asks for
     granted, anon: the commands SQL grants to each role at all *)
Pair(read, write) ==
  [public |-> FALSE, everyone |-> FALSE, self |-> {}, read |-> {read},
   write |-> [c \in Writes |-> {write}], granted |-> Commands, anon |-> {}]

\* A policy FOR ALL lets whoever may write read as well.
Managed(read, write) == [Pair(read, write) EXCEPT !.read = {read, write}]

ReadOnly(read) ==
  [Pair(read, read) EXCEPT !.write = [c \in Writes |-> {}], !.granted = {"select"}]

UserPolicies ==
  [t \in {"profiles", "roles", "permissions", "user_roles", "role_permissions", "settings"} |->
     CASE t = "profiles" ->
            [Managed("users.read", "users.manage")
               EXCEPT !.self = {"select", "update"}, !.granted = {"select", "update"}]
       [] t = "user_roles" ->
            [Managed("users.read", "users.manage") EXCEPT !.self = {"select"}]
       [] t = "settings" -> Managed("system.manage", "system.manage")
       [] OTHER -> Managed("users.read", "system.manage")]

\* Drafts' links, inactive redirects and inactive navigation are hidden rows.
ContentPolicies ==
  [t \in {"categories", "tags", "content_categories", "content_tags", "redirects", "navigation_items"} |->
     [Managed("content.write", "content.write")
        EXCEPT !.public = TRUE, !.everyone = t \in {"categories", "tags"}, !.anon = {"select"}]]

CommercePolicies ==
  [t \in {"vendors", "tools", "offers", "affiliate_links", "pricing_snapshots"} |->
     [Managed("commerce.read", "commerce.write") EXCEPT !.public = TRUE, !.anon = {"select"}]]

\* Anyone may leave a lead: it is new and unassigned, for anon may not set those columns.
DomainPolicies ==
  [t \in {"clients", "contacts", "leads", "projects", "project_milestones", "project_tasks",
          "email_threads", "email_messages"} |->
     IF t \in {"email_threads", "email_messages"} THEN Managed("email.read", "email.send")
     ELSE [Managed("crm.read", "crm.write") EXCEPT !.anon = IF t = "leads" THEN {"insert"} ELSE {}]]

MediaPolicies ==
  [t \in {"asset_folders", "assets", "asset_usages"} |->
     [Pair("media.read", "media.upload")
        EXCEPT !.write["delete"] = {"media.delete"},
               !.write["update"] = IF t = "asset_usages" THEN {} ELSE {"media.upload"}]]

OperationPolicies ==
  [t \in {"email_templates", "outbox_events", "projection_runs", "audit_logs", "events_daily",
          "feature_flags", "integrations"} |->
     CASE t = "email_templates" -> Managed("email.read", "email.manage")
       [] t \in {"outbox_events", "projection_runs"} -> ReadOnly("sync.read")
       [] t = "audit_logs" -> ReadOnly("audit.read")
       [] t = "events_daily" ->
            [Managed("analytics.read", "analytics.write") EXCEPT !.granted = Commands \ {"delete"}]
       [] OTHER -> Managed("system.manage", "system.manage")]

\* The tables of the unified inbox came later, with policies of the new kind.
InboxPolicies ==
  [t \in {"email_mailboxes", "email_attachments"} |->
     IF t = "email_mailboxes"
     THEN [Pair("email.read", "email.manage") EXCEPT !.granted = {"select"}]
     ELSE Pair("email.read", "email.send")]

Join(f, g) == [t \in DOMAIN f \cup DOMAIN g |-> IF t \in DOMAIN f THEN f[t] ELSE g[t]]

Original ==
  Join(UserPolicies, Join(ContentPolicies, Join(CommercePolicies, Join(DomainPolicies,
    Join(MediaPolicies, Join(OperationPolicies, InboxPolicies))))))

PolicyTable == DOMAIN Original

\* Management is split by command, and no longer says anything about reading.
SplitPolicies ==
  (DOMAIN UserPolicies \ {"profiles"}) \cup DOMAIN ContentPolicies
    \cup {"email_templates", "feature_flags", "integrations"}

ReadPermission(t) ==
  CASE t \in DOMAIN ContentPolicies -> {}
    [] t \in {"settings", "feature_flags", "integrations"} -> {"system.manage"}
    [] t = "email_templates" -> {"email.read"}
    [] OTHER -> {"users.read"}

Split(t) == [Original[t] EXCEPT !.read = ReadPermission(t)]

\* One update policy for oneself and for administrators; insert and delete have none.
Profiles ==
  [Original["profiles"]
     EXCEPT !.read = {"users.read"}, !.write["insert"] = {}, !.write["delete"] = {}]

\* Mutant of Combined: the reader's policy forgets what makes a row public.
CombinedUnconditional(t) == [Original[t] EXCEPT !.everyone = TRUE]

\* One policy for a signed-in reader: what is public, or either permission.
Combined(t) == [Original[t] EXCEPT !.read = {"commerce.read", "commerce.write"}]

\* Private tables: writing no longer lets a caller read.
Independent(t) ==
  [Original[t] EXCEPT
     !.read = IF t \in {"email_threads", "email_messages"} THEN {"email.read"} ELSE {"crm.read"}]

EventsDaily ==
  [Original["events_daily"] EXCEPT !.read = {"analytics.read"}, !.write["delete"] = {}]

Optimized ==
  [t \in PolicyTable |->
     CASE t \in SplitPolicies           -> Split(t)
       [] t = "profiles"                -> Profiles
       [] t \in DOMAIN CommercePolicies -> Combined(t)
       [] t \in DOMAIN DomainPolicies   -> Independent(t)
       [] t = "events_daily"            -> EventsDaily
       [] OTHER                         -> Original[t]]
-----------------------------------------------------------------------------
\* What the seed grants to each role.
AllPermissions ==
  UNION {Original[t].read \cup UNION {Original[t].write[c] : c \in Writes} : t \in PolicyTable}

Seed ==
  [role \in {"owner", "administrator", "editor", "viewer", "none"} |->
     CASE role = "owner"         -> AllPermissions
       [] role = "administrator" -> AllPermissions \ {"system.manage"}
       [] role = "editor"        -> {"content.read", "content.write", "content.publish", "content.schedule",
                                     "commerce.read", "media.read", "media.upload", "analytics.read"}
       [] role = "viewer"        -> {"content.read", "crm.read", "commerce.read", "media.read",
                                     "analytics.read"}
       [] role = "none"          -> {}]

\* The permissions that matter to a table.
Asked(t) == Original[t].read \cup UNION {Original[t].write[c] : c \in Writes}
=============================================================================
