----------------------------- MODULE PublicSchema -----------------------------
(* The tables of the read model in D1, and what the projectors write to them.
   A column is here if a projector must fill it, if it is unique, or if it refers
   to a row; the tables that no projector writes are left out. *)

Table(key, needed, unique, refers, onDelete) ==
  [key |-> key, needed |-> needed, unique |-> unique, refers |-> refers, onDelete |-> onDelete]

Alone(key, needed, unique) == Table(key, needed, unique, "none", "none")

PublicContent ==
  Alone("id", {"type", "slug", "title", "body_html", "author_name", "published_at", "updated_at"}, TRUE)

PublicTools ==
  Alone("id", {"slug", "name", "category", "setup_difficulty", "updated_at"}, TRUE)

PublicOffers ==
  Table("id", {"slug", "title", "offer_type", "updated_at"}, TRUE, "public_tools", "set null")

PublicNavigation ==
  Table("id", {"location", "label", "href"}, FALSE, "public_navigation", "cascade")

PublicHomepageSections == Alone("id", {"section_key", "section_type", "data_json", "updated_at"}, TRUE)
PublicSitemapUrls      == Alone("url", {}, FALSE)
PublicRedirects        == Alone("source_path", {"target_path", "status_code"}, FALSE)
PublicSeoMetadata      == Alone("path", {"updated_at"}, FALSE)

Tables ==
  [public_content |-> PublicContent, public_tools |-> PublicTools, public_offers |-> PublicOffers,
   public_navigation |-> PublicNavigation, public_homepage_sections |-> PublicHomepageSections,
   public_sitemap_urls |-> PublicSitemapUrls, public_redirects |-> PublicRedirects,
   public_seo_metadata |-> PublicSeoMetadata]

\* The key column of each projector, and the fields without which it refuses an
\* event for good.
Definitions ==
  LET ById(required) == [key |-> "id", required |-> required] IN
  [public_content |->
     ById({"type", "slug", "title", "body_html", "author_name", "published_at", "updated_at"}),
   public_tools |->
     ById({"slug", "name", "category", "is_recommended", "setup_difficulty", "metadata_json",
           "updated_at"}),
   public_offers |-> ById({"slug", "title", "offer_type", "updated_at"}),
   public_navigation |-> ById({"location", "label", "href", "sort_order"}),
   public_homepage_sections |->
     ById({"section_key", "section_type", "data_json", "sort_order", "updated_at"}),
   public_sitemap_urls |-> [key |-> "url", required |-> {"url"}],
   public_redirects |->
     [key |-> "source_path", required |-> {"source_path", "target_path", "status_code"}],
   public_seo_metadata |-> [key |-> "path", required |-> {"path", "updated_at"}]]

\* A projector that lets an event pass has a value for every column that needs
\* one: otherwise the batch would fail, and be retried, for ever.
ASSUME ProjectorsFillTheTables ==
  /\ DOMAIN Definitions = DOMAIN Tables
  /\ \A t \in DOMAIN Tables :
       /\ Definitions[t].key = Tables[t].key
       /\ Tables[t].needed \subseteq Definitions[t].required
=============================================================================
