---------------------------- MODULE SchemaTables ----------------------------
(***************************************************************************)
(* The tables of the database as the revisions under alembic/versions      *)
(* create them: for each create_table its columns, those NOT NULL and those *)
(* that may be null, the tables its foreign keys reference, the enum types *)
(* it creates on the way, and the create_index calls that follow it.  An   *)
(* index and a unique key are sets of columns; unique lists the columns of *)
(* unique constraints and of unique indexes, partial ones included.        *)
(***************************************************************************)

Each(columns) == {{c} : c \in columns}

Stamps == {"id", "created_at", "updated_at"}
Authors == {"created_by", "updated_by"}

\* Foreign keys: these columns reference the key of that table.
To(table, columns) == {<<c, table>> : c \in columns}
AuthorRefs == To("users", Authors)

-----------------------------------------------------------------------------
\* Revision 2b_user_workspace.
plans ==
    [required |-> {"name", "slug", "monthly_price", "yearly_price",
         "max_users", "max_workspaces", "max_ai_credits", "is_active"}
         \cup Stamps, optional |-> {"description", "features"}, refs |-> {},
     index |-> Each({"id", "slug"}), unique |-> Each({"name", "slug"}),
     types |-> {}]

users ==
    [required |-> {"email", "hashed_password", "language",
         "two_factor_enabled", "onboarding_completed", "is_active",
         "is_verified"} \cup Stamps,
     optional |-> {"first_name", "last_name", "avatar_url", "phone",
         "job_title", "default_workspace_id", "last_login",
         "password_changed_at", "deleted_at"}, refs |-> {},
     index |-> Each({"deleted_at", "email", "id", "last_login"}),
     unique |-> Each({"email"}), types |-> {}]

user_preferences ==
    [required |-> {"user_id", "theme", "timezone", "date_format"} \cup Stamps,
     optional |-> {"notification_preferences", "ai_preferences"},
     refs |-> To("users", {"user_id"}), index |-> Each({"id", "user_id"}),
     unique |-> Each({"user_id"}), types |-> {}]

workspaces ==
    [required |-> {"name", "slug", "timezone", "default_language", "status",
         "owner_id"} \cup Stamps,
     optional |-> {"logo_url", "industry", "country", "plan_id", "deleted_at"}
         \cup Authors,
     refs |-> To("users", {"owner_id"}) \cup To("plans", {"plan_id"})
         \cup AuthorRefs,
     index |-> Each({"country", "deleted_at", "id", "slug", "status"}),
     unique |-> Each({"slug"}), types |-> {"workspacestatus"}]

-----------------------------------------------------------------------------
\* Revision 2c_rbac.
permissions ==
    [required |-> {"name", "resource", "action", "is_system"} \cup Stamps,
     optional |-> {"description"}, refs |-> {},
     index |-> Each({"action", "id", "name", "resource"}),
     unique |-> Each({"name"}) \cup {{"resource", "action"}}, types |-> {}]

roles ==
    [required |-> {"name", "role_type", "is_system"} \cup Stamps,
     optional |-> {"workspace_id", "description"},
     refs |-> To("workspaces", {"workspace_id"}),
     index |-> Each({"id", "name", "role_type", "workspace_id"}),
     unique |-> {}, types |-> {"roletype"}]

role_permissions ==
    [required |-> {"role_id", "permission_id", "created_at", "id"},
     optional |-> {},
     refs |-> To("permissions", {"permission_id"})
         \cup To("roles", {"role_id"}),
     index |-> Each({"id", "permission_id", "role_id"}),
     unique |-> {{"role_id", "permission_id"}}, types |-> {}]

-----------------------------------------------------------------------------
\* Revision 2d_members_invites.
workspace_members ==
    [required |-> {"user_id", "role_id", "status", "workspace_id"} \cup Stamps,
     optional |-> {"invited_by", "accepted_at", "joined_at", "last_active",
         "deleted_at"} \cup Authors,
     refs |-> To("users", {"invited_by", "user_id"})
         \cup To("roles", {"role_id"}) \cup To("workspaces", {"workspace_id"})
         \cup AuthorRefs,
     index |-> Each({"deleted_at", "id", "role_id", "status", "user_id",
         "workspace_id"}), unique |-> {{"workspace_id", "user_id"}},
     types |-> {"memberstatus"}]

workspace_invites ==
    [required |-> {"email", "role_id", "token", "status", "expires_at",
         "workspace_id"} \cup Stamps,
     optional |-> {"inviter_id", "accepted_at", "revoked_at"},
     refs |-> To("users", {"inviter_id"}) \cup To("roles", {"role_id"})
         \cup To("workspaces", {"workspace_id"}),
     index |-> Each({"email", "expires_at", "id", "status", "token",
         "workspace_id"}) \cup {{"workspace_id", "email"}},
     unique |-> Each({"token"}) \cup {{"workspace_id", "email"}},
     types |-> {"invitestatus"}]

-----------------------------------------------------------------------------
\* Revision 2f_audit_notifications_apikeys.
api_keys ==
    [required |-> {"provider", "key_name", "encrypted_secret", "is_active",
         "workspace_id"} \cup Stamps,
     optional |-> {"last_used_at", "expires_at"},
     refs |-> To("workspaces", {"workspace_id"}),
     index |-> Each({"id", "is_active", "provider", "workspace_id"}),
     unique |-> {}, types |-> {"apiprovider"}]

audit_logs ==
    [required |-> {"action", "resource", "created_at", "id", "workspace_id"},
     optional |-> {"user_id", "resource_id", "old_values", "new_values",
         "metadata_info", "request_id", "ip_address"},
     refs |-> To("users", {"user_id"}) \cup To("workspaces", {"workspace_id"}),
     index |-> Each({"action", "id", "request_id", "resource", "resource_id",
         "user_id", "workspace_id"}), unique |-> {}, types |-> {}]

notifications ==
    [required |-> {"user_id", "title", "body", "type", "priority",
         "created_at", "id", "workspace_id"}, optional |-> {"data", "read_at"},
     refs |-> To("users", {"user_id"}) \cup To("workspaces", {"workspace_id"}),
     index |-> Each({"id", "priority", "type", "user_id", "workspace_id"}),
     unique |-> {}, types |-> {"notificationtype", "notificationpriority"}]

-----------------------------------------------------------------------------
\* Revision 6d964d031095.
assets ==
    [required |-> {"file_name", "original_file_name", "asset_type",
         "mime_type", "file_size", "storage_provider", "storage_key",
         "checksum", "version", "status", "workspace_id"} \cup Stamps,
     optional |-> {"uploaded_by", "display_name", "description", "public_url",
         "thumbnail_url", "width", "height", "duration", "folder", "tags",
         "metadata", "deleted_at"} \cup Authors,
     refs |-> To("users", {"uploaded_by"})
         \cup To("workspaces", {"workspace_id"}) \cup AuthorRefs,
     index |-> Each({"asset_type", "checksum", "created_at", "deleted_at",
         "id", "status", "workspace_id"}), unique |-> Each({"storage_key"}),
     types |-> {}]

brand_kits ==
    [required |-> {"brand_name", "workspace_id"} \cup Stamps,
     optional |-> {"logo_url", "primary_color", "secondary_color",
         "accent_color", "font_family", "brand_voice", "tone_of_voice",
         "brand_description", "website_url", "industry", "target_audience",
         "default_language", "ai_writing_instructions",
         "ai_content_restrictions", "deleted_at"} \cup Authors,
     refs |-> To("workspaces", {"workspace_id"}) \cup AuthorRefs,
     index |-> Each({"deleted_at", "id", "workspace_id"}),
     unique |-> Each({"workspace_id"}), types |-> {}]

campaigns ==
    [required |-> {"owner_id", "campaign_name", "status", "workspace_id"}
         \cup Stamps,
     optional |-> {"brand_kit_id", "description", "objective",
         "campaign_type", "target_channels", "budget", "currency",
         "start_date", "end_date", "deleted_at"} \cup Authors,
     refs |-> To("brand_kits", {"brand_kit_id"})
         \cup To("users", {"owner_id"})
         \cup To("workspaces", {"workspace_id"}) \cup AuthorRefs,
     index |-> Each({"deleted_at", "id", "status", "workspace_id"})
         \cup {{"workspace_id", "campaign_name"}},
     unique |-> {{"workspace_id", "campaign_name"}}, types |-> {}]

campaign_assets ==
    [required |-> {"campaign_id", "asset_id"}, optional |-> {},
     refs |-> To("assets", {"asset_id"}) \cup To("campaigns", {"campaign_id"}),
     index |-> {}, unique |-> {}, types |-> {}]

campaign_content ==
    [required |-> {"campaign_id", "title", "content_type", "status",
         "version", "is_current", "workspace_id"} \cup Stamps,
     optional |-> {"language", "body", "summary", "hashtags", "cta",
         "seo_title", "seo_description", "parent_version_id",
         "scheduled_placeholder", "metadata", "deleted_at"} \cup Authors,
     refs |-> To("campaigns", {"campaign_id"})
         \cup To("campaign_content", {"parent_version_id"})
         \cup To("workspaces", {"workspace_id"}) \cup AuthorRefs,
     index |-> Each({"campaign_id", "content_type", "deleted_at", "id",
         "language", "status", "version", "workspace_id"}), unique |-> {},
     types |-> {}]

campaign_schedules ==
    [required |-> {"campaign_id", "publish_date", "timezone", "status",
         "retry_count", "workspace_id"} \cup Stamps,
     optional |-> {"error_message"} \cup Authors,
     refs |-> To("campaigns", {"campaign_id"})
         \cup To("workspaces", {"workspace_id"}) \cup AuthorRefs,
     index |-> Each({"id", "workspace_id"}), unique |-> Each({"campaign_id"}),
     types |-> {}]

campaign_content_assets ==
    [required |-> {"content_id", "asset_id"}, optional |-> {},
     refs |-> To("assets", {"asset_id"})
         \cup To("campaign_content", {"content_id"}), index |-> {},
     unique |-> {}, types |-> {}]

-----------------------------------------------------------------------------
\* Revision 7cd2bc4e2c0d.
social_accounts ==
    [required |-> {"provider", "account_id", "name", "access_token",
         "is_active", "workspace_id"} \cup Stamps,
     optional |-> {"refresh_token", "expires_at", "deleted_at"} \cup Authors,
     refs |-> To("workspaces", {"workspace_id"}) \cup AuthorRefs,
     index |-> Each({"account_id", "deleted_at", "id", "provider",
         "workspace_id"}), unique |-> {}, types |-> {}]

publish_history ==
    [required |-> {"content_id", "social_account_id", "status",
         "workspace_id"} \cup Stamps,
     optional |-> {"campaign_id", "external_post_id", "error_message",
         "published_at", "deleted_at"} \cup Authors,
     refs |-> To("campaigns", {"campaign_id"})
         \cup To("campaign_content", {"content_id"})
         \cup To("social_accounts", {"social_account_id"})
         \cup To("workspaces", {"workspace_id"}) \cup AuthorRefs,
     index |-> Each({"content_id", "deleted_at", "id", "status",
         "workspace_id"}), unique |-> {}, types |-> {}]

-----------------------------------------------------------------------------
\* Revision e0e714307b3a.
ai_usage ==
    [required |-> {"provider", "model", "generations", "success_count",
         "failure_count", "total_tokens", "workspace_id"} \cup Stamps,
     optional |-> {}, refs |-> To("workspaces", {"workspace_id"}),
     index |-> Each({"id", "provider", "workspace_id"}), unique |-> {},
     types |-> {}]

analytics_snapshots ==
    [required |-> {"snapshot_type", "snapshot_date", "workspace_id"}
         \cup Stamps,
     optional |-> {"campaign_metrics", "ai_metrics", "publishing_metrics",
         "workspace_metrics"}, refs |-> To("workspaces", {"workspace_id"}),
     index |-> Each({"id", "workspace_id"}) \cup {{"workspace_id",
         "snapshot_type", "snapshot_date"}},
     unique |-> {{"workspace_id", "snapshot_type", "snapshot_date"}},
     types |-> {}]

campaign_analytics ==
    [required |-> {"campaign_id", "impressions", "reach", "clicks", "likes",
         "comments", "shares", "saves", "engagement_rate", "workspace_id"}
         \cup Stamps, optional |-> {},
     refs |-> To("campaigns", {"campaign_id"})
         \cup To("workspaces", {"workspace_id"}),
     index |-> Each({"id", "workspace_id"}), unique |-> Each({"campaign_id"}),
     types |-> {}]

-----------------------------------------------------------------------------
\* Revision a7be752e9027.
notification_preferences ==
    [required |-> {"user_id", "notification_type", "in_app_enabled",
         "email_enabled", "push_enabled", "workspace_id"} \cup Stamps,
     optional |-> {},
     refs |-> To("users", {"user_id"}) \cup To("workspaces", {"workspace_id"}),
     index |-> Each({"id", "user_id", "workspace_id"}) \cup {{"user_id",
         "notification_type"}}, unique |-> {{"user_id", "notification_type"}},
     types |-> {}]

notification_templates ==
    [required |-> {"name", "notification_type", "subject_template",
         "body_template", "workspace_id"} \cup Stamps, optional |-> {},
     refs |-> To("workspaces", {"workspace_id"}),
     index |-> Each({"id", "workspace_id"}) \cup {{"workspace_id",
         "notification_type"}},
     unique |-> {{"workspace_id", "notification_type"}}, types |-> {}]

notification_deliveries ==
    [required |-> {"notification_id", "channel", "status", "workspace_id"}
         \cup Stamps, optional |-> {"error_message", "delivered_at"},
     refs |-> To("notifications", {"notification_id"})
         \cup To("workspaces", {"workspace_id"}),
     index |-> Each({"id", "notification_id", "status", "workspace_id"}),
     unique |-> {}, types |-> {}]

-----------------------------------------------------------------------------
\* Revision 83b54929f8a9.
job_executions ==
    [required |-> {"job_name", "queue", "status", "priority", "attempts",
         "max_attempts", "payload"} \cup Stamps,
     optional |-> {"result", "error_message", "started_at", "completed_at",
         "failed_at"}, refs |-> {},
     index |-> Each({"id", "job_name", "priority", "queue", "status"})
         \cup {{"status", "queue"}}, unique |-> {},
     types |-> {"jobstatus", "jobpriority"}]

-----------------------------------------------------------------------------
\* Revision 8a832dfa39d0.
feature_flags ==
    [required |-> {"key", "name", "is_enabled"} \cup Stamps,
     optional |-> {"description"}, refs |-> {}, index |-> Each({"key"}),
     unique |-> Each({"key"}), types |-> {}]

runtime_configurations ==
    [required |-> {"key", "value", "data_type", "is_active"} \cup Stamps,
     optional |-> {"description"}, refs |-> {}, index |-> Each({"key"}),
     unique |-> Each({"key"}), types |-> {"datatype"}]

system_announcements ==
    [required |-> {"title", "message", "type", "priority", "dismissible",
         "is_active"} \cup Stamps, optional |-> {"starts_at", "expires_at"},
     refs |-> {}, index |-> {}, unique |-> {}, types |-> {}]

workspace_features ==
    [required |-> {"workspace_id", "flag_key", "is_enabled"} \cup Stamps,
     optional |-> {}, refs |-> To("workspaces", {"workspace_id"}),
     index |-> Each({"flag_key", "workspace_id"}), unique |-> {}, types |-> {}]

-----------------------------------------------------------------------------
\* Revision f89bcb79da50.
integration_connections ==
    [required |-> {"workspace_id", "provider", "status"} \cup Stamps,
     optional |-> {"access_token", "refresh_token", "expires_at",
         "metadata_info"}, refs |-> {},
     index |-> Each({"id", "provider", "workspace_id"}), unique |-> {},
     types |-> {"connectionstatus"}]

=============================================================================
