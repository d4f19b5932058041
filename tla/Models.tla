------------------------------- MODULE Models -------------------------------
(***************************************************************************)
(* The tables the program is written for: what the mapped classes declare. *)
(* A class has the columns, keys and indexes of its bases and its own; a   *)
(* column is NOT NULL unless it is declared nullable or its type is        *)
(* optional.  types are the enum types its columns are cast to in every    *)
(* statement the program sends.                                            *)
(***************************************************************************)
EXTENDS SchemaTables

Base ==
    [required |-> {"id"}, optional |-> {}, refs |-> {}, index |-> Each({"id"}),
     unique |-> {}, types |-> {}]

TimestampMixin ==
    [required |-> {"created_at", "updated_at"}, optional |-> {}, refs |-> {},
     index |-> {}, unique |-> {}, types |-> {}]

SoftDeleteMixin ==
    [required |-> {"is_deleted"}, optional |-> {"deleted_at"}, refs |-> {},
     index |-> Each({"is_deleted", "deleted_at"}), unique |-> {}, types |-> {}]

TenantMixin ==
    [required |-> {"workspace_id"}, optional |-> {},
     refs |-> {<<"workspace_id", "workspaces">>},
     index |-> Each({"workspace_id"}), unique |-> {}, types |-> {}]

AuditMixin ==
    [required |-> {}, optional |-> {"created_by", "updated_by"},
     refs |-> AuthorRefs, index |-> {}, unique |-> {}, types |-> {}]

Mapped(own, bases) ==
    LET classes == {own} \cup bases
    IN  [required |-> UNION {c.required : c \in classes},
         optional |-> UNION {c.optional : c \in classes},
         refs |-> UNION {c.refs : c \in classes},
         index |-> UNION {c.index : c \in classes},
         unique |-> UNION {c.unique : c \in classes},
         types |-> UNION {c.types : c \in classes}]

-----------------------------------------------------------------------------
Plan ==
    Mapped([required |-> {"name", "slug", "monthly_price", "yearly_price",
                "max_users", "max_workspaces", "max_ai_credits", "is_active"},
            optional |-> {"description", "features"}, refs |-> {},
            index |-> Each({"slug"}), unique |-> Each({"name", "slug"}),
            types |-> {}],
           {Base, TimestampMixin})

User ==
    Mapped([required |-> {"email", "supabase_user_id", "language",
                "onboarding_completed", "is_active"},
            optional |-> {"first_name", "last_name", "avatar_url", "phone",
                "job_title", "default_workspace_id"},
            refs |-> To("workspaces", {"default_workspace_id"}),
            index |-> Each({"email", "supabase_user_id"}),
            unique |-> Each({"email", "supabase_user_id"}), types |-> {}],
           {Base, TimestampMixin, SoftDeleteMixin})

UserPreference ==
    Mapped([required |-> {"user_id", "theme", "timezone", "date_format"},
            optional |-> {"notification_preferences", "ai_preferences"},
            refs |-> To("users", {"user_id"}), index |-> Each({"user_id"}),
            unique |-> Each({"user_id"}), types |-> {}],
           {Base, TimestampMixin})

Workspace ==
    Mapped([required |-> {"name", "slug", "timezone", "default_language",
                "status", "owner_id"},
            optional |-> {"logo_url", "industry", "country", "plan_id"},
            refs |-> To("plans", {"plan_id"}) \cup To("users", {"owner_id"}),
            index |-> Each({"slug", "country", "status"}),
            unique |-> Each({"slug"}), types |-> {"workspacestatus"}],
           {Base, TimestampMixin, SoftDeleteMixin, AuditMixin})

Permission ==
    Mapped([required |-> {"name", "resource", "action", "is_system"},
            optional |-> {"description"}, refs |-> {},
            index |-> Each({"name", "resource", "action"}),
            unique |-> Each({"name"}) \cup {{"resource", "action"}},
            types |-> {}],
           {Base, TimestampMixin})

Role ==
    Mapped([required |-> {"name", "role_type", "is_system"},
            optional |-> {"workspace_id", "description"},
            refs |-> To("workspaces", {"workspace_id"}),
            index |-> Each({"workspace_id", "name", "role_type"}),
            unique |-> {}, types |-> {"roletype"}],
           {Base, TimestampMixin})

RolePermission ==
    Mapped([required |-> {"role_id", "permission_id", "created_at"},
            optional |-> {},
            refs |-> To("roles", {"role_id"})
                \cup To("permissions", {"permission_id"}),
            index |-> Each({"role_id", "permission_id"}),
            unique |-> {{"role_id", "permission_id"}}, types |-> {}],
           {Base})

WorkspaceMember ==
    Mapped([required |-> {"user_id", "role_id", "status"},
            optional |-> {"invited_by", "accepted_at", "joined_at",
                "last_active"},
            refs |-> To("users", {"user_id", "invited_by"})
                \cup To("roles", {"role_id"}),
            index |-> Each({"user_id", "role_id", "status"}),
            unique |-> {{"workspace_id", "user_id"}},
            types |-> {"memberstatus"}],
           {Base, TimestampMixin, SoftDeleteMixin, TenantMixin, AuditMixin})

WorkspaceInvite ==
    Mapped([required |-> {"email", "role_id", "token", "status", "expires_at"},
            optional |-> {"inviter_id", "accepted_at", "revoked_at"},
            refs |-> To("roles", {"role_id"}) \cup To("users", {"inviter_id"}),
            index |-> Each({"email", "token", "status", "expires_at"})
                \cup {{"workspace_id", "email"}},
            unique |-> Each({"token"}) \cup {{"workspace_id", "email"}},
            types |-> {"invitestatus"}],
           {Base, TimestampMixin, TenantMixin})

ApiKey ==
    Mapped([required |-> {"provider", "key_name", "encrypted_secret",
                "is_active"}, optional |-> {"last_used_at", "expires_at"},
            refs |-> {}, index |-> Each({"provider", "is_active"}),
            unique |-> {}, types |-> {"apiprovider"}],
           {Base, TimestampMixin, TenantMixin})

AuditLog ==
    [required |-> {"id", "resource_type", "resource_id", "action",
         "timestamp"},
     optional |-> {"workspace_id", "actor_id", "old_values", "new_values",
         "ip_address", "user_agent", "request_id", "correlation_id",
         "metadata_info"}, refs |-> {},
     index |-> Each({"workspace_id", "actor_id", "resource_type",
         "resource_id", "correlation_id", "timestamp"}) \cup {{"workspace_id",
         "resource_type"}}, unique |-> {}, types |-> {}]

Notification ==
    Mapped([required |-> {"user_id", "title", "body", "type", "priority",
                "created_at"}, optional |-> {"data", "read_at"},
            refs |-> To("users", {"user_id"}),
            index |-> Each({"user_id", "type", "priority"}), unique |-> {},
            types |-> {"notificationpriority", "notificationtype"}],
           {Base, TenantMixin})

Asset ==
    Mapped([required |-> {"file_name", "original_file_name", "asset_type",
                "mime_type", "file_size", "storage_provider", "storage_key",
                "checksum", "version", "status"},
            optional |-> {"uploaded_by", "display_name", "description",
                "public_url", "thumbnail_url", "width", "height", "duration",
                "folder", "tags", "metadata"},
            refs |-> To("users", {"uploaded_by"}),
            index |-> Each({"workspace_id", "asset_type", "status",
                "checksum", "created_at"}), unique |-> Each({"storage_key"}),
            types |-> {}],
           {Base, TimestampMixin, TenantMixin, AuditMixin, SoftDeleteMixin})

BrandKit ==
    Mapped([required |-> {"brand_name"},
            optional |-> {"logo_url", "primary_color", "secondary_color",
                "accent_color", "font_family", "brand_voice", "tone_of_voice",
                "brand_description", "website_url", "industry",
                "target_audience", "default_language",
                "ai_writing_instructions", "ai_content_restrictions"},
            refs |-> {}, index |-> {}, unique |-> Each({"workspace_id"}),
            types |-> {}],
           {Base, TimestampMixin, TenantMixin, AuditMixin, SoftDeleteMixin})

Campaign ==
    Mapped([required |-> {"owner_id", "campaign_name", "status"},
            optional |-> {"brand_kit_id", "description", "objective",
                "campaign_type", "target_channels", "budget", "currency",
                "start_date", "end_date"},
            refs |-> To("users", {"owner_id"})
                \cup To("brand_kits", {"brand_kit_id"}),
            index |-> Each({"workspace_id", "status"}) \cup {{"workspace_id",
                "campaign_name"}},
            unique |-> {{"workspace_id", "campaign_name"}}, types |-> {}],
           {Base, TimestampMixin, TenantMixin, AuditMixin, SoftDeleteMixin})

campaign_asset_association ==
    [required |-> {"campaign_id", "asset_id"}, optional |-> {},
     refs |-> To("campaigns", {"campaign_id"}) \cup To("assets", {"asset_id"}),
     index |-> {}, unique |-> {}, types |-> {}]

CampaignContent ==
    Mapped([required |-> {"campaign_id", "title", "content_type", "status",
                "version", "is_current"},
            optional |-> {"language", "body", "summary", "hashtags", "cta",
                "seo_title", "seo_description", "parent_version_id",
                "scheduled_placeholder", "metadata"},
            refs |-> To("campaigns", {"campaign_id"})
                \cup To("campaign_content", {"parent_version_id"}),
            index |-> Each({"campaign_id", "status", "language",
                "content_type", "version"}), unique |-> {}, types |-> {}],
           {Base, TimestampMixin, TenantMixin, AuditMixin, SoftDeleteMixin})

CampaignSchedule ==
    Mapped([required |-> {"campaign_id", "publish_date", "timezone", "status",
                "retry_count"}, optional |-> {"error_message"},
            refs |-> To("campaigns", {"campaign_id"}), index |-> {},
            unique |-> Each({"campaign_id"}), types |-> {"schedulestatus"}],
           {Base, TimestampMixin, TenantMixin, AuditMixin})

content_asset_association ==
    [required |-> {"content_id", "asset_id"}, optional |-> {},
     refs |-> To("campaign_content", {"content_id"})
         \cup To("assets", {"asset_id"}), index |-> {}, unique |-> {},
     types |-> {}]

SocialAccount ==
    Mapped([required |-> {"provider", "account_id", "name", "access_token",
                "is_active"}, optional |-> {"refresh_token", "expires_at"},
            refs |-> {},
            index |-> Each({"workspace_id", "provider", "account_id"}),
            unique |-> {}, types |-> {}],
           {Base, TimestampMixin, TenantMixin, AuditMixin, SoftDeleteMixin})

PublishHistory ==
    Mapped([required |-> {"content_id", "social_account_id", "status"},
            optional |-> {"campaign_id", "external_post_id", "error_message",
                "published_at"},
            refs |-> To("campaigns", {"campaign_id"})
                \cup To("campaign_content", {"content_id"})
                \cup To("social_accounts", {"social_account_id"}),
            index |-> Each({"workspace_id", "content_id", "status"}),
            unique |-> {}, types |-> {}],
           {Base, TimestampMixin, TenantMixin, AuditMixin, SoftDeleteMixin})

AIUsage ==
    Mapped([required |-> {"provider", "model", "generations", "success_count",
                "failure_count", "total_tokens"}, optional |-> {}, refs |-> {},
            index |-> Each({"workspace_id", "provider"}), unique |-> {},
            types |-> {}],
           {Base, TimestampMixin, TenantMixin})

AnalyticsSnapshot ==
    Mapped([required |-> {"snapshot_type", "snapshot_date"},
            optional |-> {"campaign_metrics", "ai_metrics",
                "publishing_metrics", "workspace_metrics"}, refs |-> {},
            index |-> Each({"workspace_id"}) \cup {{"workspace_id",
                "snapshot_type", "snapshot_date"}},
            unique |-> {{"workspace_id", "snapshot_type", "snapshot_date"}},
            types |-> {}],
           {Base, TimestampMixin, TenantMixin})

CampaignAnalytics ==
    Mapped([required |-> {"campaign_id", "impressions", "reach", "clicks",
                "likes", "comments", "shares", "saves", "engagement_rate"},
            optional |-> {}, refs |-> To("campaigns", {"campaign_id"}),
            index |-> Each({"workspace_id"}), unique |-> Each({"campaign_id"}),
            types |-> {}],
           {Base, TimestampMixin, TenantMixin})

NotificationPreference ==
    Mapped([required |-> {"user_id", "notification_type", "in_app_enabled",
                "email_enabled", "push_enabled"}, optional |-> {},
            refs |-> To("users", {"user_id"}),
            index |-> Each({"user_id"}) \cup {{"user_id",
                "notification_type"}},
            unique |-> {{"user_id", "notification_type"}}, types |-> {}],
           {Base, TimestampMixin, TenantMixin})

NotificationTemplate ==
    Mapped([required |-> {"name", "notification_type", "subject_template",
                "body_template"}, optional |-> {}, refs |-> {},
            index |-> Each({"workspace_id"}) \cup {{"workspace_id",
                "notification_type"}},
            unique |-> {{"workspace_id", "notification_type"}}, types |-> {}],
           {Base, TimestampMixin, TenantMixin})

NotificationDelivery ==
    Mapped([required |-> {"notification_id", "channel", "status"},
            optional |-> {"error_message", "delivered_at"},
            refs |-> To("notifications", {"notification_id"}),
            index |-> Each({"notification_id", "status"}), unique |-> {},
            types |-> {}],
           {Base, TimestampMixin, TenantMixin})

JobExecution ==
    Mapped([required |-> {"job_name", "queue", "status", "priority",
                "attempts", "max_attempts", "payload"},
            optional |-> {"result", "error_message", "started_at",
                "completed_at", "failed_at"}, refs |-> {},
            index |-> Each({"job_name", "queue", "status", "priority"})
                \cup {{"status", "queue"}}, unique |-> {},
            types |-> {"jobpriority", "jobstatus"}],
           {Base, TimestampMixin})

FeatureFlag ==
    Mapped([required |-> {"id", "key", "name", "is_enabled"},
            optional |-> {"description"}, refs |-> {}, index |-> Each({"key"}),
            unique |-> Each({"key"}), types |-> {}],
           {TimestampMixin})

RuntimeConfiguration ==
    Mapped([required |-> {"id", "key", "value", "data_type", "is_active"},
            optional |-> {"description"}, refs |-> {}, index |-> Each({"key"}),
            unique |-> Each({"key"}), types |-> {"datatype"}],
           {TimestampMixin})

SystemAnnouncement ==
    Mapped([required |-> {"id", "title", "message", "type", "priority",
                "dismissible", "is_active"},
            optional |-> {"starts_at", "expires_at"}, refs |-> {},
            index |-> {}, unique |-> {}, types |-> {}],
           {TimestampMixin})

WorkspaceFeature ==
    Mapped([required |-> {"id", "workspace_id", "flag_key", "is_enabled"},
            optional |-> {}, refs |-> To("workspaces", {"workspace_id"}),
            index |-> Each({"workspace_id", "flag_key"}), unique |-> {},
            types |-> {}],
           {TimestampMixin})

IntegrationConnection ==
    Mapped([required |-> {"workspace_id", "provider", "status"},
            optional |-> {"access_token", "refresh_token", "expires_at",
                "metadata_info"}, refs |-> {},
            index |-> Each({"workspace_id", "provider"}), unique |-> {},
            types |-> {"connectionstatus"}],
           {Base, TimestampMixin})

-----------------------------------------------------------------------------
\* The tables the classes name.
Declared ==
    [plans |-> Plan,
     users |-> User,
     user_preferences |-> UserPreference,
     workspaces |-> Workspace,
     permissions |-> Permission,
     roles |-> Role,
     role_permissions |-> RolePermission,
     workspace_members |-> WorkspaceMember,
     workspace_invites |-> WorkspaceInvite,
     api_keys |-> ApiKey,
     audit_logs |-> AuditLog,
     notifications |-> Notification,
     assets |-> Asset,
     brand_kits |-> BrandKit,
     campaigns |-> Campaign,
     campaign_assets |-> campaign_asset_association,
     campaign_content |-> CampaignContent,
     campaign_schedules |-> CampaignSchedule,
     campaign_content_assets |-> content_asset_association,
     social_accounts |-> SocialAccount,
     publish_history |-> PublishHistory,
     ai_usage |-> AIUsage,
     analytics_snapshots |-> AnalyticsSnapshot,
     campaign_analytics |-> CampaignAnalytics,
     notification_preferences |-> NotificationPreference,
     notification_templates |-> NotificationTemplate,
     notification_deliveries |-> NotificationDelivery,
     job_executions |-> JobExecution,
     feature_flags |-> FeatureFlag,
     runtime_configurations |-> RuntimeConfiguration,
     system_announcements |-> SystemAnnouncement,
     workspace_features |-> WorkspaceFeature,
     integration_connections |-> IntegrationConnection]

=============================================================================
