------------------------------ MODULE Entities ------------------------------
(***************************************************************************)
(* The tables that the code reads and writes, as its entities declare them *)
(* (src/**/*.entity.ts): which columns a row must be given, which have a   *)
(* default, which may be NULL; what is unique; and what happens to a row   *)
(* when the row it refers to is deleted.  Of the types only enumerations   *)
(* are kept, with the values that the code writes.                         *)
(***************************************************************************)
EXTENDS TLC

Made    == {"id", "created_at"}
Stamped == Made \cup {"updated_at"}

Cascade(column, table) == <<column, table, "cascade">>
SetNull(column, table) == <<column, table, "set null">>

Entity(must, default, null, unique, refs, typed) ==
  [ column |-> [c \in must |-> "must"] @@ [c \in default |-> "default"] @@ [c \in null |-> "null"],
    unique |-> unique,
    refs   |-> refs,
    typed  |-> typed ]

NoEnum == <<>>
-----------------------------------------------------------------------------
(* Users, organizations and projects                                       *)

User == Entity({"username", "password_hash"}, Stamped \cup {"is_admin"}, {"sso_assign"},
  {{"username"}}, {}, NoEnum)

DesktopAuthSession == Entity({"user_id", "state_hash", "code_challenge"}, Stamped,
  {"code_hash", "code_expires_at", "code_used_at", "refresh_hash", "previous_refresh_hash",
   "refresh_expires_at", "revoked_at"}, {}, {}, NoEnum)

UserActivity == Entity({"organization_id", "actor_user_id", "action", "entity_type", "summary"},
  Made \cup {"metadata"}, {"entity_id"}, {},
  {Cascade("organization_id", "organizations"), Cascade("actor_user_id", "users")}, NoEnum)

OrganizationRole == {"owner", "admin", "member"}

Organization == Entity({"name", "slug"}, Stamped \cup {"color"}, {}, {{"slug"}}, {}, NoEnum)

OrganizationMember == Entity({"organization_id", "user_id"}, Made \cup {"role"}, {},
  {{"organization_id", "user_id"}},
  {Cascade("organization_id", "organizations"), Cascade("user_id", "users")},
  [role |-> OrganizationRole])

Project == Entity({"organization_id", "name", "acronym"}, Stamped \cup {"color", "next_task_number"},
  {"description", "default_assignee_id"}, {{"acronym"}},
  {Cascade("organization_id", "organizations"), SetNull("default_assignee_id", "users")}, NoEnum)

ProjectMember == Entity({"project_id", "user_id"}, Made, {}, {{"project_id", "user_id"}},
  {Cascade("project_id", "projects"), Cascade("user_id", "users")}, NoEnum)

OfProject == {Cascade("project_id", "projects"), Cascade("created_by_id", "users")}

ProjectDiagram == Entity({"project_id", "title", "created_by_id"}, Stamped \cup {"scene_json"},
  {"wireframe_id", "thumbnail"}, {},
  OfProject \cup {Cascade("wireframe_id", "project_wireframes")}, NoEnum)

ProjectWireframe == Entity({"project_id", "title", "html", "created_by_id"}, Stamped, {}, {},
  OfProject, NoEnum)

ProjectQaProfile == Entity({"project_id"}, Stamped \cup {"environments", "users"},
  {"notes", "updated_by_id"}, {{"project_id"}},
  {Cascade("project_id", "projects"), SetNull("updated_by_id", "users")}, NoEnum)

ProjectVideo == Entity({"project_id", "title", "created_by_id"}, Stamped \cup {"files"},
  {"edit_state", "duration_ms"}, {}, OfProject, NoEnum)

-----------------------------------------------------------------------------
(* Tasks and the board                                                     *)

TaskStatus       == {"todo", "in_progress", "dev_test", "qa_test", "done"}
TaskCriticity    == {"low", "medium", "high", "critical"}
TaskHistoryField == {"title", "description", "dueDate", "isBug", "bugReason", "assignee"}
BoardCycleStatus == {"active", "closed"}

Task == Entity({"title", "project_id", "task_number"},
  Stamped \cup {"status", "criticity", "category", "metadata", "is_bug", "qa_checklist_state"},
  {"description", "business_description", "plan_code_description", "test_description", "due_date",
   "created_by_id", "assignee_id", "parent_task_id", "archived_in_cycle_id", "bug_reason",
   "bugged_at", "bugged_by_id"},
  {},
  {Cascade("parent_task_id", "tasks"), Cascade("project_id", "projects"),
   SetNull("created_by_id", "users"), SetNull("assignee_id", "users")},
  [status |-> TaskStatus, criticity |-> TaskCriticity])

OfTask == {Cascade("task_id", "tasks")}

TaskComment == Entity({"task_id", "body"}, Stamped, {"created_by_id"}, {},
  OfTask \cup {SetNull("created_by_id", "users")}, NoEnum)

TaskHistoryEntry == Entity({"task_id", "field"}, Made, {"old_value", "new_value", "changed_by_id"}, {},
  OfTask \cup {SetNull("changed_by_id", "users")}, [field |-> TaskHistoryField])

StoredFile == Entity(
  {"task_id", "bucket", "object_key", "original_filename", "mime_type", "size_bytes", "uploaded_by_id"},
  Made, {"checklist_item_id"}, {}, OfTask \cup {Cascade("uploaded_by_id", "users")}, NoEnum)

TaskEvidence == StoredFile

TaskLog == StoredFile

TaskBugFlagDossier == Entity({"task_id", "primary_class", "motivo"}, Made \cup {"secondary"},
  {"evidence", "task_score", "flag_score", "created_by_id"}, {},
  OfTask \cup {SetNull("created_by_id", "users")}, NoEnum)

QaQueueItem == Entity({"user_id", "task_id", "project_id", "organization_id", "position"}, Made, {},
  {{"user_id", "task_id"}, {"user_id", "project_id", "position"}},
  OfTask \cup {Cascade("user_id", "users"), Cascade("project_id", "projects"),
               Cascade("organization_id", "organizations")}, NoEnum)

BoardCycle == Entity({"organization_id", "project_id", "start_date", "end_date"},
  Stamped \cup {"status"}, {"closed_at"}, {},
  {Cascade("organization_id", "organizations"), Cascade("project_id", "projects")},
  [status |-> BoardCycleStatus])

BoardCycleHistoryEntry == Entity(
  {"cycle_id", "organization_id", "project_id", "task_id", "display_id", "task_number", "title",
   "status", "completed_at", "archived_at"},
  Made \cup {"completion_timestamp_source"}, {"parent_task_id"}, {},
  {Cascade("cycle_id", "board_cycles")}, [status |-> TaskStatus])

-----------------------------------------------------------------------------
(* Naming, conversations, settings, notifications                          *)

ProjectNameSession == Entity({"title", "created_by_id"},
  Stamped \cup {"brief", "product_description", "lanes", "candidates", "shortlist_ids",
                "feedback_rounds", "batches"},
  {"project_id", "naming_goal", "participation_mode", "recommended_candidate_id",
   "runner_up_candidate_id", "decision_note"}, {}, OfProject, NoEnum)

NameCandidateFeedback == Entity({"session_id", "round_id", "candidate_id", "user_id"},
  Stamped \cup {"first_impression", "remembered_spelling", "perceived_purpose", "ratings", "concern"},
  {"reaction"}, {{"round_id", "candidate_id", "user_id"}},
  {Cascade("session_id", "project_name_sessions"), Cascade("user_id", "users")}, NoEnum)

ConversationMessageRole == {"user", "assistant", "system"}

Conversation == Entity({"user_id"}, Stamped \cup {"title"}, {"organization_id", "project_id"}, {},
  {Cascade("user_id", "users")}, NoEnum)

OfConversation == {Cascade("conversation_id", "conversations")}

ConversationMessage == Entity({"conversation_id", "role", "content"}, Made \cup {"used_tools"}, {}, {},
  OfConversation, [role |-> ConversationMessageRole])

ConversationTaskContext == Entity(
  {"conversation_id", "task_id", "organization_id", "project_id", "title"}, Made, {}, {},
  OfConversation, NoEnum)

McpToolSetting == Entity({"key", "group", "display_name", "description"},
  {"enabled", "default_enabled", "sort_order", "created_at", "updated_at"}, {}, {}, {}, NoEnum)

ChatbotSetting == Entity({},
  Stamped \cup {"provider", "base_url", "model", "temperature", "enabled", "max_history_messages",
                "max_history_tokens"},
  {"api_key"}, {}, {}, NoEnum)

PushSubscription == Entity({"user_id", "endpoint", "p256dh", "auth"}, Made, {"user_agent"}, {},
  {Cascade("user_id", "users")}, NoEnum)

PushPreference == Entity({"user_id"},
  {"notify_comment", "notify_status_gate", "notify_due_today", "updated_at"}, {"opted_in_at"}, {},
  {Cascade("user_id", "users")}, NoEnum)

-----------------------------------------------------------------------------
(* SEO                                                                     *)

ProjectSeoSite == Entity({"project_id", "hostname", "created_by_id"}, Stamped \cup {"title", "offerings"},
  {"gsc_refresh_token", "gsc_property_uri"}, {{"project_id", "hostname"}}, OfProject, NoEnum)

ProjectSeoAuditRun == Entity({"site_id", "status"}, Made \cup {"sitemap_urls"},
  {"error_code", "error_message", "started_at", "finished_at", "robots_txt", "site_probe"}, {},
  {Cascade("site_id", "project_seo_sites")}, NoEnum)

OfRun == {Cascade("run_id", "project_seo_audit_runs")}

ProjectSeoAuditPage == Entity({"run_id", "url"},
  Made \cup {"title", "meta_description", "og_ok", "jsonld_ok", "robots_allowed", "in_sitemap",
             "broken_link"},
  {"status_code", "redirect_to", "h1_count", "canonical", "word_count", "noindex"}, {}, OfRun, NoEnum)

ProjectSeoLighthouseRun == Entity({"run_id", "url"}, Made \cup {"categories", "key_audits"},
  {"lcp", "cls", "inp", "error_code"}, {}, OfRun, NoEnum)

ProjectSeoGscRow == Entity({"site_id", "dimension", "value", "range_start", "range_end", "fetched_at"},
  {"id", "clicks", "impressions", "ctr", "position"}, {}, {},
  {Cascade("site_id", "project_seo_sites")}, NoEnum)

SeoSetting == Entity({}, Stamped \cup {"max_pages_per_audit"}, {}, {}, {}, NoEnum)

-----------------------------------------------------------------------------
(* Windows PCs and devices: no relations are declared                      *)

Machine == Entity({"owner_user_id", "name", "token_hash"},
  Stamped \cup {"kind", "consent_mode", "remote_enabled", "paused"},
  {"source_id", "last_seen_at", "revoked_at"}, {}, {}, NoEnum)

MachineConnectSession == Entity({"user_id", "state_hash", "code_challenge"}, Made,
  {"code_hash", "code_expires_at", "code_used_at", "machine_name"}, {}, {}, NoEnum)

ControlSession == Entity({"machine_id", "caller_user_id", "last_activity_at"}, {"id", "opened_at"},
  {"closed_at", "close_reason"}, {}, {}, NoEnum)

ControlToolCall == Entity({"machine_id", "user_id", "tool", "success"}, Made,
  {"session_id", "duration_ms", "error", "inputs_redacted"}, {}, {}, NoEnum)

TokenUsage == Entity({"turn_id", "arc_todo_user_id", "source"}, Made,
  {"control_session_id", "machine_id", "estimated_input_tokens", "estimated_output_tokens",
   "reported_input_tokens", "reported_output_tokens", "cost_delta", "cost_currency"}, {}, {}, NoEnum)

-----------------------------------------------------------------------------
entities ==
  [ users |-> User, desktop_auth_sessions |-> DesktopAuthSession, organizations |-> Organization,
    organization_members |-> OrganizationMember, projects |-> Project,
    project_members |-> ProjectMember, tasks |-> Task, task_bug_flag_dossiers |-> TaskBugFlagDossier,
    task_comments |-> TaskComment, task_evidence |-> TaskEvidence,
    task_history_entries |-> TaskHistoryEntry, task_logs |-> TaskLog, qa_queue_items |-> QaQueueItem,
    board_cycles |-> BoardCycle, board_cycle_history_entries |-> BoardCycleHistoryEntry,
    project_diagrams |-> ProjectDiagram, project_qa_profiles |-> ProjectQaProfile,
    project_wireframes |-> ProjectWireframe, project_name_sessions |-> ProjectNameSession,
    name_candidate_feedback |-> NameCandidateFeedback, mcp_tool_settings |-> McpToolSetting,
    chatbot_settings |-> ChatbotSetting, conversations |-> Conversation,
    conversation_messages |-> ConversationMessage,
    conversation_task_contexts |-> ConversationTaskContext, user_activity |-> UserActivity,
    push_subscriptions |-> PushSubscription, push_preferences |-> PushPreference,
    project_seo_sites |-> ProjectSeoSite, project_seo_audit_runs |-> ProjectSeoAuditRun,
    project_seo_audit_pages |-> ProjectSeoAuditPage,
    project_seo_lighthouse_runs |-> ProjectSeoLighthouseRun,
    project_seo_gsc_rows |-> ProjectSeoGscRow, seo_settings |-> SeoSetting, machines |-> Machine,
    machine_connect_sessions |-> MachineConnectSession, control_sessions |-> ControlSession,
    control_tool_calls |-> ControlToolCall, token_usage |-> TokenUsage,
    project_videos |-> ProjectVideo ]
=============================================================================
