----------------------------- MODULE Migrations -----------------------------
(***************************************************************************)
(* What each migration does to the schema (src/migrations), and what its   *)
(* statements need: a statement that alters, fills or refers to something  *)
(* fails when that is not there, and so does one that drops what is still  *)
(* referred to.  Kept are columns (must a row be given one, has it a       *)
(* default, may it be NULL), foreign keys, uniqueness and enumerations;    *)
(* check constraints and indexes that are not unique are left out.         *)
(***************************************************************************)
EXTENDS Sequences, TLC

-----------------------------------------------------------------------------
(* Statements                                                              *)

Table(must, default, null, unique, refs, typed) ==
  [ column |-> [c \in must |-> "must"] @@ [c \in default |-> "default"] @@ [c \in null |-> "null"],
    unique |-> unique,
    refs   |-> refs,
    typed  |-> typed ]

\* IF NOT EXISTS and IF EXISTS, and the blocks that ignore a duplicate.
Create(table, is)            == [do |-> "create", table |-> table, is |-> is, lenient |-> TRUE]
Drop(table)                  == [do |-> "drop", table |-> table, lenient |-> TRUE]
Add(table, kind, columns)    == [do |-> "add", table |-> table, kind |-> kind, columns |-> columns, lenient |-> TRUE]
Remove(table, columns)       == [do |-> "remove", table |-> table, columns |-> columns, lenient |-> TRUE]
CreateType(type, values)     == [do |-> "create type", type |-> type, values |-> values]
DropType(type)               == [do |-> "drop type", type |-> type]
Extend(type, values)         == [do |-> "extend", type |-> type, values |-> values]
Refer(table, ref)            == [do |-> "refer", table |-> table, ref |-> ref]
Unrefer(table, column)       == [do |-> "unrefer", table |-> table, column |-> column]
Unique(table, columns, when) == [do |-> "unique", table |-> table, columns |-> columns, when |-> when]
Repeat(table, columns)       == [do |-> "repeat", table |-> table, columns |-> columns]

\* The same without them.
CreateNew(table, is)         == [Create(table, is) EXCEPT !.lenient = FALSE]
DropNow(table)               == [Drop(table) EXCEPT !.lenient = FALSE]
AddNew(table, kind, columns) == [Add(table, kind, columns) EXCEPT !.lenient = FALSE]
RemoveNow(table, columns)    == [Remove(table, columns) EXCEPT !.lenient = FALSE]
AddTyped(table, column, type) ==
  [do |-> "add typed", table |-> table, column |-> column, type |-> type]

\* SET NOT NULL, where no row has a NULL and where one may have; DROP NOT NULL.
Require(table, column)        == [do |-> "require", table |-> table, column |-> column, filled |-> TRUE]
RequireHoping(table, column)  == [Require(table, column) EXCEPT !.filled = FALSE]
Allow(table, column)          == [do |-> "allow", table |-> table, column |-> column]

\* Rows are read or written.
Touch(table, columns) == [do |-> "touch", table |-> table, columns |-> columns]

Made    == {"id", "created_at"}
Stamped == Made \cup {"updated_at"}
None    == <<>>

Always(columns)        == <<columns, "always">>
Cascade(column, table) == <<column, table, "cascade">>
SetNull(column, table) == <<column, table, "set null">>
OfProject              == {Cascade("project_id", "projects"), Cascade("created_by_id", "users")}
OfTask                 == {Cascade("task_id", "tasks")}

Migration(up, down) == [up |-> up, down |-> down]
-----------------------------------------------------------------------------
CreateMcpToolSettings == Migration(
  << CreateNew("mcp_tool_settings", Table({"key", "group", "display_name", "description"},
       {"enabled", "default_enabled", "sort_order", "created_at", "updated_at"}, {}, {}, {}, None)) >>,
  << DropNow("mcp_tool_settings") >>)

OrgProjectTaskSystemUp ==
  << Create("users", Table({"username", "password_hash"}, Stamped, {}, {Always({"username"})}, {}, None)),
     CreateType("organization_role_enum", {"owner", "admin", "member"}),
     CreateType("task_status_enum", {"todo", "in_progress", "done"}),
     CreateType("task_priority_enum", {"low", "medium", "high"}),
     Create("organizations", Table({"name", "slug"}, Stamped, {}, {Always({"slug"})}, {}, None)),
     Create("organization_members", Table({"organization_id", "user_id"}, Made \cup {"role"}, {},
       {Always({"organization_id", "user_id"})},
       {Cascade("organization_id", "organizations"), Cascade("user_id", "users")},
       [role |-> "organization_role_enum"])),
     Create("projects", Table({"organization_id", "name"}, Stamped, {"description"}, {},
       {Cascade("organization_id", "organizations")}, None)),
     Create("tasks", Table({"title", "project_id"}, Stamped \cup {"status", "priority"},
       {"description", "due_date", "created_by_id"}, {},
       {Cascade("project_id", "projects"), SetNull("created_by_id", "users")},
       [status |-> "task_status_enum", priority |-> "task_priority_enum"])),
     Drop("todos") >>

OrgProjectTaskSystemDown ==
  << CreateType("todos_status_enum", {"todo", "in_progress", "done"}),
     CreateType("todos_priority_enum", {"low", "medium", "high"}),
     Create("todos", Table({"title", "user_id"}, Stamped \cup {"status", "priority"},
       {"description", "due_date"}, {}, {Cascade("user_id", "users")},
       [status |-> "todos_status_enum", priority |-> "todos_priority_enum"])),
     Touch("tasks", {"title", "description", "status", "priority", "due_date", "created_by_id"}),
     Drop("tasks"), Drop("projects"), Drop("organization_members"), Drop("organizations"),
     DropType("task_priority_enum"), DropType("task_status_enum"), DropType("organization_role_enum") >>

CriticityAndProjectColor == Migration(
  << Add("projects", "default", {"color"}),
     CreateType("task_criticity_enum", {"low", "medium", "high", "critical"}),
     AddTyped("tasks", "criticity", "task_criticity_enum"),
     Touch("tasks", {"criticity", "priority"}),
     RemoveNow("tasks", {"priority"}), DropType("task_priority_enum") >>,
  << CreateType("task_priority_enum", {"low", "medium", "high"}),
     AddTyped("tasks", "priority", "task_priority_enum"),
     Touch("tasks", {"criticity", "priority"}),
     RemoveNow("tasks", {"criticity"}), DropType("task_criticity_enum"),
     Remove("projects", {"color"}) >>)

KnowledgeScope ==
  CreateType("knowledge_scope_enum", {"general", "organization", "project", "person"})

KnowledgeEntries(more, refs) ==
  Table({"scope", "title", "content", "created_by_id"}, Stamped,
    {"organization_id", "project_id", "person_id"} \cup more, {},
    {Cascade("created_by_id", "users"), Cascade("organization_id", "organizations"),
     Cascade("project_id", "projects"), Cascade("person_id", "persons")} \cup refs,
    [scope |-> "knowledge_scope_enum"])

PersonsAndKnowledge == Migration(
  << Create("persons", Table({"organization_id", "name"}, Stamped, {"email", "title", "notes"}, {},
       {Cascade("organization_id", "organizations")}, None)),
     KnowledgeScope,
     Create("knowledge_entries", KnowledgeEntries({}, {})) >>,
  << Drop("knowledge_entries"), DropType("knowledge_scope_enum"), Drop("persons") >>)

\* A person gets the first member of its organization, which may have none.
GeneralPersons == Migration(
  << Add("persons", "null", {"created_by_id"}),
     Touch("organization_members", {"user_id", "organization_id", "created_at"}),
     RequireHoping("persons", "created_by_id"),
     Refer("persons", Cascade("created_by_id", "users")),
     Allow("persons", "organization_id") >>,
  << Require("persons", "organization_id"),
     Unrefer("persons", "created_by_id"), Remove("persons", {"created_by_id"}) >>)

Attachments ==
  Table({"knowledge_entry_id", "bucket", "object_key", "original_filename", "mime_type", "size_bytes",
         "uploaded_by_id"}, Made \cup {"tags"}, {"description"}, {},
    {Cascade("knowledge_entry_id", "knowledge_entries"), Cascade("uploaded_by_id", "users")}, None)

KnowledgeAttachments == Migration(
  << Create("knowledge_attachments", Attachments) >>, << Drop("knowledge_attachments") >>)

CreateChatbotSettings == Migration(
  << CreateNew("chatbot_settings", Table({},
       Stamped \cup {"provider", "base_url", "model", "temperature", "enabled"}, {"api_key"}, {}, {}, None)) >>,
  << DropNow("chatbot_settings") >>)

CreateConversations == Migration(
  << CreateType("conversation_message_role_enum", {"user", "assistant", "system"}),
     Create("conversations", Table({"user_id"}, Stamped \cup {"title"}, {"organization_id", "project_id"}, {},
       {Cascade("user_id", "users"), SetNull("organization_id", "organizations"),
        SetNull("project_id", "projects")}, None)),
     Create("conversation_messages", Table({"conversation_id", "role", "content"},
       Made \cup {"used_tools"}, {}, {}, {Cascade("conversation_id", "conversations")},
       [role |-> "conversation_message_role_enum"])),
     Create("conversation_task_contexts", Table(
       {"conversation_id", "task_id", "organization_id", "project_id", "title"}, Made, {},
       {Always({"conversation_id", "task_id"})}, {Cascade("conversation_id", "conversations")}, None)) >>,
  << Drop("conversation_task_contexts"), Drop("conversation_messages"), Drop("conversations"),
     DropType("conversation_message_role_enum") >>)

TaskCommentsAndHistory == Migration(
  << CreateType("task_history_field_enum", {"title", "description", "dueDate"}),
     Create("task_comments", Table({"task_id", "body"}, Stamped, {"created_by_id"}, {},
       OfTask \cup {SetNull("created_by_id", "users")}, None)),
     Create("task_history_entries", Table({"task_id", "field"}, Made,
       {"old_value", "new_value", "changed_by_id"}, {},
       OfTask \cup {SetNull("changed_by_id", "users")}, [field |-> "task_history_field_enum"])) >>,
  << Drop("task_history_entries"), Drop("task_comments"), DropType("task_history_field_enum") >>)

TaskParentSubtasks == Migration(
  << Add("tasks", "null", {"parent_task_id"}), Refer("tasks", Cascade("parent_task_id", "tasks")) >>,
  << Unrefer("tasks", "parent_task_id"), Remove("tasks", {"parent_task_id"}) >>)

ProjectAcronymAndTaskNumber == Migration(
  << Add("projects", "null", {"acronym"}), Add("projects", "default", {"next_task_number"}),
     Add("tasks", "null", {"task_number"}),
     Touch("projects", {"name", "created_at", "acronym", "next_task_number"}),
     Touch("tasks", {"project_id", "created_at", "task_number"}),
     Require("projects", "acronym"), Unique("projects", {"acronym"}, "always"),
     Require("tasks", "task_number"), Unique("tasks", {"project_id", "task_number"}, "always") >>,
  << Repeat("tasks", {"project_id", "task_number"}), Remove("tasks", {"task_number"}),
     Repeat("projects", {"acronym"}), Remove("projects", {"next_task_number", "acronym"}) >>)

RagSettings ==
  Table({},
    Stamped \cup {"enabled", "chunk_size_tokens", "chunk_overlap_tokens", "top_k_default",
      "max_context_tokens", "max_file_bytes_for_indexing", "enabled_mime_types", "worker_enabled",
      "worker_concurrency", "job_batch_size", "min_seconds_between_jobs", "max_chunks_per_job",
      "retry_backoff_seconds", "embedding_provider", "embedding_model", "embedding_dimensions",
      "deepseek_enabled", "deepseek_base_url", "deepseek_model", "deepseek_temperature",
      "deepseek_max_helper_tokens", "deepseek_use_query_rewrite", "deepseek_use_rerank",
      "deepseek_use_compression"},
    {"deepseek_api_key"}, {}, {}, None)

CreateRagSettings == Migration(
  << CreateNew("rag_settings", RagSettings) >>, << DropNow("rag_settings") >>)

AddDocumentMimeTypes == Migration(
  << Touch("rag_settings", {"enabled_mime_types"}) >>, << Touch("rag_settings", {"enabled_mime_types"}) >>)

AddChatbotHistoryLimits == Migration(
  << Add("chatbot_settings", "default", {"max_history_messages", "max_history_tokens"}) >>,
  << Remove("chatbot_settings", {"max_history_tokens", "max_history_messages"}) >>)
-----------------------------------------------------------------------------
CreateBoardCyclesUp ==
  << CreateType("board_cycle_status_enum", {"active", "closed"}),
     Create("board_cycles", Table({"organization_id", "project_id", "start_date", "end_date"},
       Stamped \cup {"status"}, {"closed_at"}, {}, {}, [status |-> "board_cycle_status_enum"])),
     Refer("board_cycles", Cascade("organization_id", "organizations")),
     Refer("board_cycles", Cascade("project_id", "projects")),
     Unique("board_cycles", {"project_id"}, "status = active"),
     Create("board_cycle_history_entries", Table(
       {"cycle_id", "organization_id", "project_id", "task_id", "display_id", "task_number", "title",
        "status", "completed_at", "archived_at"},
       Made \cup {"completion_timestamp_source"}, {"parent_task_id"}, {}, {},
       [status |-> "task_status_enum"])),
     Refer("board_cycle_history_entries", Cascade("cycle_id", "board_cycles")),
     Unique("board_cycle_history_entries", {"cycle_id", "task_id"}, "always"),
     Add("tasks", "null", {"archived_in_cycle_id"}),
     Refer("tasks", SetNull("archived_in_cycle_id", "board_cycles")) >>

CreateBoardCyclesDown ==
  << Unrefer("tasks", "archived_in_cycle_id"), Remove("tasks", {"archived_in_cycle_id"}),
     Repeat("board_cycle_history_entries", {"cycle_id", "task_id"}),
     Unrefer("board_cycle_history_entries", "cycle_id"), Drop("board_cycle_history_entries"),
     Repeat("board_cycles", {"project_id"}),
     Unrefer("board_cycles", "project_id"), Unrefer("board_cycles", "organization_id"),
     Drop("board_cycles"), DropType("board_cycle_status_enum") >>

OrganizationColor == Migration(
  << Add("organizations", "default", {"color"}) >>, << Remove("organizations", {"color"}) >>)

TaskCategoryAndMetadata == Migration(
  << Add("tasks", "default", {"category", "metadata"}) >>, << Remove("tasks", {"metadata", "category"}) >>)

\* Values of an enumeration cannot be taken back.
TaskStatusesAndDescriptions == Migration(
  << Extend("task_status_enum", {"dev_test", "qa_test"}),
     Add("tasks", "null", {"business_description", "plan_code_description", "test_description"}),
     Touch("tasks", {"business_description", "description"}) >>,
  << Remove("tasks", {"test_description", "plan_code_description", "business_description"}) >>)

FileOf(more) ==
  Table({"task_id", "bucket", "object_key", "original_filename", "mime_type", "size_bytes",
         "uploaded_by_id"}, Made, more, {}, OfTask \cup {Cascade("uploaded_by_id", "users")}, None)

TaskQaBugAndChecklist == Migration(
  << Add("tasks", "default", {"is_bug", "qa_checklist_state"}),
     Add("tasks", "null", {"bug_reason", "bugged_at", "bugged_by_id"}),
     Create("task_evidence", FileOf({})) >>,
  << Drop("task_evidence"),
     Remove("tasks", {"qa_checklist_state", "bugged_by_id", "bugged_at", "bug_reason", "is_bug"}) >>)

UserActivityLog == Migration(
  << Create("user_activity", Table({"organization_id", "actor_user_id", "action", "entity_type", "summary"},
       Made \cup {"metadata"}, {"entity_id"}, {},
       {Cascade("organization_id", "organizations"), Cascade("actor_user_id", "users")}, None)) >>,
  << Drop("user_activity") >>)

SystemAdminAndProjectMembers == Migration(
  << Add("users", "default", {"is_admin"}), Touch("users", {"is_admin", "username"}),
     Create("project_members", Table({"project_id", "user_id"}, Made, {},
       {Always({"project_id", "user_id"})},
       {Cascade("project_id", "projects"), Cascade("user_id", "users")}, None)),
     Touch("organization_members", {"user_id", "organization_id"}),
     Touch("projects", {"organization_id"}), Touch("project_members", {"project_id", "user_id"}) >>,
  << Drop("project_members"), Remove("users", {"is_admin"}) >>)

AccessGrants ==
  Table({"user_id"}, Made, {"organization_id", "project_id", "created_by_id"}, {},
    {Cascade("user_id", "users"), Cascade("organization_id", "organizations"),
     Cascade("project_id", "projects"), SetNull("created_by_id", "users")}, None)

UniqueGrants ==
  << Unique("knowledge_access_grants", {"user_id", "organization_id"}, "organization_id"),
     Unique("knowledge_access_grants", {"user_id", "project_id"}, "project_id") >>

KnowledgeAccessGrants == Migration(
  << Create("knowledge_access_grants", AccessGrants) >> \o UniqueGrants,
  << Repeat("knowledge_access_grants", {"user_id", "project_id"}),
     Repeat("knowledge_access_grants", {"user_id", "organization_id"}),
     Drop("knowledge_access_grants") >>)

KnowledgeEntryTaskId == Migration(
  << Add("knowledge_entries", "null", {"task_id"}), Refer("knowledge_entries", Cascade("task_id", "tasks")) >>,
  << Unrefer("knowledge_entries", "task_id"), Remove("knowledge_entries", {"task_id"}) >>)

TaskHistoryBugFields == Migration(
  << Extend("task_history_field_enum", {"isBug", "bugReason"}) >>, << >>)

TaskEvidenceChecklistItemId == Migration(
  << Add("task_evidence", "null", {"checklist_item_id"}) >>,
  << Remove("task_evidence", {"checklist_item_id"}) >>)

ProjectDiagrams == Migration(
  << Create("project_diagrams", Table({"project_id", "title", "created_by_id"},
       Stamped \cup {"scene_json"}, {"thumbnail"}, {}, OfProject, None)) >>,
  << Drop("project_diagrams") >>)

UserSsoAssign == Migration(
  << Add("users", "null", {"sso_assign"}), Unique("users", {"sso_assign"}, "sso_assign") >>,
  << Repeat("users", {"sso_assign"}), Remove("users", {"sso_assign"}) >>)

PushSubscriptions == Migration(
  << Create("push_subscriptions", Table({"user_id", "endpoint", "p256dh", "auth"}, Made, {"user_agent"},
       {Always({"endpoint"})}, {Cascade("user_id", "users")}, None)),
     Create("push_preferences", Table({"user_id"},
       {"notify_comment", "notify_status_gate", "notify_due_today", "updated_at"}, {"opted_in_at"}, {},
       {Cascade("user_id", "users")}, None)) >>,
  << Drop("push_preferences"), Drop("push_subscriptions") >>)

ProjectWireframes == Migration(
  << Create("project_wireframes", Table({"project_id", "title", "html", "created_by_id"}, Stamped, {}, {},
       OfProject, None)) >>,
  << Drop("project_wireframes") >>)

ProjectDiagramWireframeId == Migration(
  << Add("project_diagrams", "null", {"wireframe_id"}),
     Refer("project_diagrams", Cascade("wireframe_id", "project_wireframes")) >>,
  << Unrefer("project_diagrams", "wireframe_id"), Remove("project_diagrams", {"wireframe_id"}) >>)

ProjectNameSessions == Migration(
  << Create("project_name_sessions", Table({"project_id", "title", "created_by_id"},
       Stamped \cup {"brief", "product_description", "lanes", "candidates", "shortlist_ids",
                     "feedback_rounds"},
       {"naming_goal", "recommended_candidate_id", "runner_up_candidate_id", "decision_note"}, {},
       OfProject, None)),
     Create("name_candidate_feedback", Table({"session_id", "round_id", "candidate_id", "user_id"},
       Stamped \cup {"first_impression", "remembered_spelling", "perceived_purpose", "ratings", "concern"},
       {}, {Always({"round_id", "candidate_id", "user_id"})},
       {Cascade("session_id", "project_name_sessions"), Cascade("user_id", "users")}, None)) >>,
  << Drop("name_candidate_feedback"), Drop("project_name_sessions") >>)

\* Mutant: the default assignee of a project is forgotten.
OnlyTasksAssigned == Migration(
  << Add("tasks", "null", {"assignee_id"}), Refer("tasks", SetNull("assignee_id", "users")) >>,
  << Unrefer("tasks", "assignee_id"), Remove("tasks", {"assignee_id"}) >>)

TaskAssigneeAndProjectDefault == Migration(
  << Add("tasks", "null", {"assignee_id"}), Refer("tasks", SetNull("assignee_id", "users")),
     Add("projects", "null", {"default_assignee_id"}),
     Refer("projects", SetNull("default_assignee_id", "users")) >>,
  << Unrefer("projects", "default_assignee_id"), Remove("projects", {"default_assignee_id"}),
     Unrefer("tasks", "assignee_id"), Remove("tasks", {"assignee_id"}) >>)

ProjectQaProfiles == Migration(
  << Create("project_qa_profiles", Table({"project_id"}, Stamped \cup {"environments", "users"},
       {"notes", "updated_by_id"}, {Always({"project_id"})},
       {Cascade("project_id", "projects"), SetNull("updated_by_id", "users")}, None)) >>,
  << Drop("project_qa_profiles") >>)

TaskBugFlagDossiers == Migration(
  << Create("task_bug_flag_dossiers", Table({"task_id", "primary_class", "motivo"},
       Made \cup {"secondary"}, {"evidence", "created_by_id"}, {},
       OfTask \cup {SetNull("created_by_id", "users")}, None)) >>,
  << Drop("task_bug_flag_dossiers") >>)

TaskBugFlagScores == Migration(
  << Add("task_bug_flag_dossiers", "null", {"task_score", "flag_score"}) >>,
  << Remove("task_bug_flag_dossiers", {"flag_score", "task_score"}) >>)

CreateTaskLogs == Migration(
  << Create("task_logs", FileOf({"checklist_item_id"})) >>, << Drop("task_logs") >>)

CreateQaQueueItems == Migration(
  << Create("qa_queue_items", Table({"user_id", "task_id", "project_id", "organization_id", "position"},
       Made, {}, {Always({"user_id", "task_id"}), Always({"user_id", "project_id", "position"})},
       OfTask \cup {Cascade("user_id", "users"), Cascade("project_id", "projects"),
                    Cascade("organization_id", "organizations")}, None)) >>,
  << Drop("qa_queue_items") >>)
-----------------------------------------------------------------------------
CreateSeoTables == Migration(
  << CreateNew("project_seo_sites", Table({"project_id", "hostname", "created_by_id"},
       Stamped \cup {"title"}, {"gsc_refresh_token", "gsc_property_uri"},
       {Always({"project_id", "hostname"})}, OfProject, None)),
     CreateNew("project_seo_audit_runs", Table({"site_id", "status"}, Made \cup {"sitemap_urls"},
       {"error_code", "error_message", "started_at", "finished_at", "robots_txt"}, {},
       {Cascade("site_id", "project_seo_sites")}, None)),
     CreateNew("project_seo_audit_pages", Table({"run_id", "url"},
       Made \cup {"title", "meta_description", "og_ok", "jsonld_ok", "robots_allowed", "in_sitemap",
                  "broken_link"},
       {"status_code", "redirect_to"}, {}, {Cascade("run_id", "project_seo_audit_runs")}, None)),
     CreateNew("project_seo_lighthouse_runs", Table({"run_id", "url"},
       Made \cup {"categories", "key_audits"}, {"lcp", "cls", "inp", "error_code"}, {},
       {Cascade("run_id", "project_seo_audit_runs")}, None)),
     CreateNew("project_seo_gsc_rows", Table(
       {"site_id", "dimension", "value", "range_start", "range_end", "fetched_at"},
       {"id", "clicks", "impressions", "ctr", "position"}, {}, {},
       {Cascade("site_id", "project_seo_sites")}, None)),
     CreateNew("seo_settings", Table({}, Stamped \cup {"max_pages_per_audit"}, {}, {}, {}, None)),
     Touch("seo_settings", {"id", "max_pages_per_audit"}) >>,
  << DropNow("seo_settings"), DropNow("project_seo_gsc_rows"), DropNow("project_seo_lighthouse_runs"),
     DropNow("project_seo_audit_pages"), DropNow("project_seo_audit_runs"), DropNow("project_seo_sites") >>)

SeoSiteOfferings == Migration(
  << AddNew("project_seo_sites", "default", {"offerings"}) >>, << RemoveNow("project_seo_sites", {"offerings"}) >>)

NameSessionBatches == Migration(
  << AddNew("project_name_sessions", "default", {"batches"}) >>,
  << RemoveNow("project_name_sessions", {"batches"}) >>)

NameCandidateFeedbackReaction == Migration(
  << AddNew("name_candidate_feedback", "null", {"reaction"}) >>,
  << RemoveNow("name_candidate_feedback", {"reaction"}) >>)

NameSessionParticipationMode == Migration(
  << AddNew("project_name_sessions", "null", {"participation_mode"}) >>,
  << RemoveNow("project_name_sessions", {"participation_mode"}) >>)

\* All sessions lose their project: there is no way back once there is one.
NameSessionsDropProject == Migration(
  << Allow("project_name_sessions", "project_id"), Touch("project_name_sessions", {"project_id"}) >>,
  << RequireHoping("project_name_sessions", "project_id") >>)

DropKnowledgePersonsAndRagUp ==
  << Drop("knowledge_attachments"), Drop("knowledge_access_grants"), Drop("knowledge_entries"),
     DropType("knowledge_scope_enum"),
     Drop("rag_chunks"), Drop("rag_index_jobs"), Drop("rag_index_state"), Drop("rag_settings"),
     Touch("mcp_tool_settings", {"key"}) >>

DropKnowledgePersonsAndRagDown ==
  << CreateNew("rag_settings", RagSettings),
     KnowledgeScope,
     CreateNew("knowledge_entries", KnowledgeEntries({"task_id"}, OfTask)),
     CreateNew("knowledge_access_grants", AccessGrants) >> \o UniqueGrants \o
  << CreateNew("knowledge_attachments", Attachments) >>

DesktopAuthSessions == Migration(
  << Create("desktop_auth_sessions", Table({"user_id", "state_hash", "code_challenge"}, Stamped,
       {"code_hash", "code_expires_at", "code_used_at", "refresh_hash", "previous_refresh_hash",
        "refresh_expires_at", "revoked_at"}, {}, {}, None)),
     Unique("desktop_auth_sessions", {"code_hash"}, "code_hash") >>,
  << Drop("desktop_auth_sessions") >>)

ControlMachines == Migration(
  << Create("machines", Table({"owner_user_id", "name", "token_hash"},
       Stamped \cup {"remote_enabled", "paused"}, {"last_seen_at", "revoked_at"}, {},
       {Cascade("owner_user_id", "users")}, None)),
     Unique("machines", {"token_hash"}, "always"),
     Create("machine_connect_sessions", Table({"user_id", "state_hash", "code_challenge"}, Made,
       {"code_hash", "code_expires_at", "code_used_at", "machine_name"}, {},
       {Cascade("user_id", "users")}, None)),
     Unique("machine_connect_sessions", {"code_hash"}, "code_hash"),
     Create("control_sessions", Table({"machine_id", "caller_user_id", "last_activity_at"},
       {"id", "opened_at"}, {"closed_at", "close_reason"}, {},
       {Cascade("machine_id", "machines"), Cascade("caller_user_id", "users")}, None)),
     Unique("control_sessions", {"machine_id"}, "closed_at is null"),
     Create("control_tool_calls", Table({"session_id", "machine_id", "user_id", "tool", "success"}, Made,
       {"duration_ms", "error", "inputs_redacted"}, {},
       {Cascade("session_id", "control_sessions"), Cascade("machine_id", "machines"),
        Cascade("user_id", "users")}, None)),
     Create("token_usage", Table({"turn_id", "arc_todo_user_id", "source"}, Made,
       {"control_session_id", "machine_id", "estimated_input_tokens", "estimated_output_tokens",
        "reported_input_tokens", "reported_output_tokens", "cost_delta", "cost_currency"}, {},
       {Cascade("arc_todo_user_id", "users"), SetNull("control_session_id", "control_sessions"),
        SetNull("machine_id", "machines")}, None)),
     Unique("token_usage", {"turn_id"}, "always") >>,
  << Drop("token_usage"), Drop("control_tool_calls"), Drop("control_sessions"),
     Drop("machine_connect_sessions"), Drop("machines") >>)

ProjectVideos == Migration(
  << Create("project_videos", Table({"project_id", "title", "created_by_id"}, Stamped \cup {"files"},
       {"edit_state", "duration_ms"}, {}, OfProject, None)) >>,
  << Drop("project_videos") >>)

SeoAuditSignals == Migration(
  << AddNew("project_seo_audit_pages", "null", {"h1_count", "canonical", "word_count", "noindex"}),
     AddNew("project_seo_audit_runs", "null", {"site_probe"}) >>,
  << RemoveNow("project_seo_audit_pages", {"h1_count", "canonical", "word_count", "noindex"}),
     RemoveNow("project_seo_audit_runs", {"site_probe"}) >>)

DeviceKindConsent == Migration(
  << Add("machines", "default", {"kind", "consent_mode"}) >>,
  << Remove("machines", {"consent_mode", "kind"}) >>)

DeviceIdeSource == Migration(
  << Add("machines", "null", {"source_id"}), Unique("machines", {"kind", "source_id"}, "source_id"),
     Allow("control_tool_calls", "session_id") >>,
  << RequireHoping("control_tool_calls", "session_id"),
     Repeat("machines", {"kind", "source_id"}), Remove("machines", {"source_id"}) >>)
-----------------------------------------------------------------------------
\* In the order of their timestamps.
migrations ==
  << CreateMcpToolSettings, Migration(OrgProjectTaskSystemUp, OrgProjectTaskSystemDown),
     CriticityAndProjectColor, PersonsAndKnowledge, GeneralPersons, KnowledgeAttachments,
     CreateChatbotSettings, CreateConversations, TaskCommentsAndHistory, TaskParentSubtasks,
     ProjectAcronymAndTaskNumber, CreateRagSettings, AddDocumentMimeTypes, AddChatbotHistoryLimits,
     Migration(CreateBoardCyclesUp, CreateBoardCyclesDown), OrganizationColor,
     TaskCategoryAndMetadata, TaskStatusesAndDescriptions, TaskQaBugAndChecklist, UserActivityLog,
     SystemAdminAndProjectMembers, KnowledgeAccessGrants, KnowledgeEntryTaskId, TaskHistoryBugFields,
     TaskEvidenceChecklistItemId, ProjectDiagrams, UserSsoAssign, PushSubscriptions,
     ProjectWireframes, ProjectDiagramWireframeId, ProjectNameSessions,
     TaskAssigneeAndProjectDefault, ProjectQaProfiles, TaskBugFlagDossiers, TaskBugFlagScores,
     CreateTaskLogs, CreateQaQueueItems, CreateSeoTables, SeoSiteOfferings, NameSessionBatches,
     NameCandidateFeedbackReaction, NameSessionParticipationMode, NameSessionsDropProject,
     Migration(DropKnowledgePersonsAndRagUp, DropKnowledgePersonsAndRagDown), DesktopAuthSessions,
     ControlMachines, ProjectVideos, SeoAuditSignals, DeviceKindConsent, DeviceIdeSource >>
=============================================================================
