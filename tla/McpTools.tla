------------------------------ MODULE McpTools ------------------------------
(* The tools that AI clients may call: a catalogue in the source, and a row  *)
(* for each tool in the database, which a starting process adds when it is   *)
(* missing and an administrator switches on and off. During a deploy two     *)
(* processes may start at a time.                                            *)
EXTENDS SequencesExt

CONSTANTS
  Process,    \* processes of the application
  Missing,    \* the sets of tools that the database may not know at first
  Requests    \* what administrators send: sequences of <<key, enabled>>

SystemTools ==
  << "check_arc_todo_api_health", "list_enabled_mcp_tools",
     "set_caller_auth" >>

ContextTools ==
  << "list_organizations", "get_organization", "create_organization",
     "update_organization", "delete_organization",
     "list_organization_members", "create_organization_user",
     "add_organization_member", "list_projects", "create_project",
     "get_project", "update_project", "delete_project" >>

TaskTools ==
  << "list_tasks", "list_project_tasks", "get_task", "create_task",
     "move_task", "update_task", "delete_task", "list_task_comments",
     "add_task_comment", "list_task_evidence", "download_task_evidence",
     "list_task_logs", "download_task_logs", "list_task_history",
     "get_task_bug_flag", "create_task_bug_flag" >>

ActivityTools ==
  << "list_organization_activity" >>

DiagramTools ==
  << "list_project_diagrams", "get_project_diagram",
     "create_project_diagram", "update_project_diagram",
     "delete_project_diagram" >>

WireframeTools ==
  << "list_project_wireframes", "get_project_wireframe",
     "create_project_wireframe", "update_project_wireframe",
     "delete_project_wireframe" >>

NameTools ==
  << "list_project_name_sessions", "get_name_session",
     "update_name_session", "add_name_candidates",
     "check_name_candidate", "recommend_name_candidate" >>

QaTools ==
  << "get_project_qa_info", "update_project_qa_info" >>

SeoTools ==
  << "list_project_seo_sites", "get_seo_site", "create_seo_site",
     "run_seo_audit", "list_seo_keywords" >>

CloudServerTools ==
  << "cloud_list_servers", "cloud_add_ssh_server",
     "cloud_add_agent_server", "cloud_list_containers",
     "cloud_refresh_server", "cloud_remove_server",
     "cloud_proxy_status", "cloud_install_proxy",
     "cloud_rollback_proxy", "cloud_list_apps", "cloud_create_app",
     "cloud_update_app", "cloud_set_env", "cloud_get_env" >>

CloudAppTools ==
  << "cloud_deploy", "cloud_get_deployment", "cloud_list_deployments",
     "cloud_rollback", "cloud_restart_app", "cloud_start_app",
     "cloud_stop_app", "cloud_delete_app", "cloud_app_logs",
     "cloud_build_and_deploy", "cloud_set_app_source",
     "cloud_set_build_policy", "cloud_set_build_machine",
     "cloud_set_build_checkout" >>

CloudImportTools ==
  << "cloud_github_app_status", "cloud_create_deploy_key",
     "cloud_list_coolify_apps", "cloud_import_coolify_app",
     "cloud_list_easypanel_apps", "cloud_import_easypanel_app",
     "cloud_confirm_import" >>

ObserverTools ==
  << "observer_search", "observer_tail", "observer_explain",
     "observer_list_tokens", "observer_create_token",
     "observer_revoke_token", "observer_list_app_tokens",
     "observer_create_app_token", "observer_revoke_app_token" >>

MetricsTools ==
  << "metrics_list_servers", "metrics_server_resources",
     "metrics_server_series", "metrics_resource_series",
     "metrics_list_agent_tokens", "metrics_create_agent_token",
     "metrics_revoke_agent_token", "metrics_list_app_tokens",
     "metrics_create_app_token", "metrics_revoke_app_token",
     "metrics_app_metrics", "metrics_app_series" >>

HubTools ==
  << "hub_list_devices", "hub_devices_presence", "hub_list_releases",
     "hub_yank_release", "hub_revoke_device", "hub_list_shares",
     "hub_revoke_share" >>

\* The catalogue, with the group of each tool.
MCP_TOOL_REGISTRY ==
  SystemTools \o ContextTools \o TaskTools \o ActivityTools \o DiagramTools \o
  WireframeTools \o NameTools \o QaTools \o SeoTools \o CloudServerTools \o
  CloudAppTools \o CloudImportTools \o ObserverTools \o MetricsTools \o HubTools

\* The groups of the settings page, in its order.
MCP_TOOL_GROUPS ==
  << SystemTools, ContextTools, TaskTools, DiagramTools, WireframeTools, NameTools,
     QaTools, SeoTools, CloudServerTools \o CloudAppTools \o CloudImportTools,
     ObserverTools, MetricsTools, HubTools >>

\* Tools that are off until somebody switches them on.
OffByDefault ==
  { "cloud_remove_server", "cloud_install_proxy",
    "cloud_rollback_proxy", "cloud_stop_app", "cloud_delete_app",
    "observer_revoke_token", "observer_revoke_app_token",
    "metrics_revoke_agent_token", "metrics_revoke_app_token",
    "hub_yank_release", "hub_revoke_device", "hub_revoke_share" }

Keys == ToSet(MCP_TOOL_REGISTRY)
defaultEnabled(k) == k \notin OffByDefault
-----------------------------------------------------------------------------
VARIABLES
  rows,      \* the rows: whether a tool is on, for those that have a row
  pc,        \* where a process is: "down", "seed", "save", "write" or "up"
  at,        \* the place in the catalogue that it has come to
  found,     \* whether the ORM has found a row before it writes one
  before,    \* history: the tools that had a row when the process started
  call       \* what is left of the call of an administrator, and the rows it read

vars == <<rows, pc, at, found, before, call>>

Idle == [left |-> <<>>, read |-> {}]

Init ==
  /\ \E missing \in Missing : rows = [k \in Keys \ missing |-> defaultEnabled(k)]
  /\ pc = [p \in Process |-> "down"]
  /\ at = [p \in Process |-> 0]
  /\ found = [p \in Process |-> FALSE]
  /\ before = [p \in Process |-> {}]
  /\ call = Idle

\* onModuleInit.
Start(p) ==
  /\ pc[p] = "down"
  /\ pc' = [pc EXCEPT ![p] = "seed"]
  /\ at' = [at EXCEPT ![p] = 0]
  /\ before' = [before EXCEPT ![p] = DOMAIN rows]
  /\ UNCHANGED <<rows, found, call>>

\* Mutant: rows that differ from the catalogue are brought in line with it.
SkippedIfSame(k) == k \in DOMAIN rows /\ rows[k] = defaultEnabled(k)

\* seedRegistry: the next tool without a row. Rows are never deleted, so that
\* the looks at those that are there are one step.
Skipped(k) == k \in DOMAIN rows

Look(p) ==
  LET Ahead(n) == at[p] + 1 .. n
      Key(i)   == MCP_TOOL_REGISTRY[i]
      last     == Len(MCP_TOOL_REGISTRY)
  IN  /\ pc[p] = "seed"
      /\ \/ /\ \A i \in Ahead(last) : Skipped(Key(i))
            /\ pc' = [pc EXCEPT ![p] = "up"]
            /\ UNCHANGED at
         \/ \E i \in Ahead(last) :
              /\ ~ Skipped(Key(i)) /\ \A j \in Ahead(i - 1) : Skipped(Key(j))
              /\ at' = [at EXCEPT ![p] = i]
              /\ pc' = [pc EXCEPT ![p] = "save"]
      /\ UNCHANGED <<rows, found, before, call>>

\* save of an entity with a key looks for the row first.
SaveLooks(p) ==
  /\ pc[p] = "save"
  /\ found' = [found EXCEPT ![p] = MCP_TOOL_REGISTRY[at[p]] \in DOMAIN rows]
  /\ pc' = [pc EXCEPT ![p] = "write"]
  /\ UNCHANGED <<rows, at, before, call>>

\* It updates the row that it found, or inserts one; when another process has
\* inserted it meanwhile the key is refused and the start fails.
SaveWrites(p) ==
  LET k == MCP_TOOL_REGISTRY[at[p]]
  IN  /\ pc[p] = "write"
      /\ \/ /\ ~ found[p] /\ k \in DOMAIN rows
            /\ pc' = [pc EXCEPT ![p] = "down"]
            /\ UNCHANGED rows
         \/ /\ found[p] \/ k \notin DOMAIN rows
            /\ rows' = [j \in DOMAIN rows \cup {k} |->
                          IF j = k THEN defaultEnabled(k) ELSE rows[j]]
            /\ pc' = [pc EXCEPT ![p] = "seed"]
      /\ UNCHANGED <<at, found, before, call>>

\* A process ends, up or not.
Stop(p) ==
  /\ pc[p] # "down"
  /\ pc' = [pc EXCEPT ![p] = "down"]
  /\ UNCHANGED <<rows, at, found, before, call>>

\* updateMany reads the rows of all its items, and updateOne that of its only one.
update(items) ==
  /\ call.left = <<>>
  /\ call' = [left |-> items, read |-> {items[i][1] : i \in DOMAIN items} \cap DOMAIN rows]
  /\ UNCHANGED <<rows, pc, at, found, before>>

\* It saves them one by one; an item without a row ends the call with an error,
\* those before it stay saved.
SaveItem ==
  LET item == Head(call.left)
  IN  /\ call.left # <<>>
      /\ IF item[1] \in call.read
         THEN /\ rows' = [rows EXCEPT ![item[1]] = item[2]]
              /\ call' = IF Len(call.left) = 1 THEN Idle ELSE [call EXCEPT !.left = Tail(@)]
         ELSE call' = Idle /\ UNCHANGED rows
      /\ UNCHANGED <<pc, at, found, before>>

Next ==
  \/ \E p \in Process : Start(p) \/ Look(p) \/ SaveLooks(p) \/ SaveWrites(p) \/ Stop(p)
  \/ \E items \in Requests : update(items)
  \/ SaveItem

Spec == Init /\ [][Next]_vars
-----------------------------------------------------------------------------
(* Reads and properties                                                    *)

\* findEnabledKeys, which the server of the AI clients asks.
findEnabledKeys == {k \in DOMAIN rows : rows[k]}

\* findAllGrouped: the tools on the settings page, and those it counts as on.
findAllGrouped == DOMAIN rows \cap UNION {ToSet(g) : g \in ToSet(MCP_TOOL_GROUPS)}
enabledToolCount == Cardinality(findEnabledKeys \cap findAllGrouped)

\* A start leaves the tools alone that had a row when it began, so that what
\* administrators chose survives restarts. (A row that another process adds
\* during the start is set back to the default, even if it was switched.) When
\* the process is up every tool of its catalogue has a row, whatever else
\* started or failed to start meanwhile; and the settings page counts the tools
\* that clients get, but for that of the group "activity", which it forgets.
ToolsKept ==
  \A p \in Process :
    /\ pc[p] = "write" /\ pc'[p] # "write" => \A k \in before[p] : rows'[k] = rows[k]
    /\ pc'[p] = "up" =>
         /\ Keys \subseteq DOMAIN rows'
         /\ enabledToolCount' = Cardinality(findEnabledKeys' \ {"list_organization_activity"})
ToolsSurvive == [][ToolsKept]_vars
=============================================================================
