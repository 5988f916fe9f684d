---------------------------- MODULE OfficeScreens ---------------------------
(***************************************************************************)
(* The screens of the rest: the shell around the pages, settings, help,    *)
(* the assistant, bookmarks and memos, the administration of tenants, and  *)
(* the dashboards.                                                         *)
(*                                                                         *)
(* One definition per component that asks for data or writes it; the       *)
(* comment above it is its file under app/(dashboard) or the frontend.     *)
(***************************************************************************)
EXTENDS BusinessRoutes, StaffRoutes

\* alarms
AlarmsPagePress == [saveM |-> "guarded", deleteM |-> "asked", testM |-> "guarded"]
AlarmsPage == Screen(AlarmsPagePress,
  {Polled(Rows(<<"alarms">>, {"alarms"})),
   Rows(<<"developers", "directory", "all">>, {"developers"})},
  [saveM |-> Op({One(CreateAlarm), One(UpdateAlarm)}, {<<"alarms">>}),
   deleteM |-> Op({One(DeleteAlarm)}, {<<"alarms">>}),
   testM |-> Op({One(TestAlarm)}, {<<"alarms">>})])

\* alarms
HistoryDrawer == View(
  {Rows(<<"alarms", "id", "sends">>, {"alarms/sends"})})

\* dashboard
DashboardPage == View(
  {Fresh(Rows(<<"dashboard-summary", "filter">>, {"dashboard"})),
   Row(<<"me">>, "auth/me")})

\* help/[key]/edit
HelpEditPagePress == [saveM |-> "guarded", deleteM |-> "asked"]
HelpEditPage == Screen(HelpEditPagePress,
  {Row(<<"me">>, "auth/me"),
   Row(<<"help-article", "filter">>, "help-articles")},
  [saveM |-> Leaving(Op({One(UpsertArticle)},
                        {<<"help-article", "filter">>, <<"help-articles", "list">>})),
   deleteM |-> Leaving(Op({One(DeleteArticle)},
                          {<<"help-article", "filter">>, <<"help-articles", "list">>}))])

\* help/[key]
HelpDetailPage == View(
  {Row(<<"me">>, "auth/me"),
   Row(<<"help-article", "filter">>, "help-articles")})

\* help/[key]/revisions
HelpRevisionsPage == Screen([restoreM |-> "guarded"],
  {Row(<<"me">>, "auth/me"),
   Rows(<<"help-revisions", "filter">>, {"help-articles"}),
   Row(<<"help-revision", "id">>, "help-articles")},
  [restoreM |-> Leaving(Op({One(RestoreRevision)},
                           {<<"help-article", "filter">>, <<"help-revisions", "filter">>}))])

\* help
HelpIndexPage == View(
  {Row(<<"me">>, "auth/me"),
   Rows(<<"help-articles", "list">>, {"help-articles"})})

\* layout
DashboardLayout == View(
  {Row(<<"me">>, "auth/me"),
   Rows(<<"menu-permissions">>, {"menu-permissions"})})

\* settings
SettingsPage == View(
  {Row(<<"me">>, "auth/me")})

\* settings
CompanyProfileCardPress == [saveM |-> "guarded"]
CompanyProfileCard == Screen(CompanyProfileCardPress,
  {Row(<<"company-profile">>, "company-profile")},
  [saveM |-> Op({One(UpdateCompanyProfile)}, {<<"company-profile">>})])

\* settings
ImageAssetBlock == Screen([uploadM |-> "guarded", deleteM |-> "guarded"],
  {Rows(<<"company-asset", "filter", "filter">>, {"company-profile/logo"})},
  [uploadM |-> Op({One(UploadLogo), One(UploadStamp), One(UploadSeal)},
                  {<<"company-asset", "filter">>, <<"company-profile">>}),
   deleteM |-> Op({One(DeleteLogo), One(DeleteStamp), One(DeleteSeal)},
                  {<<"company-asset", "filter">>, <<"company-profile">>})])

\* settings
InsuranceRatesCard == Screen([deleteM |-> "asked"],
  {Rows(<<"insurance-rates">>, {"hr/insurance-rates"})},
  [deleteM |-> Op({One(DeleteRate)}, {<<"insurance-rates">>})])

\* settings
RateEditorPress == [saveM |-> "open"]
RateEditor == Screen(RateEditorPress,
  {},
  [saveM |-> Op({One(UpdateRate), One(CreateRate)},
                {<<"insurance-rates">>})])

\* settings
TaxTableCard == Screen([uploadM |-> "guarded", deleteM |-> "open"],
  {Rows(<<"withholding-tax-tables">>, {"payroll/tax-tables"})},
  [uploadM |-> Op({One(UploadTaxTable)}, {<<"withholding-tax-tables">>}),
   deleteM |-> Op({One(DeleteTaxTable)}, {<<"withholding-tax-tables">>})])

\* settings
TaxTableViewer == View(
  {Rows(<<"withholding-tax-rows", "id">>, {"payroll/tax-tables/rows"})})

\* app/admin/data-sources
DataSourcesPagePress == [saveM |-> "guarded"]
DataSourcesPage == Screen(DataSourcesPagePress,
  {Row(<<"settings", "ecos">>, "settings/ecos"),
   Row(<<"settings", "fred">>, "settings/fred"),
   Row(<<"settings", "exchange">>, "settings/exchange")},
  [saveM |-> Op(SomeOf(<<UpdateSection("settings/ecos"), UpdateSection("settings/fred"),
                 UpdateSection("settings/exchange")>>),
                {<<"settings">>})])

\* app/admin/db-backups
BackupPane == Screen([runM |-> "guarded", remove |-> "asked"],
  {Rows(<<"admin-backups", "filter">>, {"backups"})},
  [runM |-> Op({One(TriggerBackup)}, {<<"admin-backups", "filter">>}),
   remove |-> Op({One(DeleteBackupFile)}, {<<"admin-backups", "filter">>})])

\* app/admin/job-runs
JobRunsPagePress == [cleanupMutation |-> "guarded"]
JobRunsPage == Screen(JobRunsPagePress,
  {Polled(Rows(<<"job-runs", "filter", "filter", "filter">>, {"job-runs"}))},
  [cleanupMutation |-> Op({One(CleanupOldRuns)}, {<<"job-runs">>})])

\* app/admin/layout
AdminLayout == View(
  {Row(<<"me">>, "auth/me")})

\* app/admin/password-change
AdminPasswordChangePage == Screen([onSubmit |-> "guarded"],
  {},
  [onSubmit |-> Op({One(ChangePassword)}, {<<"me">>})])

\* app/admin/system-info
SystemInfoPage == View(
  {Polled(Rows(<<"system-metrics">>, {"system/metrics"})),
   Polled(Rows(<<"system-health">>, {"system/health"})),
   Polled(Rows(<<"system-notify-tenants">>, {"tenants"}))})

\* app/admin/system-settings
SystemSettingsPagePress == [saveM |-> "guarded"]
SystemSettingsPage == Screen(SystemSettingsPagePress,
  {Row(<<"settings", "auth">>, "settings/auth"),
   Row(<<"settings", "upload">>, "settings/upload"),
   Row(<<"settings", "logging">>, "settings/logging"),
   Row(<<"settings", "push">>, "settings/push")},
  [saveM |-> Op(SomeOf(<<UpdateSection("settings/auth"), UpdateSection("settings/upload"),
                 UpdateSection("settings/logging"), UpdateSection("settings/push")>>),
                {<<"settings">>})])

\* app/admin/tenants
TenantsPagePress == [setActiveM |-> "asked", hardDeleteM |-> "asked"]
TenantsPage == Screen(TenantsPagePress,
  {Fresh(Rows(<<"admin-tenants">>, {"tenants"}))},
  [setActiveM |-> Op({One(UpdateTenant), One(DeactivateTenant)}, {<<"admin-tenants">>}),
   hardDeleteM |-> Op({One(HardDeleteTenant)}, {<<"admin-tenants">>})])

\* app/admin/tenants
NewTenantDialogPress == [m |-> "guarded"]
NewTenantDialog == Screen(NewTenantDialogPress,
  {},
  [m |-> Op({One(CreateTenant)}, {<<"admin-tenants">>})])

\* app/admin/tenants
EditTenantDialogPress == [m |-> "guarded"]
EditTenantDialog == Screen(EditTenantDialogPress,
  {},
  [m |-> Op({One(UpdateTenant) \o One(CreateTenantAdmin), One(UpdateTenant)},
            {<<"admin-tenants">>})])

\* app/password-change
PasswordChangePage == Screen([onSubmit |-> "guarded"],
  {Fresh(Row(<<"me">>, "auth/me"))},
  [onSubmit |-> Leaving(Op({One(SetInitialPassword)}, {<<"me">>}))])

\* app/rnd-budget-preview/[id]
RndBudgetPreviewPage == View(
  {Row(<<"rnd-budget-preview", "id">>, "rnd-budgets")})

\* components/assistant/FloatingChat
FloatingChat == View(
  {Row(<<"settings", "assistant", "floating">>, "settings/assistant")})

\* components/bookmarks/BookmarkDrawer
BookmarkPanePress == [createM |-> "guarded", updateM |-> "guarded", deleteM |-> "asked"]
BookmarkPane == Screen(BookmarkPanePress,
  {Rows(<<"bookmarks", "filter">>, {"bookmarks"})},
  [createM |-> Op({One(CreateBookmark)}, {<<"bookmarks", "filter">>}),
   updateM |-> Op({One(UpdateBookmark)}, {<<"bookmarks", "filter">>}),
   deleteM |-> Op({One(DeleteBookmark)}, {<<"bookmarks", "filter">>})])

\* components/dashboard/PersonalCards
LeaveBalanceTile == View(
  {Rows(<<"leave-balance-me">>, {"leaves/balances"})})

\* components/dashboard/PersonalCards
MyActionsTile == View(
  {Rows(<<"my-action-items", "filter">>, {"meeting-notes/action-items"})})

\* components/dashboard/PersonalCards
ApprovalInboxTile == View(
  {Rows(<<"approvals", "inbox">>, {"approvals"}),
   Rows(<<"approvals", "mine">>, {"approvals"})})

\* components/dashboard/PersonalCards
MyGoalsTile == View(
  {Rows(<<"goals", "score-summary">>, {"goals", "goals/score/baselines"})})

\* components/dashboard/PersonalCards
NextPaydayTile == View(
  {Rows(<<"next-payday">>, {"payroll/runs", "settings/payroll"})})

\* components/dashboard/PersonalCards
ThisWeekScheduleCard == View(
  {Rows(<<"my-meetings-this-week", "filter", "filter">>, {"meeting-reservations"}),
   Rows(<<"events-calendar", "filter">>, {"events"})})

\* components/dashboard/PersonalCards
BirthdaysCard == View(
  {Rows(<<"birthdays", "this-month">>, {"developers"})})

\* components/dashboard/PersonalCards
UpcomingHolidaysCard == View(
  {Rows(<<"calendar", "filter">>, {"calendar"})})

\* components/dashboard/PersonalCards
UpcomingEventsCard == View(
  {Rows(<<"events-calendar", "filter">>, {"events"})})

\* components/dashboard/PersonalCards
ThisWeekAttendanceCard == View(
  {Rows(<<"attendance-me-week">>, {"attendance"})})

\* components/dashboard/PersonalCards
RecentMeetingNotesCard == View(
  {Rows(<<"meeting-notes", "all">>, {"meeting-notes"})})

\* components/dashboard/PersonalCards
RecentNoticesCard == View(
  {Rows(<<"board", "notice", "recent">>, {"board/posts"})})

\* components/dashboard/PersonalCards
MyGoalsProgressCard == View(
  {Row(<<"me">>, "auth/me"),
   Rows(<<"goals", "personal", "me", "filter", "id">>, {"goals"})})

\* components/dashboard/PersonalCards
OverdueActionsCard == View(
  {Rows(<<"my-action-items", "filter">>, {"meeting-notes/action-items"})})

\* components/help/HelpTocSidebar
HelpTocSidebar == View(
  {Rows(<<"help-articles", "list">>, {"help-articles"})})

\* components/integrations/KakaoMapDialog
KakaoMapDialog == View(
  {Row(<<"kakao-map-config">>, "settings/kakao_map")})

\* components/integrations/KakaoMapLoader
KakaoMapLoader == View(
  {Row(<<"kakao-map-config">>, "settings/kakao_map")})

\* components/layout/Sidebar
LayoutSidebarSidebar == View(
  {Row(<<"me">>, "auth/me"),
   Row(<<"my-tenant-brand">>, "tenants"),
   Rows(<<"menu-permissions">>, {"menu-permissions"})})

\* components/layout/profile-dialogs/ChangeAddressDialog
ChangeAddressDialog == Screen([mut |-> "guarded"],
  {Rows(<<"my-profile">>, {"developers"})},
  [mut |-> Setting(Op({One(UpdateMyProfile)}, {}), {<<"my-profile">>})])

\* components/layout/profile-dialogs/ChangeEmergencyContactDialog
ChangeEmergencyContactDialogPress == [mut |-> "guarded"]
ChangeEmergencyContactDialog == Screen(ChangeEmergencyContactDialogPress,
  {Rows(<<"my-emergency-contacts", "id">>, {"developers/emergency-contacts"})},
  [mut |-> Op({One(ReplaceEmergencyContacts)}, {<<"my-emergency-contacts", "id">>})])

\* components/layout/profile-dialogs/ChangePassportDialog
ChangePassportDialogPress == [mut |-> "guarded"]
ChangePassportDialog == Screen(ChangePassportDialogPress,
  {Row(<<"my-passport", "id">>, "developers/passport")},
  [mut |-> Op({One(UpsertPassport)}, {<<"my-passport", "id">>})])

\* components/layout/profile-dialogs/ChangePasswordDialog
ChangePasswordDialog == Screen([mut |-> "guarded"],
  {},
  [mut |-> Op({One(ChangePassword)}, {})])

\* components/layout/profile-dialogs/ChangePhoneDialog
ChangePhoneDialog == Screen([mut |-> "guarded"],
  {Rows(<<"my-profile">>, {"developers"})},
  [mut |-> Setting(Op({One(UpdateMyProfile)}, {}), {<<"my-profile">>})])

\* components/memo/MemoDrawer
MemoDrawerPress == [saveM |-> "guarded"]
MemoDrawer == Screen(MemoDrawerPress,
  {Fresh(Row(<<"me-memo">>, "auth/me/memo"))},
  [saveM |-> Setting(Op({One(UpdateMyMemo)}, {}), {<<"me-memo">>})])

\* components/quick-calendar/QuickCalendarDrawer
QuickCalendarDrawer == View(
  {Row(<<"me">>, "auth/me"),
   Rows(<<"quick-calendar-holidays", "filter">>, {"calendar"}),
   Rows(<<"quick-events-calendar", "filter">>, {"events"}),
   Rows(<<"my-action-items", "filter">>, {"meeting-notes/action-items"})})

\* components/settings/AdvancedTab
AdvancedTabPress == [saveM |-> "guarded"]
AdvancedTab == Screen(AdvancedTabPress,
  {Row(<<"settings", "directory">>, "settings/directory"),
   Rows(<<"developers", "all-for-directory-exclude">>, {"developers"})},
  [saveM |-> Op({One(UpdateSection("settings/directory"))}, {<<"developers">>, <<"settings">>})])

\* components/settings/AnnouncementsTab
AnnouncementsTabPress == [saveM |-> "guarded", toggleSourceM |-> "open", fetchOneM |-> "guarded",
  fetchAllM |-> "guarded"]
AnnouncementsTab == Screen(AnnouncementsTabPress,
  {Row(<<"settings", "announcements">>, "settings/announcements"),
   Rows(<<"announcement-sources">>, {"announcements/sources"}),
   Rows(<<"announcement-runs">>, {"announcements/runs"})},
  [saveM |-> Op({One(UpdateSection("settings/announcements"))},
                {<<"announcement-sources">>, <<"settings", "announcements">>}),
   toggleSourceM |-> Op({One(PatchSource)}, {<<"announcement-sources">>}),
   fetchOneM |-> Op(FetchAnnouncements,
                    {<<"announcement-runs">>, <<"announcement-sources">>}),
   fetchAllM |-> Op(FetchAnnouncements,
                    {<<"announcement-runs">>, <<"announcement-sources">>})])

\* components/settings/ApprovalTemplatesTab
ApprovalTemplatesTab == Screen([reseedM |-> "guarded"],
  {Rows(<<"approval-templates", "filter">>, {"approval-templates"})},
  [reseedM |-> Op({One(ReseedApprovalTemplates)}, {<<"approval-templates">>})])

\* components/settings/ApprovalTemplatesTab
TemplateEditorPress == [saveM |-> "guarded"]
TemplateEditor == Screen(TemplateEditorPress,
  {},
  [saveM |-> Op({One(UpdateApprovalTemplate)}, {<<"approval-templates">>})])

\* components/settings/AssistantTab
AssistantTabPress == [saveM |-> "guarded"]
AssistantTab == Screen(AssistantTabPress,
  {Row(<<"settings", "assistant">>, "settings/assistant")},
  [saveM |-> Op({One(UpdateSection("settings/assistant"))}, {<<"settings">>})])

\* components/settings/BookmarksTab
BookmarksTabPress == [createM |-> "guarded", updateM |-> "guarded", deleteM |-> "asked"]
BookmarksTab == Screen(BookmarksTabPress,
  {Rows(<<"settings-bookmarks-company">>, {"bookmarks"})},
  [createM |-> Op({One(CreateBookmark)},
                  {<<"bookmarks", "company">>, <<"settings-bookmarks-company">>}),
   updateM |-> Op({One(UpdateBookmark)},
                  {<<"bookmarks", "company">>, <<"settings-bookmarks-company">>}),
   deleteM |-> Op({One(DeleteBookmark)},
                  {<<"bookmarks", "company">>, <<"settings-bookmarks-company">>})])

\* components/settings/CloudCostTab
CloudCostTabPress == [saveM |-> "guarded"]
CloudCostTab == Screen(CloudCostTabPress,
  {Row(<<"settings", "cloud_cost">>, "settings/cloud_cost")},
  [saveM |-> Op({One(UpdateSection("settings/cloud_cost"))}, {<<"settings">>})])

\* components/settings/GoalBaselinesTab
GoalBaselinesTab == Screen([deleteM |-> "asked"],
  {Rows(<<"goal-score-baselines">>, {"goals/score/baselines"})},
  [deleteM |-> Op({One(DeleteScoreBaseline)}, {<<"goal-score-baselines">>})])

\* components/settings/GoalBaselinesTab
BaselineEditorPress == [saveM |-> "guarded"]
BaselineEditor == Screen(BaselineEditorPress,
  {},
  [saveM |-> Op({One(UpsertScoreBaseline)}, {<<"goal-score-baselines">>})])

\* components/settings/IntegrationsTab
IntegrationsTabPress == [saveM |-> "guarded", notifyTestM |-> "guarded", mailTestM |-> "guarded"]
IntegrationsTab == Screen(IntegrationsTabPress,
  {Row(<<"settings", "notify">>, "settings/notify"),
   Row(<<"settings", "mail">>, "settings/mail"),
   Row(<<"settings", "tax_invoice">>, "settings/tax_invoice"),
   Row(<<"settings", "kakao_map">>, "settings/kakao_map"),
   Row(<<"settings", "google_map">>, "settings/google_map"),
   Row(<<"settings", "nhn_cloud_sms">>, "settings/nhn_cloud_sms")},
  [saveM |-> Op(SomeOf(<<UpdateSection("settings/notify"), UpdateSection("settings/mail"),
                 UpdateSection("settings/tax_invoice"), UpdateSection("settings/kakao_map"),
                 UpdateSection("settings/google_map"), UpdateSection("settings/nhn_cloud_sms")>>),
                {<<"settings">>}),
   notifyTestM |-> Op({One(Probe)}, {}),
   mailTestM |-> Op({One(Probe)}, {})])

\* components/settings/JobGradesTab
GradeMasterPress == [createM |-> "guarded", patchM |-> "open", deleteM |-> "asked"]
GradeMaster(key, shown, create, patch, drop) == Screen(GradeMasterPress,
  {Rows(<<key, "filter">>, {shown})},
  [createM |-> Op({One(create)}, {<<key>>}),
   patchM |-> Op({One(patch)}, {<<key>>}),
   deleteM |-> Op({One(drop)}, {<<key>>})])

RankMaster == GradeMaster("job-ranks", "job-ranks", CreateRank, UpdateRank, DeleteRank)
PositionMaster ==
  GradeMaster("job-positions", "job-positions", CreatePosition, UpdatePosition, DeletePosition)

\* components/settings/LeavesPolicyTab
LeavesPolicyTab == Screen([saveM |-> "guarded"],
  {Row(<<"settings", "leaves">>, "settings/leaves")},
  [saveM |-> Op({One(UpdateSection("settings/leaves"))}, {<<"settings">>})])

\* components/settings/NotificationsToggleTab
NotificationsToggleTabPress == [saveM |-> "guarded"]
NotificationsToggleTab == Screen(NotificationsToggleTabPress,
  {Row(<<"settings", "notify">>, "settings/notify")},
  [saveM |-> Op({One(UpdateSection("settings/notify"))}, {<<"settings", "notify">>})])

\* components/settings/PayrollSettingsTab
PayrollSettingsTabPress == [saveM |-> "guarded"]
PayrollSettingsTab == Screen(PayrollSettingsTabPress,
  {Row(<<"settings", "payroll">>, "settings/payroll"),
   Rows(<<"next-payday">>, {"payroll/runs", "settings/payroll"})},
  [saveM |-> Op({One(UpdateSection("settings/payroll"))},
                {<<"next-payday">>, <<"settings", "payroll">>})])

\* components/settings/SchedulerTab
SchedulerTabPress == [saveM |-> "guarded"]
SchedulerTab == Screen(SchedulerTabPress,
  {Row(<<"settings", "scheduler">>, "settings/scheduler"),
   Row(<<"settings", "notify">>, "settings/notify"),
   Row(<<"settings", "mail">>, "settings/mail")},
  [saveM |-> Op(SomeOf(<<UpdateSection("settings/scheduler"), UpdateSection("settings/notify"),
                 UpdateSection("settings/mail")>>),
                {<<"settings">>})])

\* components/settings/WeeklyReportsSettingsTab
TemplatesPanel == Screen([saveM |-> "guarded"],
  {Rows(<<"weekly-reports-templates">>, {"weekly-reports/templates"})},
  [saveM |-> Op({One(UpdateReportTemplate)}, {<<"weekly-reports-templates">>})])

\* components/settings/WeeklyReportsSettingsTab
AssignmentsPanel == View(
  {Rows(<<"developers-org-chart">>, {"developers"})})

=============================================================================
