----------------------------- MODULE MCScreens -----------------------------
(***************************************************************************)
(* The pages of the frontend: the screens each route mounts, its dialogs   *)
(* and drawers included.                                                   *)
(***************************************************************************)
EXTENDS Screens, FinanceScreens, SalesScreens, PeopleScreens, WorkScreens, OfficeScreens

MCPlaces ==
  {{AlarmsPage, HistoryDrawer},
   {AnnouncementsPage, AnnouncementDetailDrawer},
   {ApprovalDetailPage, AttachmentsCard},
   {ApprovalNewPage},
   {Inbox, Mine},
   {AssetDetailPage},
   {AssetsPage},
   {AssetScanPage},
   {AssignmentsPage},
   {DayView, WeekView, MonthView},
   {BankTransactionsPage, UploadDialog, TxDetailDialog},
   {BankAccountsPage, ExistingPassbook},
   {BoardEditPage},
   {BoardDetailPage, BoardDetailCommentsSection},
   {BoardNewPage},
   {BoardListPage},
   {BooksPage},
   {BudgetCalcPage, BudgetCalcEditor, BudgetCalcCreatePlanDialog},
   {HolidaysPage, AlarmRecipientsSection},
   {CarsPage, AttachmentSlotEditor},
   {CatalogPage},
   {CloudCostsPage, CloudCostAlertsDialog},
   {DeveloperContactsPanel, CustomerContactsPanel, ContactFormDialog, OrgChartDialog},
   {CustomerStatusDetailPage, CustomerStatusDetailEditMode, AttachmentsBlock, CatalogTriple},
   {CustomerStatusPage, CustomerStatusCreateDialog},
   {Customer360Page, CustomerActivityDrawer, InteractionForm, ParticipantsPicker},
   {CustomersPage, CustomerFormBody, CustomersExistingAttachment, CustomerActivityDrawer,
    InteractionForm, ParticipantsPicker},
   {DashboardPage, AnnouncementDashboardCards, LeaveBalanceTile, MyActionsTile,
    ApprovalInboxTile, MyGoalsTile, NextPaydayTile, ThisWeekScheduleCard, BirthdaysCard,
    UpcomingHolidaysCard, UpcomingEventsCard, ThisWeekAttendanceCard, RecentMeetingNotesCard,
    RecentNoticesCard, MyGoalsProgressCard, OverdueActionsCard},
   {DomainsPage},
   {EmailPage, EmailAccountManager, MemberPanel, InlineReply, UseLabels, LabelApplyMenu,
    LabelManageDialog},
   {DeveloperDetailPage, InfoCard, SalaryHistory, SalaryTrend, MonthlyTable,
    PasswordResetSection, AssignmentHistorySection, InterviewsSection, PassportSection,
    EmergencyContactsSection, PermissionGrantsSummary,
    DeveloperAttachmentsSectionAttachmentsSection, ResumeSection, ProfileCard,
    CertificationsCard, ExperiencesCard, ExperienceCard, ApprovalChainView, InterviewComments},
   {DevelopersPage, DeveloperFormBody, ManagerSelect, GradeSelect, OrgChartDialog},
   {EvaluationDetailPage},
   {EvaluationsPage, ScopedTab, DimensionMiniBars, AllTab, CycleCreateDialog,
    DimensionsSettingsTab},
   {EventsPage, UseAddressMapState},
   {GoalDetailPage, ScorePanel, GoalsDetailAttachmentsSection, GoalsDetailCommentsSection},
   {NewGoalPage},
   {GoalsPage, GoalGrid, TeamGoals, ScoreCard, MyRankBlock, CompanyStatusPanel,
    DeveloperGoalsSlide},
   {HelpEditPage},
   {HelpDetailPage},
   {HelpRevisionsPage},
   {HelpTocSidebar},
   {HelpIndexPage},
   {InsurancesPage, AttachmentsEditor},
   {InvoiceDetailPage},
   {NewInvoicePage},
   {InvoicesPage},
   {KbDetailPage, KbDetailEditMode, CatalogTriple},
   {KbPage},
   {DashboardLayout, FloatingChat, BookmarkPane, FxConverter,
    DeveloperAttachmentsSectionAttachmentsSection, ResumeSection, ProfileCard,
    CertificationsCard, ExperiencesCard, ExperienceCard, KakaoMapLoader, LayoutSidebarSidebar,
    ChangeAddressDialog, ChangeEmergencyContactDialog, ChangePassportDialog,
    ChangePasswordDialog, ChangePhoneDialog, MemoDrawer, QuickCalendarDrawer},
   {LeaveTypesPage},
   {LeaveDetailPage, LeavesDetailRewardGrantDialog},
   {LeavesAdminPage, InitializeDialog, DeleteAllBalancesDialog, LeavesRewardGrantDialog},
   {LicenseDetailPage, QuoteItemsEditor, LicensesDetailAttachmentsSection,
    LicensesDetailMemoEditor},
   {LicenseCalendarPage},
   {LicensesPage},
   {LoansPage, ExistingAttachments},
   {CampaignDetailPage, EmailSection, GoogleAdsSection},
   {CampaignsPage, NewCampaignDialog},
   {MarketingDashboardPage},
   {EmailTemplateEditPage, EditCard},
   {TemplatesTab, UnsubscribesTab},
   {GoogleAdsPage},
   {SegmentsPage, SegmentDialog, PreviewDialog},
   {MeetingNoteDetailPage, AttachmentsPanel, EditMetaDialog, ShareManageDialog,
    ActionItemsPanel, EmailMeetingNoteDialog},
   {MeetingNotesPage, MeetingNotesCreateDialog},
   {MeetingsPage, RoomManageDialog},
   {MyActionsPage, ActionItemDialog},
   {NoticeEditPage},
   {NoticeDetailPage},
   {NoticeNewPage},
   {NoticeListPage},
   {OpportunityDetailPage, StageControl, ActivitiesSection,
    OpportunitiesDetailAttachmentsSection, OpportunitiesDetailMemoEditor},
   {OpportunitiesPage},
   {PatentsPage, PatentFormDialog},
   {PayrollDetailPage, AddEmployeeDialog},
   {PayrollListPage, AddRunDialog},
   {PermissionsPage, ApprovalSecurityTab, FeaturePermissionsCard, LeaveApproversSection,
    ManagerEditCard, MenuPermissionsCard, SecurityRoleSection, UserFeatureGrantsMatrix,
    UserMenuGrantsMatrix},
   {ProjectDetailPage, ProjectsDetailMemoEditor, AssignmentForm, CostCalculation,
    EstimateEditor, EstimateGantt, ProjectTaxInvoicesSection, TaxInvoiceDetailDialog},
   {ProjectsPage, ProjectsExistingAttachment},
   {QuoteDetailPage},
   {NewQuotePage},
   {QuotesPage},
   {RndBudgetPage, BudgetTab, PersonnelPanel, RndBudgetCreatePlanDialog, BudgetSummaryPanel},
   {ServerHostingsPage},
   {AccountCodesPage},
   {BookmarksTab},
   {SettingsPage, CompanyProfileCard, ImageAssetBlock, InsuranceRatesCard, RateEditor,
    TaxTableCard, TaxTableViewer, AdvancedTab, ApprovalTemplatesTab, TemplateEditor,
    AssistantTab, CloudCostTab, GoalBaselinesTab, BaselineEditor, IntegrationsTab,
    RankMaster, PositionMaster, LeavesPolicyTab, NotificationsToggleTab,
    PayrollSettingsTab, SchedulerTab, TemplatesPanel, AssignmentsPanel},
   {SupportCaseDetailPage, CaseComments},
   {SupportCasesPage, SupportCasesVendorCombobox, MultiProductPicker},
   {SupportLogDetailPage, LogComments},
   {SupportLogsPage, SupportLogsVendorCombobox, MultiProductPicker},
   {TaxInvoicesDashboardPage},
   {TaxInvoicesPage, FetchHistoryDialog, TopCustomersDialog, TaxInvoiceDetailDialog},
   {TripDetailPage},
   {TripsPage},
   {UsersPage},
   {UtilizationPage},
   {VendorBillsPage},
   {WeeklyReportDetailPage, PastReportsPanel, WeeklyReportsDetailCommentsSection},
   {WeeklyReportsPage, MyProjectsGantt, ThisWeekCalendar},
   {WorksitesPage, EditDialog, WorksiteFormBody, KakaoMapDialog},
   {AnnouncementsTab},
   {DataSourcesPage},
   {BackupPane},
   {JobRunsPage},
   {AdminLayout},
   {AdminPasswordChangePage},
   {SystemInfoPage},
   {SystemSettingsPage},
   {TenantsPage, NewTenantDialog, EditTenantDialog},
   {BudgetCalcPreviewPage},
   {EvaluationsPrintPrintPageInner},
   {PasswordChangePage},
   {RndBudgetPreviewPage},
   {WeeklyReportsPrintPrintPageInner}}

Keys(screen, o, ks) == {<<screen, o, k>> : k \in ks}

\* What the pages write and do not ask again for: operations that leave the
\* page excepted.  A row counts with all its parts, so that an entry says that
\* the query may be stale and not that a user can tell.
MCUnrefreshed ==
  Keys(AnnouncementsPage, "fetchM", {<<"announcement-detail", "id">>}) \cup
  Keys(AnnouncementsPage, "bookmarkM", {<<"announcement-summary">>}) \cup
  Keys(AnnouncementDetailDrawer, "convertM", {<<"announcement-summary">>}) \cup
  Keys(BudgetCalcPage, "deletePlan", {<<"budget-calc-plan", "id">>,
    <<"budget-calc-plans-year", "filter">>, <<"budget-calc-plan-last", "id">>}) \cup
  Keys(BudgetCalcEditor, "saveM", {<<"budget-calc-plans-year", "filter">>,
    <<"budget-calc-plan-last", "id">>}) \cup
  Keys(BudgetCalcCreatePlanDialog, "createM", {<<"budget-calc-plans-year", "filter">>}) \cup
  Keys(AttachmentsBlock, "uploadM", {<<"customer-status", "id">>}) \cup
  Keys(AttachmentsBlock, "renameM", {<<"customer-status", "id">>}) \cup
  Keys(AttachmentsBlock, "deleteM", {<<"customer-status", "id">>}) \cup
  Keys(CustomerActivityDrawer, "createM", {<<"customer-overview", "id">>}) \cup
  Keys(CustomerActivityDrawer, "updateM", {<<"customer-overview", "id">>}) \cup
  Keys(CustomerActivityDrawer, "deleteM", {<<"customer-overview", "id">>}) \cup
  Keys(InteractionForm, "uploadM", {<<"customer-overview", "id">>}) \cup
  Keys(InteractionForm, "deleteAttM", {<<"customer-overview", "id">>}) \cup
  Keys(EmailPage, "syncM", {<<"email-accounts">>}) \cup
  Keys(EmailPage, "moveM", {<<"email-message", "id">>}) \cup
  Keys(EmailPage, "bulkDeleteM", {<<"email-message", "id">>}) \cup
  Keys(InlineReply, "uploadFiles", {<<"email-outbox", "id", "DRAFT">>}) \cup
  Keys(LabelApplyMenu, "applyM", {<<"email-labels", "id">>}) \cup
  Keys(DeveloperDetailPage, "resignM", {<<"approval-chain", "id">>,
    <<"direct-reports", "id">>}) \cup
  Keys(DeveloperDetailPage, "restoreM", {<<"approval-chain", "id">>,
    <<"direct-reports", "id">>}) \cup
  Keys(DevelopersPage, "createM", {<<"manager-candidates", "id">>, <<"org-chart">>}) \cup
  Keys(DevelopersPage, "updateM", {<<"manager-candidates", "id">>, <<"org-chart">>}) \cup
  Keys(DevelopersPage, "deleteM", {<<"manager-candidates", "id">>, <<"org-chart">>}) \cup
  Keys(InvoiceDetailPage, "finalizeM", {<<"invoice-versions", "id">>}) \cup
  Keys(InvoiceDetailPage, "unfinalizeM", {<<"invoice-versions", "id">>}) \cup
  Keys(ChangePasswordDialog, "mut", {<<"me">>}) \cup
  Keys(LeavesAdminPage, "approveM", {<<"leave-requests-history", "id">>}) \cup
  Keys(LeavesAdminPage, "rejectM", {<<"leave-requests-history", "id">>}) \cup
  Keys(LeavesAdminPage, "saveUsedM", {<<"leave-missing", "filter">>}) \cup
  Keys(LeavesAdminPage, "catchupM", {<<"leave-missing", "filter">>}) \cup
  Keys(LeavesRewardGrantDialog, "createM", {<<"leave-missing", "filter">>}) \cup
  Keys(PatentFormDialog, "renameAttachment", {<<"patents", "filter">>}) \cup
  Keys(PayrollDetailPage, "saveM", {<<"payroll-available-devs", "id">>}) \cup
  Keys(PayrollDetailPage, "deleteItemsM", {<<"payroll-available-devs", "id">>}) \cup
  Keys(PayrollDetailPage, "copyFromPrevM", {<<"payroll-available-devs", "id">>}) \cup
  Keys(AddRunDialog, "createM", {<<"payroll-runs", "filter">>}) \cup
  Keys(LeaveApproversSection, "saveM", {<<"approval-chain", "id">>}) \cup
  Keys(ManagerEditCard, "saveM", {<<"developers", "list", "permissions">>,
    <<"devs-directory-fulltime">>, <<"manager-candidates", "id">>,
    <<"direct-reports", "id">>, <<"developer-sec-role", "id">>}) \cup
  Keys(SecurityRoleSection, "updateM", {<<"developers", "list", "permissions">>,
    <<"devs-directory-fulltime">>, <<"manager-candidates", "id">>,
    <<"approval-chain", "id">>, <<"direct-reports", "id">>}) \cup
  Keys(ProjectsDetailMemoEditor, "saveM", {<<"project-summary", "id">>,
    <<"project-monthly-costs", "id">>, <<"projects-min-for-tax-invoice">>}) \cup
  Keys(TaxInvoiceDetailDialog, "saveM", {<<"project-summary", "id">>,
    <<"project-tax-agg", "id">>, <<"project-purchase-tax-invoices", "id">>}) \cup
  Keys(ProjectsPage, "createM", {<<"projects-cost-summary", "id">>}) \cup
  Keys(ProjectsPage, "updateM", {<<"projects-cost-summary", "id">>}) \cup
  Keys(ProjectsPage, "deleteM", {<<"projects-cost-summary", "id">>}) \cup
  Keys(ProjectsPage, "endM", {<<"projects-cost-summary", "id">>}) \cup
  Keys(ProjectsExistingAttachment, "uploadM", {<<"projects-cost-summary", "id">>}) \cup
  Keys(ProjectsExistingAttachment, "deleteM", {<<"projects-cost-summary", "id">>}) \cup
  Keys(ProjectsExistingAttachment, "renameM", {<<"projects-cost-summary", "id">>}) \cup
  Keys(QuoteDetailPage, "finalizeM", {<<"quote-versions", "id">>}) \cup
  Keys(QuoteDetailPage, "unfinalizeM", {<<"quote-versions", "id">>}) \cup
  Keys(RndBudgetPage, "deletePlan", {<<"rnd-budget", "id">>}) \cup
  Keys(BudgetTab, "savePersonnelM", {<<"rnd-budgets">>}) \cup
  Keys(SupportCasesPage, "saveM", {<<"support-cases-stats", "filter">>}) \cup
  Keys(SupportCasesPage, "deleteM", {<<"support-cases-stats", "filter">>}) \cup
  Keys(SupportLogsPage, "saveM", {<<"support-logs-stats", "filter", "filter">>,
    <<"support-logs-charts", "filter">>}) \cup
  Keys(SupportLogsPage, "deleteM", {<<"support-logs-stats", "filter", "filter">>,
    <<"support-logs-charts", "filter">>}) \cup
  Keys(TaxInvoicesPage, "fetchM", {<<"tax-invoice-fetches">>,
    <<"tax-invoice-detail", "id">>}) \cup
  Keys(TaxInvoicesPage, "backfillM", {<<"tax-invoices-summary", "filter", "filter">>}) \cup
  Keys(TripDetailPage, "savePrepNotes", {<<"trip", "id">>}) \cup
  Keys(WeeklyReportDetailPage, "saveBodyM", {<<"weekly-reports", "mine", "with-body">>}) \cup
  Keys(WeeklyReportDetailPage, "reapplyM", {<<"weekly-reports", "mine", "with-body">>}) \cup
  Keys(WeeklyReportDetailPage, "uploadM", {<<"weekly-reports", "mine", "with-body">>}) \cup
  Keys(WeeklyReportDetailPage, "deleteAttM", {<<"weekly-reports", "mine", "with-body">>}) \cup
  Keys(WeeklyReportDetailPage, "renameAttM", {<<"weekly-reports", "mine", "with-body">>}) \cup
  Keys(WorksitesPage, "deleteM", {<<"worksite-detail", "id">>}) \cup
  Keys(EditDialog, "togglePrimaryM", {<<"worksites">>})

Ops(screen, os) == {<<screen, o>> : o \in os}

\* What makes a thing at a button that nothing disables, or that works until the
\* page it leaves is gone.
MCRepeatable ==
  Ops(ApprovalNewPage, {"submitM"}) \cup Ops(AssetsPage, {"createM"}) \cup
  Ops(BoardEditPage, {"updateM"}) \cup Ops(BoardNewPage, {"createM"}) \cup
  Ops(CustomerStatusPage, {"createM"}) \cup Ops(DevelopersPage, {"createM"}) \cup
  Ops(InvoicesPage, {"copyM"}) \cup Ops(KbPage, {"createM"}) \cup
  Ops(LicensesPage, {"createM"}) \cup Ops(NewGoalPage, {"createM"}) \cup
  Ops(NewInvoicePage, {"createM"}) \cup Ops(NewQuotePage, {"createM"}) \cup
  Ops(NoticeEditPage, {"updateM"}) \cup Ops(NoticeNewPage, {"createM"}) \cup
  Ops(OpportunitiesPage, {"createM"}) \cup Ops(ProjectDetailPage, {"createAssignment"}) \cup
  Ops(ProjectsPage, {"createM"}) \cup Ops(QuotesPage, {"copyM"}) \cup
  Ops(TemplatesTab, {"create"}) \cup Ops(TripsPage, {"createMut"})

\* What makes a thing with one of several requests: the row and then its files, or
\* one file after the other.
MCPiecewise ==
  Ops(AnnouncementDetailDrawer, {"convertM"}) \cup Ops(AttachmentsEditor, {"uploadM"}) \cup
  Ops(BankAccountsPage, {"createM"}) \cup Ops(BoardEditPage, {"updateM"}) \cup
  Ops(BoardNewPage, {"createM"}) \cup Ops(CustomerActivityDrawer, {"createM"}) \cup
  Ops(CustomersPage, {"updateM"}) \cup Ops(EditDialog, {"addAssignM"}) \cup
  Ops(EventsPage, {"saveM"}) \cup
  Ops(ExistingAttachments, {"uploadM"}) \cup Ops(InlineReply, {"uploadFiles"}) \cup
  Ops(InteractionForm, {"uploadM"}) \cup Ops(KbDetailEditMode, {"saveM"}) \cup
  Ops(LicensesDetailAttachmentsSection, {"uploadM"}) \cup Ops(LoansPage, {"createM"}) \cup
  Ops(NoticeEditPage, {"updateM"}) \cup Ops(NoticeNewPage, {"createM"}) \cup
  Ops(OpportunitiesDetailAttachmentsSection, {"uploadM"}) \cup
  Ops(PatentFormDialog, {"uploadFiles"}) \cup Ops(ProjectsPage, {"createM"}) \cup
  Ops(SupportCasesPage, {"saveM"}) \cup Ops(SupportLogsPage, {"saveM"}) \cup
  Ops(VendorBillsPage, {"saveM"})

=============================================================================
