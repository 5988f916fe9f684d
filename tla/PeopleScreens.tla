---------------------------- MODULE PeopleScreens ---------------------------
(***************************************************************************)
(* The screens of employees, leave, attendance, work sites, evaluations,   *)
(* goals, approvals, users and permissions.                                *)
(*                                                                         *)
(* One definition per component that asks for data or writes it; the       *)
(* comment above it is its file under app/(dashboard) or the frontend.     *)
(***************************************************************************)
EXTENDS StaffRoutes

\* approvals/[id]
ApprovalDetailPagePress == [submitM |-> "open", cancelM |-> "open", approveM |-> "open",
  rejectM |-> "open", delegateM |-> "open", commentM |-> "open"]
ApprovalDetailPage == Screen(ApprovalDetailPagePress,
  {Row(<<"approval", "id">>, "approvals"),
   Rows(<<"developers", "active">>, {"developers"})},
  [submitM |-> Op({One(SubmitRequest)}, {<<"approval", "id">>, <<"approvals">>}),
   cancelM |-> Op({One(CancelRequest)}, {<<"approval", "id">>, <<"approvals">>}),
   approveM |-> Op({One(ApproveStep)}, {<<"approval", "id">>, <<"approvals">>}),
   rejectM |-> Op({One(RejectStep)}, {<<"approval", "id">>, <<"approvals">>}),
   delegateM |-> Op({One(DelegateStep)}, {<<"approval", "id">>, <<"approvals">>}),
   commentM |-> Op({One(AddApprovalComment)}, {<<"approval", "id">>, <<"approvals">>})])

\* approvals/[id]
AttachmentsCardPress == [uploadM |-> "asked", deleteM |-> "asked"]
AttachmentsCard == Screen(AttachmentsCardPress,
  {},
  [uploadM |-> Op({One(UploadApprovalAttachment)}, {<<"approval", "id">>, <<"approvals">>}),
   deleteM |-> Op({One(DeleteApprovalAttachment)}, {<<"approval", "id">>, <<"approvals">>})])

\* approvals/new
ApprovalNewPagePress == [submitM |-> "guarded"]
ApprovalNewPage == Screen(ApprovalNewPagePress,
  {Rows(<<"approval-templates", "filter">>, {"approval-templates"})},
  [submitM |-> Leaving(Op({One(CreateRequest)}, {}))])

\* approvals
Inbox == View(
  {Rows(<<"approvals", "inbox", "filter">>, {"approvals"})})

\* approvals
Mine == View(
  {Rows(<<"approvals", "mine", "filter">>, {"approvals"})})

\* attendance
DayView == View(
  {Polled(Rows(<<"att-admin-daily", "filter", "filter", "filter">>, {"attendance"}))})

\* attendance
WeekView == View(
  {Polled(Rows(<<"att-admin-weekly", "filter", "filter", "filter">>, {"attendance"}))})

\* attendance
MonthView == View(
  {Polled(Rows(<<"att-admin-monthly", "filter", "filter", "filter", "filter">>, {"attendance"}))})

\* employees/[id]
DeveloperDetailPagePress == [resignM |-> "open", restoreM |-> "asked"]
DeveloperDetailPage == Screen(DeveloperDetailPagePress,
  {Row(<<"developer", "id">>, "developers"),
   Row(<<"me">>, "auth/me"),
   Rows(<<"feature-permissions">>, {"feature-permissions"})},
  [resignM |-> Op({One(UpdateDeveloper)}, {<<"developer", "id">>, <<"developers">>}),
   restoreM |-> Op({One(UpdateDeveloper)}, {<<"developer", "id">>, <<"developers">>})])

\* employees/[id]
InfoCard == View(
  {Row(<<"kakao-map-config">>, "settings/kakao_map"),
   Rows(<<"job-ranks-active">>, {"job-ranks"}),
   Rows(<<"job-positions-active">>, {"job-positions"})})

\* employees/[id]
SalaryHistoryPress == [addM |-> "open", deleteM |-> "asked"]
SalaryHistory == Screen(SalaryHistoryPress,
  {Rows(<<"dev-salaries", "id">>, {"developers/salaries"}),
   Rows(<<"insurance-rate-current", "filter">>, {"hr/insurance-rates"})},
  [addM |-> Op({One(CreateSalary)},
               {<<"dev-salaries", "id">>, <<"developer", "id">>, <<"developers">>}),
   deleteM |-> Op({One(DeleteSalary)},
                  {<<"dev-salaries", "id">>, <<"developer", "id">>, <<"developers">>})])

\* employees/[id]
SalaryTrend == View(
  {Rows(<<"dev-salaries", "id">>, {"developers/salaries"})})

\* employees/[id]
MonthlyTable == View(
  {Rows(<<"insurance-rates-all">>, {"hr/insurance-rates"})})

\* employees/[id]
PasswordResetSection == Screen([resetM |-> "guarded"],
  {Row(<<"me">>, "auth/me"),
   Rows(<<"feature-permissions">>, {"feature-permissions"}),
   Row(<<"developer", "id">>, "developers")},
  [resetM |-> Op({One(Probe)}, {})])

\* employees/[id]
AssignmentHistorySection == View(
  {Rows(<<"dev-history", "id">>, {"assignments"}),
   Rows(<<"research-grants", "id">>, {"developers/research-grants"})})

\* employees/[id]
InterviewsSection == View(
  {Rows(<<"developer-interviews", "id">>, {"developers/interviews"})})

\* employees/[id]
PassportSectionPress == [saveM |-> "guarded", deleteM |-> "asked"]
PassportSection == Screen(PassportSectionPress,
  {Row(<<"developer-passport", "id">>, "developers/passport")},
  [saveM |-> Op({One(UpsertPassport)}, {<<"developer-passport", "id">>}),
   deleteM |-> Op({One(DeletePassport)}, {<<"developer-passport", "id">>})])

\* employees/[id]
EmergencyContactsSection == Screen([saveM |-> "guarded"],
  {Rows(<<"developer-emergency-contacts", "id">>, {"developers/emergency-contacts"})},
  [saveM |-> Op({One(ReplaceEmergencyContacts)},
                {<<"developer-emergency-contacts", "id">>})])

\* employees/[id]
PermissionGrantsSummary == View(
  {Row(<<"me">>, "auth/me"),
   Row(<<"developer", "id">>, "developers"),
   Rows(<<"user-menu-grants", "id">>, {"user-menu-grants"}),
   Rows(<<"user-feature-grants", "id">>, {"user-feature-grants"})})

\* employees
DevelopersPagePress == [createM |-> "open", updateM |-> "open", deleteM |-> "asked"]
DevelopersPage == Screen(DevelopersPagePress,
  {Rows(<<"developers", "filter">>, {"developers"}),
   Row(<<"me">>, "auth/me"),
   Rows(<<"feature-permissions">>, {"feature-permissions"}),
   Rows(<<"job-ranks-active">>, {"job-ranks"}),
   Rows(<<"job-positions-active">>, {"job-positions"})},
  [createM |-> Op({One(CreateDeveloper)}, {<<"developers">>}),
   updateM |-> Op({One(UpdateDeveloper)}, {<<"developers">>}),
   deleteM |-> Op({Together(DeleteDeveloper)}, {<<"developers">>})])

\* employees
DeveloperFormBody == View(
  {Row(<<"me">>, "auth/me"),
   Rows(<<"feature-permissions">>, {"feature-permissions"}),
   Row(<<"kakao-map-config">>, "settings/kakao_map"),
   Rows(<<"customers-min">>, {"customers"})})

\* employees
ManagerSelect == View(
  {Rows(<<"manager-candidates", "id">>, {"developers"})})

\* employees
GradeSelect == View(
  {Rows(<<"job-ranks-active">>, {"job-ranks"}),
   Rows(<<"job-positions-active">>, {"job-positions"})})

\* evaluations/[id]
EvaluationDetailPagePress == [saveSelf |-> "guarded", saveManager |-> "guarded",
  saveCal |-> "guarded", transitionM |-> "asked"]
EvaluationDetailPage == Screen(EvaluationDetailPagePress,
  {Row(<<"eval", "id">>, "evaluations"),
   Rows(<<"evals", "dimensions">>, {"evaluations/dimensions"})},
  [saveSelf |-> Setting(Op({One(UpdateSelfEvaluation)}, {}), {<<"eval", "id">>}),
   saveManager |-> Setting(Op({One(UpdateManagerEvaluation)}, {}), {<<"eval", "id">>}),
   saveCal |-> Setting(Op({One(Calibrate)}, {}), {<<"eval", "id">>}),
   transitionM |-> Setting(Op({One(SubmitSelf), One(ReopenSelf), One(SubmitManager),
                               One(ReopenManager), One(Finalize)}, {}),
                           {<<"eval", "id">>})])

\* evaluations
EvaluationsPage == View(
  {Row(<<"me">>, "auth/me"),
   Rows(<<"evals", "team-probe", "id">>, {"evaluations"})})

\* evaluations
ScopedTab == View(
  {Rows(<<"evals", "cycles">>, {"evaluations/cycles"}),
   Rows(<<"evals", "list", "filter", "id">>, {"evaluations"})})

\* evaluations
DimensionMiniBars == View(
  {Rows(<<"evals", "dimensions">>, {"evaluations/dimensions"})})

\* evaluations
AllTabPress == [openM |-> "asked", closeM |-> "asked"]
AllTab == Screen(AllTabPress,
  {Rows(<<"evals", "cycles">>, {"evaluations/cycles"}),
   Rows(<<"evals", "list", "all", "id">>, {"evaluations"})},
  [openM |-> Op({One(OpenCycle)}, {<<"evals", "cycles">>, <<"evals", "list">>}),
   closeM |-> Op({One(CloseCycle)}, {<<"evals", "cycles">>})])

\* evaluations
CycleCreateDialog == Screen([createM |-> "guarded"],
  {},
  [createM |-> Op({One(CreateCycle)}, {<<"evals", "cycles">>})])

\* evaluations
DimensionsSettingsTabPress == [saveM |-> "guarded"]
DimensionsSettingsTab == Screen(DimensionsSettingsTabPress,
  {Rows(<<"evals", "dimensions">>, {"evaluations/dimensions"})},
  [saveM |-> Op({One(UpsertDimensions)}, {<<"evals", "dimensions">>})])

\* goals/[id]
GoalDetailPagePress == [saveM |-> "guarded", deleteM |-> "asked"]
GoalDetailPage == Screen(GoalDetailPagePress,
  {Row(<<"goal", "id">>, "goals")},
  [saveM |-> Op({One(UpdateGoal)}, {<<"goal", "id">>, <<"goals">>}),
   deleteM |-> Leaving(Op({One(DeleteGoal)}, {<<"goals">>}))])

\* goals/[id]
ScorePanelPress == [saveSelfM |-> "guarded", saveMgrM |-> "guarded"]
ScorePanel == Screen(ScorePanelPress,
  {},
  [saveSelfM |-> Op({One(ScoreSelf)}, {<<"goal", "id">>}),
   saveMgrM |-> Op({One(ScoreManager)}, {<<"goal", "id">>})])

\* goals/[id]
GoalsDetailAttachmentsSectionPress == [uploadM |-> "asked", renameM |-> "open",
  deleteM |-> "asked"]
GoalsDetailAttachmentsSection == Screen(GoalsDetailAttachmentsSectionPress,
  {Rows(<<"goal-attachments", "id">>, {"goals/attachments"})},
  [uploadM |-> Op({One(UploadGoalAttachment)}, {<<"goal-attachments", "id">>}),
   renameM |-> Op({One(RenameGoalAttachment)}, {<<"goal-attachments", "id">>}),
   deleteM |-> Op({One(DeleteGoalAttachment)}, {<<"goal-attachments", "id">>})])

\* goals/[id]
GoalsDetailCommentsSectionPress == [createM |-> "guarded", editM |-> "guarded",
  deleteM |-> "asked"]
GoalsDetailCommentsSection == Screen(GoalsDetailCommentsSectionPress,
  {Rows(<<"goal-comments", "id">>, {"goals/comments"})},
  [createM |-> Op({One(CreateGoalComment)}, {<<"goal-comments", "id">>}),
   editM |-> Op({One(UpdateGoalComment)}, {<<"goal-comments", "id">>}),
   deleteM |-> Op({One(DeleteGoalComment)}, {<<"goal-comments", "id">>})])

\* goals/new
NewGoalPagePress == [createM |-> "guarded"]
NewGoalPage == Screen(NewGoalPagePress,
  {Row(<<"auth-me">>, "auth/me"),
   Rows(<<"goal-assignment-candidates">>, {"developers"}),
   Rows(<<"goals", "filter", "COMPANY">>, {"goals"})},
  [createM |-> Leaving(Op({One(CreateGoal)}, {}))])

\* goals
GoalsPage == View(
  {Row(<<"auth-me">>, "auth/me")})

\* goals
GoalGrid == View(
  {Rows(<<"goals", "filter", "filter", "id">>, {"goals"})})

\* goals
TeamGoals == View(
  {Rows(<<"goals", "filter", "team">>, {"goals"})})

\* goals
ScoreCard == View(
  {Rows(<<"goals-score-summary", "filter", "id">>, {"goals", "goals/score/baselines"})})

\* goals
MyRankBlock == View(
  {Rows(<<"goals-distribution", "filter">>, {"goals", "goals/score/baselines"})})

\* goals
CompanyStatusPanel == View(
  {Rows(<<"goals-team-overview", "filter">>, {"goals", "goals/score/baselines"})})

\* goals
DeveloperGoalsSlide == View(
  {Rows(<<"goals", "filter", "by-owner", "id">>, {"goals"})})

\* leave-types
LeaveTypesPagePress == [createM |-> "guarded", updateM |-> "guarded", deleteM |-> "asked",
  seedM |-> "guarded"]
LeaveTypesPage == Screen(LeaveTypesPagePress,
  {Rows(<<"leave-types", "filter", "filter">>, {"leave-types"})},
  [createM |-> Op({One(CreateLeaveType)}, {<<"leave-types">>}),
   updateM |-> Op({One(UpdateLeaveType)}, {<<"leave-types">>}),
   deleteM |-> Op({Together(DeleteLeaveType)}, {<<"leave-types">>}),
   seedM |-> Op({One(SeedLeaveTypes)}, {<<"leave-types">>})])

\* leaves/[id]
LeaveDetailPagePress == [approveM |-> "open", rejectM |-> "guarded", revokeM |-> "guarded"]
LeaveDetailPage == Screen(LeaveDetailPagePress,
  {Row(<<"developer", "id">>, "developers"),
   Rows(<<"leave-balance", "id", "filter">>, {"leaves/balances"}),
   Rows(<<"leave-requests", "id">>, {"leaves"})},
  [approveM |-> Op({One(ApproveLeaveRequest)},
                   {<<"leave-balance", "id">>, <<"leave-requests", "id">>}),
   rejectM |-> Op({One(RejectLeaveRequest)},
                  {<<"leave-balance", "id">>, <<"leave-requests", "id">>}),
   revokeM |-> Op({One(RevokeRewardGrant)}, {<<"leave-balance", "id">>})])

\* leaves/[id]
LeavesDetailRewardGrantDialog == Screen([createM |-> "guarded"],
  {},
  [createM |-> Op({One(CreateRewardGrant)}, {<<"leave-balance", "id">>})])

\* leaves
LeavesAdminPagePress == [approveM |-> "open", rejectM |-> "guarded", saveUsedM |-> "guarded",
  catchupM |-> "guarded"]
LeavesAdminPage == Screen(LeavesAdminPagePress,
  {Rows(<<"leave-requests", "filter", "filter">>, {"leaves"}),
   Rows(<<"leave-missing", "filter">>, {"leaves/balances"}),
   Rows(<<"leave-team-balances", "filter">>, {"leaves/balances"}),
   Row(<<"settings", "leaves">>, "settings/leaves"),
   Rows(<<"devs-directory-fulltime">>, {"developers"}),
   Rows(<<"leave-requests-history", "id">>, {"leaves"}),
   Row(<<"tenants", "me">>, "tenants")},
  [approveM |-> Op({One(ApproveLeaveRequest)}, {<<"leave-requests">>, <<"leave-team-balances">>}),
   rejectM |-> Op({One(RejectLeaveRequest)}, {<<"leave-requests">>, <<"leave-team-balances">>}),
   saveUsedM |-> Op({One(BulkUpdateUsedDays)},
                    {<<"leave-balance">>, <<"leave-team-balances">>}),
   catchupM |-> Op({One(CatchupMonthlyAccrual)},
                   {<<"leave-balance">>, <<"leave-requests">>, <<"leave-team-balances">>})])

\* leaves
InitializeDialogPress == [dryRunM |-> "guarded", commitM |-> "guarded"]
InitializeDialog == Screen(InitializeDialogPress,
  {},
  [dryRunM |-> Op({One(Probe)}, {}),
   commitM |-> Op({One(InitializeBalances)},
                  {<<"leave-missing">>, <<"leave-requests">>, <<"leave-team-balances">>})])

\* leaves
DeleteAllBalancesDialog == Screen([deleteM |-> "guarded"],
  {},
  [deleteM |-> Op({One(DeleteAllBalances)},
                  {<<"leave-balances">>, <<"leave-missing">>, <<"leave-team-balances">>,
                   <<"leaves">>})])

\* leaves
LeavesRewardGrantDialog == Screen([createM |-> "guarded"],
  {Rows(<<"devs-directory-fulltime">>, {"developers"})},
  [createM |-> Op({One(CreateRewardGrant)},
                  {<<"leave-requests">>, <<"leave-team-balances">>})])

\* permissions
PermissionsPage == View(
  {Row(<<"me">>, "auth/me")})

\* permissions
ApprovalSecurityTab == View(
  {Rows(<<"developers", "list", "permissions">>, {"developers"})})

\* users
UsersPagePress == [createM |-> "open", updateM |-> "open", deleteM |-> "asked", pwM |-> "open"]
UsersPage == Screen(UsersPagePress,
  {Row(<<"me">>, "auth/me"),
   Rows(<<"users-admin">>, {"auth/users"})},
  [createM |-> Op({One(CreateUser)}, {<<"users-admin">>}),
   updateM |-> Op({One(UpdateUser)}, {<<"users-admin">>}),
   deleteM |-> Op({One(DeleteUser)}, {<<"users-admin">>}),
   pwM |-> Op({One(Probe)}, {})])

\* worksites
WorksitesPagePress == [createM |-> "guarded", updateM |-> "guarded", deleteM |-> "asked"]
WorksitesPage == Screen(WorksitesPagePress,
  {Rows(<<"worksites">>, {"worksites"}),
   Rows(<<"projects-brief">>, {"projects"}),
   Rows(<<"developers-for-worksite">>, {"developers"})},
  [createM |-> Op({One(CreateWorksite)}, {<<"worksites">>}),
   updateM |-> Op({One(UpdateWorksite)}, {<<"worksite-detail">>, <<"worksites">>}),
   deleteM |-> Op({Together(DeleteWorksite)}, {<<"worksites">>})])

\* worksites
EditDialogPress == [addAssignM |-> "guarded", togglePrimaryM |-> "open", endAssignM |-> "open",
  removeAssignM |-> "asked"]
EditDialog == Screen(EditDialogPress,
  {Row(<<"worksite-detail", "id">>, "worksites")},
  [addAssignM |-> Op({Together(AddWorksiteAssignment)},
                     {<<"worksite-detail", "id">>, <<"worksites">>}),
   togglePrimaryM |-> Op({One(UpdateWorksiteAssignment)}, {<<"worksite-detail", "id">>}),
   endAssignM |-> Op({One(RemoveWorksiteAssignment)},
                     {<<"worksite-detail", "id">>, <<"worksites">>}),
   removeAssignM |-> Op({One(RemoveWorksiteAssignment)},
                        {<<"worksite-detail", "id">>, <<"worksites">>})])

\* worksites
WorksiteFormBody == View(
  {Row(<<"kakao-map-config">>, "settings/kakao_map")})

\* app/evaluations-print
EvaluationsPrintPrintPageInner == View(
  {Rows(<<"evaluations-print", "id", "filter">>, {"evaluations"}),
   Rows(<<"evaluations-print-list", "id">>, {"evaluations"}),
   Rows(<<"evals", "dimensions">>, {"evaluations/dimensions"}),
   Rows(<<"evals", "cycles">>, {"evaluations/cycles"})})

\* components/developer/AttachmentsSection
DeveloperAttachmentsSectionAttachmentsSection == Screen([uploadM |-> "guarded",
    deleteM |-> "asked", renameM |-> "open"],
  {Rows(<<"developer-attachments", "id">>, {"developers/resumes"})},
  [uploadM |-> Op({One(UploadResumes)}, {<<"developer-attachments", "id">>}),
   deleteM |-> Op({One(DeleteResume)}, {<<"developer-attachments", "id">>}),
   renameM |-> Op({One(UpdateResume)}, {<<"developer-attachments", "id">>})])

\* components/developer/ResumeSection
ResumeSection == View(
  {Rows(<<"developer-resume", "id">>, {"developers/resume"})})

\* components/developer/ResumeSection
ProfileCard == Screen([saveM |-> "guarded"],
  {},
  [saveM |-> Op({One(UpsertResumeProfile)}, {<<"developer-resume", "id">>})])

\* components/developer/ResumeSection
CertificationsCard == Screen([saveM |-> "guarded"],
  {},
  [saveM |-> Op({One(ReplaceCertifications)}, {<<"developer-resume", "id">>})])

\* components/developer/ResumeSection
ExperiencesCard == Screen([createM |-> "guarded", onRemove |-> "asked"],
  {},
  [createM |-> Op({One(CreateExperience)}, {<<"developer-resume", "id">>}),
   onRemove |-> Op({One(DeleteExperience)}, {<<"developer-resume", "id">>})])

\* components/developer/ResumeSection
ExperienceCard == Screen([saveM |-> "guarded"],
  {},
  [saveM |-> Op({One(UpdateExperience)}, {<<"developer-resume", "id">>})])

\* components/developers/OrgChartDialog
OrgChartDialog == View(
  {Rows(<<"org-chart">>, {"developers"}),
   Row(<<"me">>, "auth/me"),
   Rows(<<"org-chart-assignments", "id">>, {"assignments"})})

\* components/permissions/ApprovalChainView
ApprovalChainView == View(
  {Rows(<<"approval-chain", "id">>, {"developers", "developers/approvers"}),
   Rows(<<"direct-reports", "id">>, {"developers"})})

\* components/permissions/FeaturePermissionsCard
FeaturePermissionsCardPress == [saveM |-> "guarded"]
FeaturePermissionsCard == Screen(FeaturePermissionsCardPress,
  {Rows(<<"feature-permissions">>, {"feature-permissions"})},
  [saveM |-> Op({One(SetFeaturePermissions)}, {<<"feature-permissions">>})])

\* components/permissions/LeaveApproversSection
LeaveApproversSectionPress == [saveM |-> "guarded"]
LeaveApproversSection == Screen(LeaveApproversSectionPress,
  {Rows(<<"dev-approvers", "id">>, {"developers/approvers"}),
   Rows(<<"devs-directory-fulltime">>, {"developers"}),
   Rows(<<"users-directory">>, {"auth/users"})},
  [saveM |-> Op({One(SetDeveloperApprovers)}, {<<"dev-approvers", "id">>})])

\* components/permissions/ManagerEditCard
ManagerEditCard == Screen([saveM |-> "guarded"],
  {Rows(<<"manager-candidates", "id">>, {"developers"}),
   Rows(<<"approval-chain", "id">>, {"developers", "developers/approvers"}),
   Rows(<<"direct-reports", "id">>, {"developers"})},
  [saveM |-> Op({One(UpdateDeveloper)}, {<<"approval-chain", "id">>, <<"developer", "id">>})])

\* components/permissions/MenuPermissionsCard
MenuPermissionsCardPress == [saveM |-> "guarded"]
MenuPermissionsCard == Screen(MenuPermissionsCardPress,
  {Rows(<<"menu-permissions">>, {"menu-permissions"})},
  [saveM |-> Op({One(SetMenuPermissions)}, {<<"menu-permissions">>})])

\* components/permissions/SecurityRoleSection
SecurityRoleSection == Screen([updateM |-> "guarded"],
  {Row(<<"developer-sec-role", "id">>, "developers")},
  [updateM |-> Op({One(UpdateDeveloper)},
                  {<<"developer", "id">>, <<"developer-sec-role", "id">>})])

\* components/permissions/UserFeatureGrantsMatrix
UserFeatureGrantsMatrixPress == [addM |-> "guarded", removeM |-> "guarded"]
UserFeatureGrantsMatrix == Screen(UserFeatureGrantsMatrixPress,
  {Rows(<<"developers", "list", "permissions">>, {"developers"}),
   Rows(<<"grantable-features">>, {"user-feature-grants/catalog"}),
   Rows(<<"user-feature-grants", "all">>, {"user-feature-grants"})},
  [addM |-> Op({One(CreateGrant)}, {<<"user-feature-grants", "all">>}),
   removeM |-> Op({One(DeleteGrant)}, {<<"user-feature-grants", "all">>})])

\* components/permissions/UserMenuGrantsMatrix
UserMenuGrantsMatrixPress == [saveM |-> "guarded"]
UserMenuGrantsMatrix == Screen(UserMenuGrantsMatrixPress,
  {Rows(<<"developers", "list", "permissions">>, {"developers"}),
   Rows(<<"user-menu-grants", "all">>, {"user-menu-grants"})},
  [saveM |-> Op({One(SetUserGrants)}, {<<"user-menu-grants", "all">>})])

=============================================================================
