---------------------------- MODULE StaffRoutes -----------------------------
(***************************************************************************)
(* The handlers of people, their work and the office by which the screens  *)
(* make, change and drop things, and what becomes of a thing that is made  *)
(* when it is there already.                                               *)
(***************************************************************************)
EXTENDS ScreenTerms

---------------------------------------------------------------------------
(* People.                                                                 *)

CreateRequest == Make("approvals")
UploadApprovalAttachment == Add("approvals")
SubmitRequest == Change("approvals")
CancelRequest == Change("approvals")
ApproveStep == Change("approvals")
RejectStep == Change("approvals")
DelegateStep == Change("approvals")
AddApprovalComment == Change("approvals")
DeleteApprovalAttachment == Change("approvals")

\* One salary a developer and a first day.
CreateSalary == Unique(Make("developers/salaries"))
\* One row a first day.
CreateRate == Unique(Make("hr/insurance-rates"))
DeleteSalary == Drop("developers/salaries")
DeleteRate == Drop("hr/insurance-rates")
UpdateRate == Change("hr/insurance-rates")

\* The company e-mail is looked for only when the form gives one.
CreateDeveloper == Make("developers")
UploadResumes == Make("developers/resumes")
CreateExperience == Add("developers/resume")
UpdateDeveloper == Change("developers")
DeleteDeveloper == Change("developers")
DeleteResume == Drop("developers/resumes")
UpdateResume == Change("developers/resumes")
UpsertResumeProfile == Change("developers/resume")
ReplaceCertifications == Change("developers/resume")
UpdateExperience == Change("developers/resume")
SetDeveloperApprovers == Change("developers/approvers")
SetInitialPassword == Change("auth/me")
UpdateMyProfile == Change("developers")
DeleteExperience == Change("developers/resume")

\* One cycle a year and half-year.
CreateCycle == Unique(Make("evaluations/cycles"))
UpdateSelfEvaluation == Change("evaluations")
UpdateManagerEvaluation == Change("evaluations")
Calibrate == Change("evaluations")
OpenCycle == Change("evaluations/cycles")
CloseCycle == Change("evaluations/cycles")
UpsertDimensions == Change("evaluations/dimensions")
SubmitSelf == Change("evaluations")
ReopenSelf == Change("evaluations")
SubmitManager == Change("evaluations")
ReopenManager == Change("evaluations")
Finalize == Change("evaluations")

CreateGoal == Make("goals")
CreateGoalComment == Make("goals/comments")
UploadGoalAttachment == Make("goals/attachments")
UpdateGoal == Change("goals")
DeleteGoal == Drop("goals")
ScoreSelf == Change("goals")
ScoreManager == Change("goals")
RenameGoalAttachment == Change("goals/attachments")
DeleteGoalAttachment == Drop("goals/attachments")
UpdateGoalComment == Change("goals/comments")
DeleteGoalComment == Drop("goals/comments")
DeleteScoreBaseline == Drop("goals/score/baselines")
UpsertScoreBaseline == Upsert(Make("goals/score/baselines"))

\* The form sends no code, and the handler makes up a new one each time.
CreateLeaveType == Make("leave-types")
\* Types that are there are skipped.
SeedLeaveTypes == Kept(Make("leave-types"))
UpdateLeaveType == Change("leave-types")
DeleteLeaveType == Change("leave-types")

CreateRewardGrant == Add("leaves/balances")
ApproveLeaveRequest == Change("leaves")
RejectLeaveRequest == Change("leaves")
RevokeRewardGrant == Change("leaves/balances")
BulkUpdateUsedDays == Change("leaves/balances")
CatchupMonthlyAccrual == Change("leaves/balances")
InitializeBalances == Change("leaves/balances")
DeleteAllBalances == Drop("leaves/balances")

CreateUser == Unique(Make("auth/users"))
UpdateUser == Change("auth/users")
DeleteUser == Drop("auth/users")
ChangePassword == Change("auth/me")
UpdateMyMemo == Change("auth/me/memo")

CreateWorksite == Make("worksites")
\* No constraint backs the look for an assignment that has not ended.
AddWorksiteAssignment == Checked(Add("worksites"))
UpdateWorksite == Change("worksites")
DeleteWorksite == Change("worksites")
UpdateWorksiteAssignment == Change("worksites")
RemoveWorksiteAssignment == Change("worksites")

\* A grant that is there is answered.
CreateGrant == Kept(Make("user-feature-grants"))
DeleteGrant == Drop("user-feature-grants")

CreateRank == Unique(Make("job-ranks"))
UpdateRank == Change("job-ranks")
DeleteRank == Drop("job-ranks")
CreatePosition == Unique(Make("job-positions"))
UpdatePosition == Change("job-positions")
DeletePosition == Drop("job-positions")

UpsertPassport == Upsert(Make("developers/passport"))
DeletePassport == Drop("developers/passport")

ReplaceEmergencyContacts == Change("developers/emergency-contacts")

SetFeaturePermissions == Change("feature-permissions")

SetMenuPermissions == Change("menu-permissions")

SetUserGrants == Change("user-menu-grants")

ReseedApprovalTemplates == Change("approval-templates")
UpdateApprovalTemplate == Change("approval-templates")

AddInterview == Make("developers/interviews")
EditInterview == Change("developers/interviews")
DeleteInterview == Drop("developers/interviews")

---------------------------------------------------------------------------
(* Work.                                                                   *)

CreatePost == Make("board/posts")
UploadPostAttachment == Add("board/posts")
CreateBoardComment == Make("board/comments")
UpdatePost == Change("board/posts")
RenamePostAttachment == Change("board/posts")
DeletePostAttachment == Change("board/posts")
DeletePost == Drop("board/posts")
UpdateBoardComment == Change("board/comments")
DeleteBoardComment == Drop("board/comments")

\* Public holidays are one a day; what a user may add to the calendar is not.
CreateHoliday == Make("calendar")
UpdateHoliday == Change("calendar")
DeleteHoliday == Drop("calendar")

CreateEvent == Make("events")
UploadEventAttachments == Add("events")
UpdateEvent == Change("events")
DeleteEvent == Drop("events")
RenameEventAttachment == Change("events")
DeleteEventAttachment == Change("events")

CreateNote == Make("meeting-notes")
UploadNoteAttachments == Add("meeting-notes")
CreateActionItem == Make("meeting-notes/action-items")
CreateStandaloneActionItem == Make("meeting-notes/action-items")
UpdateNote == Change("meeting-notes")
DeleteNote == Drop("meeting-notes")
Renotify == Change("meeting-notes")
RenameNoteAttachment == Change("meeting-notes")
DeleteNoteAttachment == Change("meeting-notes")
UpdateActionItem == Change("meeting-notes/action-items")
DeleteActionItem == Drop("meeting-notes/action-items")
UpdateActionItemUnified == Change("meeting-notes/action-items")
DeleteActionItemUnified == Drop("meeting-notes/action-items")

CreateRoom == Unique(Make("meeting-rooms"))
\* EXCLUDE: a room is reserved once at a time.
CreateReservation == Unique(Make("meeting-reservations"))
UpdateReservation == Change("meeting-reservations")
CancelReservation == Change("meeting-reservations")
UpdateRoom == Change("meeting-rooms")
DeleteRoom == Drop("meeting-rooms")

CreateAssignment == Make("assignments")
UpdateAssignment == Change("assignments")
DeleteAssignment == Drop("assignments")

CreateProject == Make("projects")
\* One file a slot.
UploadProjectAttachment == Change("projects")
UpdateProject == Change("projects")
SaveEstimateItems == Change("projects/estimate-items")
DeleteProject == Drop("projects")
EndProject == Change("projects")
DeleteProjectAttachment == Change("projects")
UpdateProjectAttachment == Change("projects")

CreateTrip == Make("trips")
CreateTripEvent == Add("trips")
UpdateTripEvent == Change("trips")
DeleteTripEvent == Change("trips")
DeleteTrip == Drop("trips")
UpdateTrip == Change("trips")

\* The report of a developer and a week, made when it is first opened.
LazyCreateReport == Kept(Make("weekly-reports"))
UploadReportAttachments == Add("weekly-reports")
CreateReportComment == Make("weekly-reports/comments")
UpdateBody == Change("weekly-reports")
SubmitReport == Change("weekly-reports")
ReopenReport == Change("weekly-reports")
ReapplyTemplate == Change("weekly-reports")
DeleteReportAttachment == Change("weekly-reports")
RenameReportAttachment == Change("weekly-reports")
UpdateReportComment == Change("weekly-reports/comments")
DeleteReportComment == Drop("weekly-reports/comments")
UpdateReportTemplate == Change("weekly-reports/templates")

CreateAccount == Unique(Make("email/accounts"))
AddMember == Unique(Make("email/accounts/members"))
CreateLabel == Unique(Make("email/labels"))
Compose == Make("email/outbox")
UploadOutboxAttachment == Make("email/outbox")
DeleteDraft == Drop("email/outbox")
SyncAccountEndpoint == Change("email/accounts")
UpdateMessageFlags == Change("email/messages")
BulkAction == Change("email/messages")
UpdateAccount == Change("email/accounts")
DeleteAccount == Drop("email/accounts")
TestAccount == Change("email/accounts")
RemoveMember == Drop("email/accounts/members")
UpdateOutbox == Change("email/outbox")
ApplyLabel == Change("email/labels")
UpdateLabel == Change("email/labels")
DeleteLabel == Drop("email/labels")
ArchiveMessage == Change("email/messages")
TrashMessage == Change("email/messages")

RecomputeUtilization == Change("utilization")

---------------------------------------------------------------------------
(* The office.                                                             *)

CreateAlarm == Make("alarms")
UpdateAlarm == Change("alarms")
DeleteAlarm == Drop("alarms")
TestAlarm == Change("alarms")

TriggerBackup == Make("backups")
DeleteBackupFile == Drop("backups")

CreateTenant == Unique(Make("tenants"))
\* A user of that address gets the new password.
CreateTenantAdmin == Upsert(Add("tenants"))
UpdateTenant == Change("tenants")
DeactivateTenant == Change("tenants")
HardDeleteTenant == Drop("tenants")

CreateBookmark == Make("bookmarks")
UpdateBookmark == Change("bookmarks")
DeleteBookmark == Drop("bookmarks")

UpsertArticle == Upsert(Make("help-articles"))
DeleteArticle == Drop("help-articles")
RestoreRevision == Change("help-articles")

CleanupOldRuns == Drop("job-runs")

UpdateSection(section) == Change(section)

=============================================================================
