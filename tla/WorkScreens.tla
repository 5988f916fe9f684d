----------------------------- MODULE WorkScreens ----------------------------
(***************************************************************************)
(* The screens of projects and assignments, weekly reports, meetings and   *)
(* their notes, events, trips, boards and mail.                            *)
(*                                                                         *)
(* One definition per component that asks for data or writes it; the       *)
(* comment above it is its file under app/(dashboard) or the frontend.     *)
(***************************************************************************)
EXTENDS StaffRoutes

\* assignments
AssignmentsPage == View(
  {Fresh(Rows(<<"assignments-year", "filter">>, {"assignments"})),
   Rows(<<"projects">>, {"projects"}),
   Rows(<<"developers-all">>, {"developers"})})

\* board/[id]/edit
BoardEditPagePress == [updateM |-> "guarded", renameM |-> "asked", deleteAttM |-> "asked"]
BoardEditPage == Screen(BoardEditPagePress,
  {Fresh(Row(<<"board-post", "id">>, "board/posts"))},
  [updateM |-> Leaving(Op({One(UpdatePost) \o Each(UploadPostAttachment)},
                          {<<"board-post", "id">>, <<"board-posts">>})),
   renameM |-> Op({One(RenamePostAttachment)}, {<<"board-post", "id">>}),
   deleteAttM |-> Op({One(DeletePostAttachment)}, {<<"board-post", "id">>})])

\* board/[id]
BoardDetailPagePress == [deleteM |-> "asked", renameM |-> "asked", deleteAttM |-> "asked"]
BoardDetailPage == Screen(BoardDetailPagePress,
  {Row(<<"me">>, "auth/me"),
   Fresh(Row(<<"board-post", "id">>, "board/posts"))},
  [deleteM |-> Leaving(Op({One(DeletePost)}, {<<"board-posts">>})),
   renameM |-> Op({One(RenamePostAttachment)}, {<<"board-post", "id">>}),
   deleteAttM |-> Op({One(DeletePostAttachment)}, {<<"board-post", "id">>})])

\* board/[id]
BoardDetailCommentsSectionPress == [createM |-> "guarded", replyM |-> "guarded",
  editM |-> "guarded", deleteM |-> "asked"]
BoardDetailCommentsSection == Screen(BoardDetailCommentsSectionPress,
  {Rows(<<"board-comments", "id">>, {"board/comments"})},
  [createM |-> Op({One(CreateBoardComment)}, {<<"board-comments", "id">>}),
   replyM |-> Op({One(CreateBoardComment)}, {<<"board-comments", "id">>}),
   editM |-> Op({One(UpdateBoardComment)}, {<<"board-comments", "id">>}),
   deleteM |-> Op({One(DeleteBoardComment)}, {<<"board-comments", "id">>})])

\* board/new
BoardNewPagePress == [createM |-> "guarded"]
BoardNewPage == Screen(BoardNewPagePress,
  {},
  [createM |-> Leaving(Op({One(CreatePost) \o Each(UploadPostAttachment)},
                          {<<"board-posts">>}))])

\* board
BoardListPagePress == [deleteM |-> "asked"]
BoardListPage == Screen(BoardListPagePress,
  {Row(<<"me">>, "auth/me"),
   Fresh(Rows(<<"board-posts">>, {"board/posts"}))},
  [deleteM |-> Op({Together(DeletePost)}, {<<"board-posts">>})])

\* calendar
HolidaysPagePress == [saveM |-> "guarded", deleteM |-> "asked"]
HolidaysPage == Screen(HolidaysPagePress,
  {Row(<<"me">>, "auth/me"),
   Rows(<<"calendar", "filter">>, {"calendar"}),
   Rows(<<"events-calendar", "filter">>, {"events"}),
   Rows(<<"my-action-items", "filter">>, {"meeting-notes/action-items"})},
  [saveM |-> Op({One(UpdateHoliday), One(CreateHoliday)}, {<<"calendar">>}),
   deleteM |-> Op({One(DeleteHoliday)}, {<<"calendar">>})])

\* calendar
AlarmRecipientsSection == View(
  {Rows(<<"developers-directory", "FULL_TIME">>, {"developers"})})

\* email
EmailPagePress == [deleteDraftM |-> "asked", syncM |-> "guarded", patchM |-> "asked",
  moveM |-> "open", bulkDeleteM |-> "guarded"]
EmailPage == Screen(EmailPagePress,
  {Rows(<<"email-accounts">>, {"email/accounts"}),
   Rows(<<"email-folders", "id">>, {"email/accounts/folders"}),
   Rows(<<"email-messages", "id", "id", "filter", "filter", "filter">>, {"email/messages"}),
   Row(<<"email-message", "id">>, "email/messages"),
   Rows(<<"email-outbox", "id", "DRAFT">>, {"email/outbox"})},
  [deleteDraftM |-> Op({One(DeleteDraft)}, {<<"email-outbox", "id", "DRAFT">>}),
   syncM |-> Op({One(SyncAccountEndpoint)},
                {<<"email-folders", "id">>, <<"email-messages">>}),
   patchM |-> Op({One(UpdateMessageFlags)},
                 {<<"email-folders", "id">>, <<"email-message", "id">>, <<"email-messages">>}),
   moveM |-> Op({One(ArchiveMessage), One(TrashMessage)},
                {<<"email-folders", "id">>, <<"email-messages">>}),
   bulkDeleteM |-> Op({One(BulkAction)},
                      {<<"email-folders", "id">>, <<"email-messages">>})])

\* events
EventsPagePress == [saveM |-> "guarded", deleteM |-> "asked", renameAttachM |-> "asked",
  deleteAttachM |-> "asked"]
EventsPage == Screen(EventsPagePress,
  {Row(<<"me">>, "auth/me"),
   Rows(<<"events", "filter", "filter">>, {"events"}),
   Rows(<<"developers-directory", "FULL_TIME">>, {"developers"})},
  [saveM |-> Op({One(UpdateEvent) \o One(UploadEventAttachments), One(UpdateEvent),
                 One(CreateEvent) \o One(UploadEventAttachments), One(CreateEvent)},
                {<<"events">>}),
   deleteM |-> Op({Together(DeleteEvent)}, {<<"events">>}),
   renameAttachM |-> Op({One(RenameEventAttachment)}, {<<"events">>}),
   deleteAttachM |-> Op({One(DeleteEventAttachment)}, {<<"events">>})])

\* meeting-notes/[id]
MeetingNoteDetailPagePress == [updateMeta |-> "guarded", deleteNote |-> "asked",
  renotify |-> "guarded"]
MeetingNoteDetailPage == Screen(MeetingNoteDetailPagePress,
  {Row(<<"meeting-note", "id">>, "meeting-notes")},
  [updateMeta |-> Op({One(UpdateNote)},
                     {<<"meeting-note", "id">>, <<"meeting-notes">>}),
   deleteNote |-> Leaving(Op({One(DeleteNote)}, {<<"meeting-notes">>})),
   renotify |-> Op({One(Renotify)}, {<<"meeting-note", "id">>})])

\* meeting-notes/[id]
AttachmentsPanel == Screen([uploadM |-> "guarded", renameM |-> "open", deleteM |-> "asked"],
  {Row(<<"meeting-note", "id">>, "meeting-notes")},
  [uploadM |-> Op({One(UploadNoteAttachments)}, {<<"meeting-note", "id">>, <<"meeting-notes">>}),
   renameM |-> Op({One(RenameNoteAttachment)}, {<<"meeting-note", "id">>}),
   deleteM |-> Op({One(DeleteNoteAttachment)}, {<<"meeting-note", "id">>, <<"meeting-notes">>})])

\* meeting-notes/[id]
EditMetaDialog == View(
  {Rows(<<"pickers", "customers">>, {"customers"}),
   Rows(<<"pickers", "projects">>, {"projects"}),
   Rows(<<"developers", "share-pool">>, {"developers"})})

\* meeting-notes/[id]
ShareManageDialog == View(
  {Rows(<<"developers", "share-pool">>, {"developers"})})

\* meeting-notes/[id]
ActionItemsPanel == Screen([createM |-> "guarded", updateM |-> "open", deleteM |-> "asked"],
  {Rows(<<"developer-directory", "FULL_TIME">>, {"developers"})},
  [createM |-> Op({One(CreateActionItem)}, {<<"meeting-note", "id">>}),
   updateM |-> Op({One(UpdateActionItem)}, {<<"meeting-note", "id">>}),
   deleteM |-> Op({One(DeleteActionItem)}, {<<"meeting-note", "id">>})])

\* meeting-notes
MeetingNotesPagePress == [deleteM |-> "asked"]
MeetingNotesPage == Screen(MeetingNotesPagePress,
  {Row(<<"me">>, "auth/me"),
   Rows(<<"meeting-notes", "filter">>, {"meeting-notes"})},
  [deleteM |-> Op({Together(DeleteNote)}, {<<"meeting-notes">>})])

\* meeting-notes
MeetingNotesCreateDialogPress == [createM |-> "guarded"]
MeetingNotesCreateDialog == Screen(MeetingNotesCreateDialogPress,
  {Row(<<"me">>, "auth/me"),
   Rows(<<"pickers", "customers">>, {"customers"}),
   Rows(<<"pickers", "projects">>, {"projects"}),
   Rows(<<"developers", "share-pool">>, {"developers"})},
  [createM |-> Op({One(CreateNote)}, {<<"meeting-notes">>})])

\* meetings
MeetingsPagePress == [createOrUpdateM |-> "guarded", cancelM |-> "guarded"]
MeetingsPage == Screen(MeetingsPagePress,
  {Row(<<"me">>, "auth/me"),
   Rows(<<"meeting-rooms">>, {"meeting-rooms"}),
   Rows(<<"developers-directory", "FULL_TIME">>, {"developers"}),
   Rows(<<"meeting-reservations", "id", "filter", "filter">>, {"meeting-reservations"}),
   Rows(<<"calendar", "filter">>, {"calendar"}),
   Rows(<<"events-all", "filter">>, {"events"})},
  [createOrUpdateM |-> Op({One(UpdateReservation),
                           One(CreateReservation)},
                          {<<"meeting-reservations">>}),
   cancelM |-> Op({One(CancelReservation)}, {<<"meeting-reservations">>})])

\* my-actions
MyActionsPagePress == [updateM |-> "asked", deleteM |-> "asked", addItem |-> "guarded"]
MyActionsPage == Screen(MyActionsPagePress,
  {Row(<<"me">>, "auth/me"),
   Rows(<<"my-action-items", "team-probe">>, {"meeting-notes/action-items"}),
   Rows(<<"my-action-items", "filter", "open">>, {"meeting-notes/action-items"}),
   Rows(<<"my-action-items", "filter", "done">>, {"meeting-notes/action-items"})},
  [updateM |-> Op({One(UpdateActionItemUnified)}, {<<"my-action-items">>}),
   deleteM |-> Op({One(DeleteActionItemUnified)}, {<<"my-action-items">>}),
   addItem |-> Op({One(CreateStandaloneActionItem)}, {<<"my-action-items">>})])

\* my-actions
ActionItemDialog == View(
  {Rows(<<"pickers", "customers">>, {"customers"}),
   Rows(<<"pickers", "projects">>, {"projects"}),
   Rows(<<"meeting-notes", "all">>, {"meeting-notes"})})

\* notice/[id]/edit
NoticeEditPagePress == [updateM |-> "guarded", renameM |-> "asked", deleteAttM |-> "asked"]
NoticeEditPage == Screen(NoticeEditPagePress,
  {Fresh(Row(<<"board-post", "id">>, "board/posts"))},
  [updateM |-> Leaving(Op({One(UpdatePost) \o Each(UploadPostAttachment)},
                          {<<"board-post", "id">>, <<"board-posts">>})),
   renameM |-> Op({One(RenamePostAttachment)}, {<<"board-post", "id">>}),
   deleteAttM |-> Op({One(DeletePostAttachment)}, {<<"board-post", "id">>})])

\* notice/[id]
NoticeDetailPagePress == [deleteM |-> "asked", renameM |-> "asked", deleteAttM |-> "asked"]
NoticeDetailPage == Screen(NoticeDetailPagePress,
  {Row(<<"me">>, "auth/me"),
   Fresh(Row(<<"board-post", "id">>, "board/posts"))},
  [deleteM |-> Leaving(Op({One(DeletePost)}, {<<"board-posts">>})),
   renameM |-> Op({One(RenamePostAttachment)}, {<<"board-post", "id">>}),
   deleteAttM |-> Op({One(DeletePostAttachment)}, {<<"board-post", "id">>})])

\* notice/new
NoticeNewPagePress == [createM |-> "guarded"]
NoticeNewPage == Screen(NoticeNewPagePress,
  {},
  [createM |-> Leaving(Op({One(CreatePost) \o Each(UploadPostAttachment)},
                          {<<"board-posts">>}))])

\* notice
NoticeListPage == Screen([deleteM |-> "asked"],
  {Fresh(Rows(<<"notice-posts">>, {"board/posts"}))},
  [deleteM |-> Op({Together(DeletePost)}, {<<"notice-posts">>})])

\* projects/[id]
ProjectDetailPagePress == [createAssignment |-> "open", deleteAssignment |-> "asked"]
ProjectDetailPage == Screen(ProjectDetailPagePress,
  {Row(<<"project", "id">>, "projects"),
   RowWith(<<"project-summary", "id">>, "projects", {"assignments", "tax-invoices"}),
   Rows(<<"project-tax-agg", "id">>, {"tax-invoices"}),
   Rows(<<"project-assignments", "id">>, {"assignments"}),
   Rows(<<"developers-active">>, {"developers"})},
  [createAssignment |-> Op({One(UpdateAssignment), One(CreateAssignment)},
                           {<<"estimate-fulfillment", "id">>, <<"project-assignments", "id">>,
                            <<"project-monthly-costs", "id">>, <<"project-summary", "id">>}),
   deleteAssignment |-> Op({One(DeleteAssignment)},
                           {<<"estimate-fulfillment", "id">>, <<"project-assignments", "id">>,
                            <<"project-monthly-costs", "id">>, <<"project-summary", "id">>})])

\* projects/[id]
ProjectsDetailMemoEditor == Screen([saveM |-> "guarded"],
  {},
  [saveM |-> Op({One(UpdateProject)}, {<<"project", "id">>})])

\* projects/[id]
AssignmentForm == View(
  {Rows(<<"estimate-items", "id">>, {"projects/estimate-items"}),
   Rows(<<"cost-context", "id", "filter">>, {"developers", "developers/salaries"})})

\* projects/[id]
CostCalculation == View(
  {RowWith(<<"project-monthly-costs", "id">>, "projects", {"assignments"})})

\* projects/[id]
EstimateEditorPress == [saveM |-> "guarded"]
EstimateEditor == Screen(EstimateEditorPress,
  {Rows(<<"estimate-items", "id">>, {"projects/estimate-items"})},
  [saveM |-> Op({One(SaveEstimateItems)},
                {<<"estimate-fulfillment", "id">>, <<"estimate-items", "id">>,
                 <<"project", "id">>, <<"project-assignments", "id">>,
                 <<"project-monthly-costs", "id">>, <<"project-summary", "id">>, <<"projects">>})])

\* projects/[id]
EstimateGantt == View(
  {Rows(<<"estimate-fulfillment", "id">>, {"projects/estimate-items", "assignments"})})

\* projects/[id]
ProjectTaxInvoicesSection == View(
  {Rows(<<"project-sales-tax-invoices", "id">>, {"tax-invoices"}),
   Rows(<<"project-purchase-tax-invoices", "id">>, {"tax-invoices"})})

\* projects
ProjectsPagePress == [createM |-> "open", updateM |-> "open", deleteM |-> "asked",
  endM |-> "guarded"]
ProjectsPageQueries ==
  {Rows(<<"projects", "filter">>, {"projects"}),
   Rows(<<"customers">>, {"customers"}),
   Rows(<<"projects-tax-summary">>, {"tax-invoices"}),
   RowWith(<<"projects-cost-summary", "id">>, "projects", {"assignments", "tax-invoices"})}
ProjectsPage == Screen(ProjectsPagePress, ProjectsPageQueries,
  [createM |-> Op({One(CreateProject), One(CreateProject) \o Together(UploadProjectAttachment)},
                  {<<"projects">>}),
   updateM |-> Op({One(UpdateProject)}, {<<"projects">>}),
   deleteM |-> Op({Together(DeleteProject)}, {<<"projects">>}),
   endM |-> Op({Together(EndProject)}, {<<"projects">>})])

\* projects
ProjectsExistingAttachment == Screen([uploadM |-> "asked", deleteM |-> "asked",
    renameM |-> "asked"],
  {},
  [uploadM |-> Op({One(UploadProjectAttachment)}, {<<"projects">>}),
   deleteM |-> Op({One(DeleteProjectAttachment)}, {<<"projects">>}),
   renameM |-> Op({One(UpdateProjectAttachment)}, {<<"projects">>})])

\* trips/[id]
TripDetailPagePress == [saveMut |-> "guarded", deleteEventMut |-> "asked", moveMut |-> "open",
  deleteTripMut |-> "asked", savePrepNotes |-> "open"]
TripDetailPageQueries ==
  {Row(<<"trip", "id">>, "trips")}
TripDetailPage == Screen(TripDetailPagePress, TripDetailPageQueries,
  [saveMut |-> Op({One(UpdateTripEvent), One(CreateTripEvent)}, {<<"trip", "id">>}),
   deleteEventMut |-> Op({One(DeleteTripEvent)}, {<<"trip", "id">>}),
   moveMut |-> Op({One(UpdateTripEvent)}, {<<"trip", "id">>}),
   deleteTripMut |-> Leaving(Op({One(DeleteTrip)}, {<<"trips">>})),
   savePrepNotes |-> Op({One(UpdateTrip)}, {})])

\* trips
TripsPagePress == [deleteMut |-> "asked", createMut |-> "guarded"]
TripsPage == Screen(TripsPagePress,
  {Rows(<<"trips">>, {"trips"})},
  [deleteMut |-> Op({Together(DeleteTrip)}, {<<"trips">>}),
   createMut |-> Leaving(Op({One(CreateTrip)}, {<<"trips">>}))])

\* utilization
UtilizationPagePress == [recomputeM |-> "guarded"]
UtilizationPage == Screen(UtilizationPagePress,
  {Row(<<"me">>, "auth/me"),
   Rows(<<"utilization", "filter", "filter", "filter", "filter">>, {"utilization"})},
  [recomputeM |-> Op({One(RecomputeUtilization)}, {<<"utilization">>})])

\* weekly-reports/[id]
WeeklyReportDetailPagePress == [saveBodyM |-> "guarded", submitM |-> "guarded",
  reopenM |-> "guarded", reapplyM |-> "guarded", uploadM |-> "guarded", deleteAttM |-> "asked",
  renameAttM |-> "asked"]
WeeklyReportDetailPageQueries ==
  {Row(<<"weekly-report", "id">>, "weekly-reports"),
   Row(<<"me">>, "auth/me")}
WeeklyReportDetailPage == Screen(WeeklyReportDetailPagePress, WeeklyReportDetailPageQueries,
  [saveBodyM |-> Setting(Op({One(UpdateBody)}, {}), {<<"weekly-report", "id">>}),
   submitM |-> Setting(Op({One(SubmitReport)},
                          {<<"weekly-reports">>}), {<<"weekly-report", "id">>}),
   reopenM |-> Setting(Op({One(ReopenReport)},
                          {<<"weekly-reports">>}), {<<"weekly-report", "id">>}),
   reapplyM |-> Setting(Op({One(ReapplyTemplate)}, {}), {<<"weekly-report", "id">>}),
   uploadM |-> Setting(Op({One(UploadReportAttachments)}, {}), {<<"weekly-report", "id">>}),
   deleteAttM |-> Op({One(DeleteReportAttachment)}, {<<"weekly-report", "id">>}),
   renameAttM |-> Op({One(RenameReportAttachment)}, {<<"weekly-report", "id">>})])

\* weekly-reports/[id]
PastReportsPanel == View(
  {Rows(<<"weekly-reports", "mine", "with-body">>, {"weekly-reports"})})

\* weekly-reports/[id]
WeeklyReportsDetailCommentsSectionPress == [createM |-> "guarded", editM |-> "guarded",
  deleteM |-> "asked"]
WeeklyReportsDetailCommentsSection == Screen(WeeklyReportsDetailCommentsSectionPress,
  {Rows(<<"weekly-report-comments", "id">>, {"weekly-reports/comments"})},
  [createM |-> Op({One(CreateReportComment)}, {<<"weekly-report-comments", "id">>}),
   editM |-> Op({One(UpdateReportComment)}, {<<"weekly-report-comments", "id">>}),
   deleteM |-> Op({One(DeleteReportComment)}, {<<"weekly-report-comments", "id">>})])

\* weekly-reports
WeeklyReportsPagePress == [lazyCreateM |-> "open"]
WeeklyReportsPageQueries ==
  {Row(<<"me">>, "auth/me"),
   Rows(<<"weekly-reports", "filter", "filter", "filter">>, {"weekly-reports"}),
   Rows(<<"weekly-reports-stack", "filter", "filter">>, {"weekly-reports"}),
   Rows(<<"developers-org-chart-light">>, {"developers"})}
WeeklyReportsPage == Screen(WeeklyReportsPagePress, WeeklyReportsPageQueries,
  [lazyCreateM |-> Leaving(Op({One(LazyCreateReport)}, {<<"weekly-reports">>}))])

\* app/weekly-reports-print
WeeklyReportsPrintPrintPageInner == View(
  {Rows(<<"weekly-reports-print", "filter", "filter", "filter">>, {"weekly-reports"}),
   Rows(<<"weekly-reports-print-assignments", "filter", "filter">>, {"assignments"}),
   Rows(<<"projects-lite">>, {"projects"})})

\* components/email/EmailAccountManager
EmailAccountManagerPress == [saveM |-> "guarded", deleteM |-> "asked", testM |-> "guarded"]
EmailAccountManager == Screen(EmailAccountManagerPress,
  {Rows(<<"email-accounts">>, {"email/accounts"})},
  [saveM |-> Op({One(CreateAccount), One(UpdateAccount)},
                {<<"email-accounts">>}),
   deleteM |-> Op({One(DeleteAccount)}, {<<"email-accounts">>}),
   testM |-> Op({One(TestAccount)}, {<<"email-accounts">>})])

\* components/email/EmailAccountManager
MemberPanel == Screen([addM |-> "guarded", removeM |-> "open"],
  {Rows(<<"email-account-members", "id">>, {"email/accounts/members"}),
   Rows(<<"email-users-picker">>, {"auth/users"})},
  [addM |-> Op({One(AddMember)}, {<<"email-account-members", "id">>}),
   removeM |-> Op({One(RemoveMember)}, {<<"email-account-members", "id">>})])

\* components/email/InlineReply
InlineReplyPress == [sendM |-> "guarded", uploadFiles |-> "asked"]
InlineReply == Screen(InlineReplyPress,
  {Rows(<<"email-address-book", "id">>, {"auth/users", "customer-contacts"})},
  [sendM |-> Op({One(UpdateOutbox) \o One(UpdateOutbox),
                 One(UpdateOutbox), One(Compose)},
                {<<"email-outbox">>}),
   uploadFiles |-> Op({Each(UploadOutboxAttachment)}, {})])

\* components/email/labels
UseLabels == View(
  {Rows(<<"email-labels", "id">>, {"email/labels"})})

\* components/email/labels
LabelApplyMenu == Screen([applyM |-> "open"],
  {},
  [applyM |-> Op({One(ApplyLabel)}, {<<"email-message">>, <<"email-messages">>})])

\* components/email/labels
LabelManageDialog == Screen([createM |-> "guarded", updateM |-> "open", deleteM |-> "asked"],
  {},
  [createM |-> Op({One(CreateLabel)}, {<<"email-labels", "id">>}),
   updateM |-> Op({One(UpdateLabel)}, {<<"email-labels", "id">>}),
   deleteM |-> Op({One(DeleteLabel)}, {<<"email-labels", "id">>, <<"email-messages">>})])

\* components/events/AddressMap
UseAddressMapState == View(
  {Row(<<"settings", "kakao_map">>, "settings/kakao_map"),
   Row(<<"settings", "google_map">>, "settings/google_map")})

\* components/meeting-notes/EmailMeetingNoteDialog
EmailMeetingNoteDialog == Screen([sendM |-> "guarded"],
  {Rows(<<"developers", "share-pool">>, {"developers"})},
  [sendM |-> Op({One(Probe)}, {})])

\* components/meetings/RoomManageDialog
RoomManageDialogPress == [saveM |-> "guarded", deleteM |-> "asked"]
RoomManageDialog == Screen(RoomManageDialogPress,
  {Rows(<<"meeting-rooms">>, {"meeting-rooms"})},
  [saveM |-> Op({One(UpdateRoom), One(CreateRoom)}, {<<"meeting-rooms">>}),
   deleteM |-> Op({One(DeleteRoom)}, {<<"meeting-rooms">>})])

\* components/weekly-reports/MyProjectsGantt
MyProjectsGantt == View(
  {Row(<<"me">>, "auth/me"),
   Rows(<<"my-assignments", "id", "filter">>, {"assignments"}),
   Rows(<<"pickers", "projects">>, {"projects"})})

\* components/weekly-reports/ThisWeekCalendar
ThisWeekCalendar == View(
  {Row(<<"me">>, "auth/me"),
   Rows(<<"calendar", "filter">>, {"calendar"}),
   Rows(<<"events-calendar", "filter">>, {"events"})})

=============================================================================
