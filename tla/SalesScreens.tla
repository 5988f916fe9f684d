---------------------------- MODULE SalesScreens ----------------------------
(***************************************************************************)
(* The screens of customers and contacts, opportunities, marketing, the    *)
(* catalogue, licences, support cases and logs, announcements and the      *)
(* knowledge base.                                                         *)
(*                                                                         *)
(* One definition per component that asks for data or writes it; the       *)
(* comment above it is its file under app/(dashboard) or the frontend.     *)
(***************************************************************************)
EXTENDS BusinessRoutes, StaffRoutes

\* announcements
AnnouncementsPagePress == [fetchM |-> "guarded", bookmarkM |-> "open"]
AnnouncementsPage == Screen(AnnouncementsPagePress,
  {Rows(<<"announcement-sources">>, {"announcements/sources"}),
   Rows(<<"announcement-summary">>, {"announcements"}),
   Rows(<<"announcements", "filter", "filter", "filter", "filter", "filter", "filter", "filter",
         "filter", "filter", "filter">>, {"announcements"})},
  [fetchM |-> Op(FetchAnnouncements,
                 {<<"announcement-sources">>, <<"announcement-summary">>, <<"announcements">>}),
   bookmarkM |-> Op({One(AddAnnouncementBookmark), One(RemoveAnnouncementBookmark)},
                    {<<"announcement-detail">>, <<"announcements">>})])

\* catalog
CatalogPagePress == [addVendor |-> "asked", renameVendor |-> "asked", deleteVendor |-> "asked",
  addProduct |-> "guarded", editProduct |-> "guarded", deleteProduct |-> "asked",
  addVersion |-> "guarded", editVersion |-> "guarded", deleteVersion |-> "asked"]
CatalogPage == Screen(CatalogPagePress,
  {Rows(<<"catalog", "vendors">>, {"catalog/vendors"}),
   Rows(<<"catalog", "products", "id">>, {"catalog/products"}),
   Rows(<<"catalog", "versions", "id">>, {"catalog/versions"})},
  [addVendor |-> Op({One(CreateVendor)}, {<<"catalog", "vendors">>}),
   renameVendor |-> Op({One(UpdateVendor)}, {<<"catalog", "vendors">>}),
   deleteVendor |-> Op({One(DeleteVendor)}, {<<"catalog", "vendors">>}),
   addProduct |-> Op({One(CreateProduct)}, {<<"catalog", "products", "id">>}),
   editProduct |-> Op({One(UpdateProduct)}, {<<"catalog", "products", "id">>}),
   deleteProduct |-> Op({One(DeleteProduct)}, {<<"catalog", "products", "id">>}),
   addVersion |-> Op({One(CreateVersion)}, {<<"catalog", "versions", "id">>}),
   editVersion |-> Op({One(UpdateVersion)}, {<<"catalog", "versions", "id">>}),
   deleteVersion |-> Op({One(DeleteVersion)}, {<<"catalog", "versions", "id">>})])

\* contacts
DeveloperContactsPanel == View(
  {Rows(<<"contacts", "developers", "filter">>, {"developers"}),
   Rows(<<"job-ranks-active">>, {"job-ranks"}),
   Rows(<<"job-positions-active">>, {"job-positions"})})

\* contacts
CustomerContactsPanelPress == [createM |-> "guarded", updateM |-> "guarded", deleteM |-> "asked"]
CustomerContactsPanel == Screen(CustomerContactsPanelPress,
  {Rows(<<"contacts", "external", "filter">>, {"customer-contacts"}),
   Rows(<<"customers", "light">>, {"customers"})},
  [createM |-> Op({One(CreateCustomerContact)}, {<<"contacts", "external", "filter">>}),
   updateM |-> Op({One(UpdateCustomerContact)}, {<<"contacts", "external", "filter">>}),
   deleteM |-> Op({One(DeleteCustomerContact)}, {<<"contacts", "external", "filter">>})])

\* contacts
ContactFormDialogPress == [createCompanyM |-> "guarded"]
ContactFormDialog == Screen(ContactFormDialogPress,
  {},
  [createCompanyM |-> Op({One(CreateCustomer)}, {<<"customers", "light">>})])

\* customer-status/[id]
CustomerStatusDetailPage == View(
  {Row(<<"customer-status", "id">>, "customer-status"),
   Row(<<"me">>, "auth/me"),
   Rows(<<"feature-permissions">>, {"feature-permissions"})})

\* customer-status/[id]
CustomerStatusDetailEditModePress == [saveM |-> "guarded", deleteEntryM |-> "asked"]
CustomerStatusDetailEditMode == Screen(CustomerStatusDetailEditModePress,
  {Rows(<<"catalog", "vendors", "active">>, {"catalog/vendors"}),
   Rows(<<"catalog", "products", "id", "active">>, {"catalog/products"}),
   Rows(<<"catalog", "versions", "id", "active">>, {"catalog/versions"}),
   Rows(<<"customers", "list-for-status">>, {"customers"}),
   Rows(<<"projects", "by-customer", "id">>, {"projects"}),
   Rows(<<"licenses", "all">>, {"licenses"}),
   Rows(<<"customer-contacts", "by-customer", "id">>, {"customer-contacts"}),
   Rows(<<"developers", "for-picker", "fulltime-active">>, {"developers"})},
  [saveM |-> Op({One(UpdateEntry)},
                {<<"customer-status">>, <<"customer-status", "id">>}),
   deleteEntryM |-> Leaving(Op({One(DeleteEntry)}, {}))])

\* customer-status/[id]
AttachmentsBlockPress == [uploadM |-> "asked", renameM |-> "guarded", deleteM |-> "asked"]
AttachmentsBlock == Screen(AttachmentsBlockPress,
  {},
  [uploadM |-> Op({One(UploadEntryAttachments)}, {}),
   renameM |-> Op({One(RenameEntryAttachment)}, {}),
   deleteM |-> Op({One(DeleteEntryAttachment)}, {})])

\* customer-status
CustomerStatusPagePress == [createM |-> "guarded", deleteM |-> "asked"]
CustomerStatusPage == Screen(CustomerStatusPagePress,
  {Rows(<<"customer-status", "filter">>, {"customer-status"})},
  [createM |-> Leaving(Op({One(CreateEntry)}, {<<"customer-status">>})),
   deleteM |-> Op({Together(DeleteEntry)}, {<<"customer-status">>})])

\* customer-status
CustomerStatusCreateDialog == View(
  {Rows(<<"customers", "list-for-status">>, {"customers"}),
   Rows(<<"projects", "by-customer", "id">>, {"projects"}),
   Rows(<<"licenses", "all">>, {"licenses"})})

\* customers/[id]
Customer360Page == View(
  {Row(<<"me">>, "auth/me"),
   Rows(<<"customer-overview", "id">>, {"customers", "opportunities", "projects",
         "support-cases", "customer-interactions", "customer-contacts"})})

\* customers
CustomersPagePress == [createM |-> "guarded", updateM |-> "guarded", deleteM |-> "asked"]
CustomersPage == Screen(CustomersPagePress,
  {Row(<<"me">>, "auth/me"),
   Rows(<<"customers", "filter">>, {"customers"}),
   Rows(<<"developers-active">>, {"developers"})},
  [createM |-> Op({One(CreateCustomer), One(CreateCustomer) \o One(UploadCustomerAttachment),
                   One(CreateCustomer) \o One(UploadCustomerAttachment)
                   \o One(UploadCustomerAttachment)},
                  {<<"customers">>}),
   updateM |-> Op({One(UpdateCustomer) \o One(RemoveContact),
                   One(UpdateCustomer) \o One(UpdateContact),
                   One(UpdateCustomer) \o One(AddContact),
                   One(UpdateCustomer)},
                  {<<"customers">>}),
   deleteM |-> Op({Together(DeleteCustomer)}, {<<"customers">>})])

\* customers
CustomerFormBody == View(
  {Row(<<"kakao-map-config">>, "settings/kakao_map")})

\* customers
CustomersExistingAttachment == Screen([uploadM |-> "asked", deleteM |-> "asked"],
  {},
  [uploadM |-> Op({One(UploadCustomerAttachment)}, {<<"customers">>}),
   deleteM |-> Op({One(DeleteBusinessLicense), One(DeleteBankAccountCopy)}, {<<"customers">>})])

\* kb/[id]
KbDetailPage == View(
  {Row(<<"kb-entry", "id">>, "kb-entries"),
   Row(<<"me">>, "auth/me"),
   Rows(<<"feature-permissions">>, {"feature-permissions"})})

\* kb/[id]
KbDetailEditModePress == [saveM |-> "guarded", deleteAttachmentM |-> "asked",
  deleteEntryM |-> "asked"]
KbDetailEditMode == Screen(KbDetailEditModePress,
  {Rows(<<"catalog", "vendors", "active">>, {"catalog/vendors"}),
   Rows(<<"catalog", "products", "id", "active">>, {"catalog/products"}),
   Rows(<<"catalog", "versions", "id", "active">>, {"catalog/versions"})},
  [saveM |-> Op({One(UpdateKbEntry) \o One(UploadKbAttachments), One(UpdateKbEntry)},
                {<<"kb-entries">>, <<"kb-entry", "id">>}),
   deleteAttachmentM |-> Op({One(DeleteKbAttachment)}, {<<"kb-entry", "id">>}),
   deleteEntryM |-> Leaving(Op({One(DeleteKbEntry)}, {}))])

\* kb
KbPagePress == [createM |-> "guarded", deleteM |-> "asked"]
KbPage == Screen(KbPagePress,
  {Rows(<<"kb-entries", "filter", "filter">>, {"kb-entries"})},
  [createM |-> Leaving(Op({One(CreateKbEntry)}, {<<"kb-entries">>})),
   deleteM |-> Op({Together(DeleteKbEntry)}, {<<"kb-entries">>})])

\* licenses/[id]
LicenseDetailPage == View(
  {Row(<<"license", "id">>, "licenses"),
   Rows(<<"customers">>, {"customers"}),
   Rows(<<"fx">>, {"exchange/current"})})

\* licenses/[id]
QuoteItemsEditorPress == [saveM |-> "guarded"]
QuoteItemsEditor == Screen(QuoteItemsEditorPress,
  {Rows(<<"customers">>, {"customers"}),
   Rows(<<"license-quote-items", "id", "filter">>, {"licenses/quote-items"})},
  [saveM |-> Op({One(UpdateLicense) \o One(SaveQuoteItems)},
                {<<"license", "id">>, <<"license-quote-items", "id", "filter">>})])

\* licenses/[id]
LicensesDetailAttachmentsSectionPress == [uploadM |-> "asked", deleteM |-> "asked",
  renameM |-> "asked"]
LicensesDetailAttachmentsSection == Screen(LicensesDetailAttachmentsSectionPress,
  {},
  [uploadM |-> Op({Each(UploadQuote)}, {<<"license", "id">>}),
   deleteM |-> Op({One(DeleteLicenseQuote)}, {<<"license", "id">>}),
   renameM |-> Op({One(UpdateLicenseQuote)}, {<<"license", "id">>})])

\* licenses/[id]
LicensesDetailMemoEditor == Screen([saveM |-> "guarded"],
  {},
  [saveM |-> Op({One(UpdateLicense)}, {<<"license", "id">>})])

\* licenses/calendar
LicenseCalendarPage == View(
  {Fresh(Row(<<"license-calendar", "filter">>, "licenses"))})

\* licenses
LicensesPagePress == [createM |-> "open", updateM |-> "open", deleteM |-> "asked"]
LicensesPage == Screen(LicensesPagePress,
  {Rows(<<"licenses">>, {"licenses"}),
   Rows(<<"customers">>, {"customers"}),
   Rows(<<"fx">>, {"exchange/current"})},
  [createM |-> Op({One(CreateLicense)}, {<<"licenses">>}),
   updateM |-> Op({One(UpdateLicense)}, {<<"licenses">>}),
   deleteM |-> Op({Together(DeleteLicense)}, {<<"licenses">>})])

\* marketing/campaigns/[id]
CampaignDetailPage == Screen([update |-> "open", del |-> "asked"],
  {Row(<<"marketing", "campaign", "id">>, "marketing/campaigns"),
   Rows(<<"marketing", "segments">>, {"marketing/segments"}),
   Rows(<<"marketing", "email-templates">>, {"marketing/email-templates"})},
  [update |-> Op({One(UpdateCampaign)}, {<<"marketing", "campaign", "id">>}),
   del |-> Leaving(Op({One(DeleteCampaign)}, {<<"marketing", "campaigns">>}))])

\* marketing/campaigns/[id]
EmailSection == Screen([send |-> "guarded"],
  {Rows(<<"marketing", "campaign", "id", "sends">>,
        {"marketing/campaigns", "marketing/campaigns/sends"})},
  [send |-> Op({One(SendCampaign)},
               {<<"marketing", "campaign", "id">>, <<"marketing", "campaign", "id", "sends">>})])

\* marketing/campaigns/[id]
GoogleAdsSectionPress == [upsert |-> "guarded", sync |-> "guarded"]
GoogleAdsSection == Screen(GoogleAdsSectionPress,
  {Rows(<<"marketing", "campaign", "id", "ga-metrics">>,
         {"marketing/google-ads/campaigns/metrics"})},
  [upsert |-> Op({One(UpsertMetric)},
                 {<<"marketing", "campaign", "id">>,
                  <<"marketing", "campaign", "id", "ga-metrics">>}),
   sync |-> Op({One(SyncCampaign)},
               {<<"marketing", "campaign", "id", "ga-metrics">>})])

\* marketing/campaigns
CampaignsPage == View(
  {Rows(<<"marketing", "campaigns", "filter">>, {"marketing/campaigns"})})

\* marketing/campaigns
NewCampaignDialog == Screen([mut |-> "guarded"],
  {},
  [mut |-> Op({One(CreateCampaign)}, {<<"marketing", "campaigns">>})])

\* marketing/dashboard
MarketingDashboardPage == View(
  {Rows(<<"marketing", "dashboard">>, {"marketing/dashboard"})})

\* marketing/emails/[id]
EmailTemplateEditPage == View(
  {Row(<<"marketing", "email-template", "id">>, "marketing/email-templates")})

\* marketing/emails/[id]
EditCardPress == [importMutation |-> "guarded", save |-> "guarded", del |-> "asked",
  testSend |-> "guarded"]
EditCard == Screen(EditCardPress,
  {Row(<<"me">>, "auth/me")},
  [importMutation |-> Op({One(Probe)}, {}),
   save |-> Op({One(UpdateEmailTemplate)},
               {<<"marketing", "email-template", "id">>, <<"marketing", "email-templates">>}),
   del |-> Leaving(Op({One(DeleteEmailTemplate)}, {})),
   testSend |-> Op({One(Probe)}, {})])

\* marketing/emails
TemplatesTab == Screen([create |-> "guarded", del |-> "asked"],
  {Rows(<<"marketing", "email-templates">>, {"marketing/email-templates"})},
  [create |-> Leaving(Op({One(CreateEmailTemplate)},
                         {<<"marketing", "email-templates">>})),
   del |-> Op({One(DeleteEmailTemplate)}, {<<"marketing", "email-templates">>})])

\* marketing/emails
UnsubscribesTab == Screen([add |-> "guarded", del |-> "asked"],
  {Rows(<<"marketing", "unsubscribes">>, {"marketing/unsubscribes"})},
  [add |-> Op({One(AddUnsubscribe)}, {<<"marketing", "unsubscribes">>}),
   del |-> Op({One(RemoveUnsubscribe)}, {<<"marketing", "unsubscribes">>})])

\* marketing/google-ads
GoogleAdsPage == Screen([sync |-> "guarded"],
  {Rows(<<"marketing", "campaigns", "filter">>, {"marketing/campaigns"})},
  [sync |-> Op({One(SyncCampaign)},
               {<<"marketing", "campaigns">>})])

\* marketing/segments
SegmentsPage == Screen([del |-> "asked"],
  {Rows(<<"marketing", "segments">>, {"marketing/segments"})},
  [del |-> Op({One(DeleteSegment)}, {<<"marketing", "segments">>})])

\* marketing/segments
SegmentDialogPress == [save |-> "guarded"]
SegmentDialogQueries ==
  {Rows(<<"customer-contacts", "all-for-segment">>, {"customer-contacts"}),
   Rows(<<"customers", "all-for-segment">>, {"customers"}),
   Rows(<<"developers", "full-time-active", "for-segment">>, {"developers"}),
   Row(<<"tenants", "me">>, "tenants")}
SegmentDialog == Screen(SegmentDialogPress, SegmentDialogQueries,
  [save |-> Op({One(UpdateSegment), One(CreateSegment)},
               {<<"marketing", "segments">>})])

\* marketing/segments
PreviewDialog == View(
  {Rows(<<"marketing", "segments", "id", "recipients">>, {"marketing/segments",
         "customer-contacts", "marketing/unsubscribes"})})

\* opportunities/[id]
OpportunityDetailPagePress == [updateM |-> "open", deleteM |-> "guarded"]
OpportunityDetailPage == Screen(OpportunityDetailPagePress,
  {Row(<<"opportunity", "id">>, "opportunities"),
   Rows(<<"customers">>, {"customers"}),
   Rows(<<"developers-active">>, {"developers"})},
  [updateM |-> Op({One(UpdateOpportunity)},
                  {<<"opportunities">>, <<"opportunities-summary">>, <<"opportunity", "id">>}),
   deleteM |-> Leaving(Op({One(DeleteOpportunity)},
                          {<<"opportunities">>, <<"opportunities-summary">>}))])

\* opportunities/[id]
StageControl == Screen([mutate |-> "guarded"],
  {},
  [mutate |-> Op({One(UpdateOpportunity)},
                 {<<"opportunities">>, <<"opportunities-summary">>, <<"opportunity", "id">>})])

\* opportunities/[id]
ActivitiesSectionPress == [addM |-> "guarded", updateM |-> "guarded", delM |-> "asked"]
ActivitiesSection == Screen(ActivitiesSectionPress,
  {},
  [addM |-> Op({One(CreateActivity)}, {<<"opportunity", "id">>}),
   updateM |-> Op({One(UpdateActivity)}, {<<"opportunity", "id">>}),
   delM |-> Op({One(DeleteActivity)}, {<<"opportunity", "id">>})])

\* opportunities/[id]
OpportunitiesDetailAttachmentsSectionPress == [uploadM |-> "asked", deleteM |-> "asked",
  renameM |-> "asked"]
OpportunitiesDetailAttachmentsSection == Screen(OpportunitiesDetailAttachmentsSectionPress,
  {Rows(<<"opportunity-attachments", "id">>, {"opportunities/attachments"})},
  [uploadM |-> Op({Each(UploadOpportunityAttachment)},
                  {<<"opportunity-attachments", "id">>}),
   deleteM |-> Op({One(DeleteOpportunityAttachment)}, {<<"opportunity-attachments", "id">>}),
   renameM |-> Op({One(UpdateOpportunityAttachment)},
                  {<<"opportunity-attachments", "id">>})])

\* opportunities/[id]
OpportunitiesDetailMemoEditor == Screen([saveM |-> "guarded"],
  {},
  [saveM |-> Op({One(UpdateOpportunity)}, {<<"opportunity", "id">>})])

\* opportunities
OpportunitiesPagePress == [createM |-> "open", updateM |-> "open"]
OpportunitiesPage == Screen(OpportunitiesPagePress,
  {Fresh(Rows(<<"opportunities", "filter", "filter">>, {"opportunities"})),
   Fresh(Rows(<<"opportunities-summary", "filter">>, {"opportunities"})),
   Rows(<<"customers">>, {"customers"}),
   Rows(<<"developers-active">>, {"developers"}),
   Rows(<<"fx">>, {"exchange/current"})},
  [createM |-> Op({One(CreateOpportunity)},
                  {<<"opportunities", "filter">>, <<"opportunities-summary", "filter">>}),
   updateM |-> Op({One(UpdateOpportunity)},
                  {<<"opportunities", "filter">>, <<"opportunities-summary", "filter">>,
                   <<"opportunity", "id">>})])

\* support-cases/[id]
SupportCaseDetailPagePress == [uploadM |-> "asked", statusM |-> "guarded",
  renameAttachment |-> "asked", deleteAttachment |-> "asked"]
SupportCaseDetailPage == Screen(SupportCaseDetailPagePress,
  {Row(<<"support-case", "filter">>, "support-cases"),
   Row(<<"me">>, "auth/me")},
  [uploadM |-> Op({One(UploadCaseAttachments)}, {<<"support-case", "filter">>}),
   statusM |-> Op({One(UpdateCase)},
                  {<<"support-case", "filter">>, <<"support-cases">>, <<"support-cases-stats">>}),
   renameAttachment |-> Op({One(RenameCaseAttachment)}, {<<"support-case", "filter">>}),
   deleteAttachment |-> Op({One(DeleteCaseAttachment)}, {<<"support-case", "filter">>})])

\* support-cases
SupportCasesPagePress == [saveM |-> "guarded", deleteM |-> "asked"]
SupportCasesPage == Screen(SupportCasesPagePress,
  {Rows(<<"support-cases-stats", "filter">>, {"support-cases"}),
   Rows(<<"support-cases", "filter">>, {"support-cases"}),
   Rows(<<"customers", "support-cases">>, {"customers"}),
   Rows(<<"projects-picker", "support-cases">>, {"projects"}),
   Rows(<<"developers-directory", "FULL_TIME">>, {"developers"})},
  [saveM |-> Op({One(UpdateCase) \o One(UploadCaseAttachments),
                 One(UpdateCase),
                 One(CreateCase) \o One(UploadCaseAttachments),
                 One(CreateCase)},
                {<<"support-cases">>}),
   deleteM |-> Op({Together(DeleteCase)}, {<<"support-cases">>})])

\* support-cases
SupportCasesVendorCombobox == View(
  {Rows(<<"catalog", "vendors", "active">>, {"catalog/vendors"})})

\* support-logs/[id]
SupportLogDetailPagePress == [uploadM |-> "asked", renameAttachment |-> "asked",
  deleteAttachment |-> "asked"]
SupportLogDetailPage == Screen(SupportLogDetailPagePress,
  {Row(<<"support-log", "id">>, "support-logs"),
   Row(<<"me">>, "auth/me")},
  [uploadM |-> Op({One(UploadLogAttachments)}, {<<"support-log", "id">>}),
   renameAttachment |-> Op({One(RenameLogAttachment)}, {<<"support-log", "id">>}),
   deleteAttachment |-> Op({One(DeleteLogAttachment)}, {<<"support-log", "id">>})])

\* support-logs
SupportLogsPagePress == [saveM |-> "guarded", deleteM |-> "asked"]
SupportLogsPage == Screen(SupportLogsPagePress,
  {Rows(<<"support-logs", "filter", "filter">>, {"support-logs"}),
   Rows(<<"support-logs-stats", "filter", "filter">>, {"support-logs"}),
   Rows(<<"support-logs-charts", "filter">>, {"support-logs"}),
   Rows(<<"customers", "support-logs">>, {"customers"}),
   Rows(<<"projects-picker", "support-logs">>, {"projects"}),
   Rows(<<"developers-directory", "FULL_TIME">>, {"developers"})},
  [saveM |-> Op({One(UpdateLog) \o One(UploadLogAttachments),
                 One(UpdateLog),
                 One(CreateLog) \o One(UploadLogAttachments),
                 One(CreateLog)},
                {<<"support-logs">>}),
   deleteM |-> Op({Together(DeleteLog)}, {<<"support-logs">>})])

\* support-logs
SupportLogsVendorCombobox == View(
  {Rows(<<"catalog", "vendors", "active">>, {"catalog/vendors"})})

\* components/announcements/AnnouncementDashboardCards
AnnouncementDashboardCards == View(
  {Rows(<<"announcement-summary">>, {"announcements"}),
   Rows(<<"announcement-bookmarks-upcoming">>, {"announcements"})})

\* components/announcements/AnnouncementDetailDrawer
AnnouncementDetailDrawerPress == [convertM |-> "guarded"]
AnnouncementDetailDrawer == Screen(AnnouncementDetailDrawerPress,
  {Row(<<"announcement-detail", "id">>, "announcements")},
  [convertM |-> Op({One(CreateOpportunity) \o One(PatchAnnouncement)},
                   {<<"announcement-detail">>, <<"announcements">>, <<"opportunities">>})])

\* components/catalog/CatalogTriple
CatalogTriple == View(
  {Rows(<<"catalog", "vendors", "active">>, {"catalog/vendors"}),
   Rows(<<"catalog", "products", "id", "active">>, {"catalog/products"}),
   Rows(<<"catalog", "versions", "id", "active">>, {"catalog/versions"})})

\* components/catalog/MultiProductPicker
MultiProductPicker == View(
  {Rows(<<"catalog", "vendors", "active">>, {"catalog/vendors"}),
   Rows(<<"catalog", "products", "id", "active">>, {"catalog/products"}),
   Rows(<<"catalog", "versions", "id", "active">>, {"catalog/versions"})})

\* components/customers/CustomerActivityDrawer
CustomerActivityDrawerPress == [createM |-> "guarded", updateM |-> "guarded", deleteM |-> "asked"]
CustomerActivityDrawer == Screen(CustomerActivityDrawerPress,
  {Rows(<<"customer-interactions", "id", "filter">>, {"customer-interactions"})},
  [createM |-> Op({One(CreateInteraction) \o Each(UploadInteractionAttachment)},
                  {<<"customer-interactions", "id">>}),
   updateM |-> Op({One(UpdateInteraction)}, {<<"customer-interactions", "id">>}),
   deleteM |-> Op({One(DeleteInteraction)}, {<<"customer-interactions", "id">>})])

\* components/customers/CustomerActivityDrawer
InteractionFormPress == [uploadM |-> "guarded", deleteAttM |-> "open"]
InteractionForm == Screen(InteractionFormPress,
  {},
  [uploadM |-> Op({Each(UploadInteractionAttachment)}, {<<"customer-interactions", "id">>}),
   deleteAttM |-> Op({One(DeleteInteractionAttachment)}, {<<"customer-interactions", "id">>})])

\* components/customers/CustomerActivityDrawer
ParticipantsPicker == View(
  {Rows(<<"customer-contacts", "by-customer", "id">>, {"customer-contacts"}),
   Rows(<<"customer-contacts", "all">>, {"customer-contacts"}),
   Rows(<<"developers", "directory">>, {"developers"})})

\* components/support/CommentsBlock: the comments of whatever mounts it.
CommentsBlockPress == [addM |-> "guarded", editM |-> "guarded", deleteM |-> "asked"]
CommentsBlock(add, edit, drop, invalidateKey) == Screen(CommentsBlockPress,
  {},
  [addM |-> Op({One(add)}, {invalidateKey}),
   editM |-> Op({One(edit)}, {invalidateKey}),
   deleteM |-> Op({One(drop)}, {invalidateKey})])

\* support-cases/[id]
CaseComments ==
  CommentsBlock(AddCaseComment, EditCaseComment, DeleteCaseComment, <<"support-case", "filter">>)

\* support-logs/[id]
LogComments ==
  CommentsBlock(AddLogComment, EditLogComment, DeleteLogComment, <<"support-log", "id">>)

\* employees/[id]
InterviewComments ==
  CommentsBlock(AddInterview, EditInterview, DeleteInterview, <<"developer-interviews", "id">>)


=============================================================================
