--------------------------- MODULE BusinessRoutes ---------------------------
(***************************************************************************)
(* The handlers of assets, money, contracts, customers and sales by which  *)
(* the screens make, change and drop things: what a request does, and, when *)
(* it makes a thing, what becomes of it when the very thing is there       *)
(* already.  A file put into a slot, or into a column of a row, replaces   *)
(* what was there: that is a change, and so is a row that is marked as gone *)
(* and stays.                                                              *)
(***************************************************************************)
EXTENDS ScreenTerms

---------------------------------------------------------------------------
(* Assets, money and contracts.                                            *)

CreateAsset == Make("assets")
UploadAssetPhoto == Change("assets/photo")
DeleteAssetPhoto == Change("assets/photo")
UpdateAsset == Change("assets")
DeleteAsset == Change("assets")

CreateBankAccount == Make("bank-accounts")
UploadPassbook == Change("bank-accounts")
UpdateBankAccount == Change("bank-accounts")
DeleteBankAccount == Change("bank-accounts")
TogglePrimary == Change("bank-accounts")
DeletePassbook == Change("bank-accounts")

\* on_conflict_do_nothing: a line that is there is skipped.
UploadCsv == Kept(Make("bank-accounts/transactions"))
UpdateTransactionMemo == Change("bank-accounts/transactions")

CreateBook == Make("books")
UpdateBook == Change("books")
DeleteBook == Drop("books")

CreateBudgetCalcPlan == Make("budget-calc")
DuplicateBudgetCalcPlan == Make("budget-calc")
ReplaceBudgetCalcLines == Change("budget-calc")
DeleteBudgetCalcPlan == Drop("budget-calc")

CreateCar == Make("company-cars")
\* One file a slot.
UploadCarAttachment == Change("company-cars")
UpdateCar == Change("company-cars")
DeleteCar == Drop("company-cars")
RenameCarAttachment == Change("company-cars")
DeleteCarAttachment == Change("company-cars")

CreateAlertRule == Make("cloud-costs/alerts")
UpdateAlertRule == Change("cloud-costs/alerts")
DeleteAlertRule == Drop("cloud-costs/alerts")
EvaluateRuleNow == Change("cloud-costs/alerts")

CreateDomain == Unique(Make("domains"))
UpdateDomain == Change("domains")
DeleteDomain == Drop("domains")

CreateInsurance == Make("company-insurances")
UploadInsuranceAttachment == Add("company-insurances")
UpdateInsurance == Change("company-insurances")
DeleteInsurance == Drop("company-insurances")
RenameInsuranceAttachment == Change("company-insurances")
DeleteInsuranceAttachment == Change("company-insurances")

CreateQuote == Make("quotes")
CopyQuote == Make("quotes")
CreateInvoice == Make("invoices")
CopyInvoice == Make("invoices")
SaveInvoice == Change("invoices")
DeleteInvoice == Drop("invoices")
FinalizeInvoice == Change("invoices")
UnfinalizeInvoice == Change("invoices")
SaveQuote == Change("quotes")
DeleteQuote == Drop("quotes")
FinalizeQuote == Change("quotes")
UnfinalizeQuote == Change("quotes")
UpdateCompanyProfile == Change("company-profile")
UploadLogo == Change("company-profile")
UploadStamp == Change("company-profile")
UploadSeal == Change("company-profile")
DeleteLogo == Change("company-profile")
DeleteStamp == Change("company-profile")
DeleteSeal == Change("company-profile")

CreateLoan == Make("loans")
UploadLoanAttachment == Add("loans")
UpdateLoan == Change("loans")
DeleteLoan == Change("loans")
UpdateLoanAttachment == Change("loans")
DeleteLoanAttachment == Change("loans")

CreatePatent == Make("patents")
UploadPatentAttachment == Add("patents")
DeletePatent == Drop("patents")
UpdatePatent == Change("patents")
RenamePatentAttachment == Change("patents")
DeletePatentAttachment == Change("patents")

\* One run a month.
CreateRun == Unique(Make("payroll/runs"))
\* An employee who is in the run is skipped.
AddItems == Kept(Make("payroll/items"))
CopyFromPreviousMonth == Change("payroll/items")
UploadTaxTable == Make("payroll/tax-tables")
DistributePayrollItem == Make("payroll/runs/distributions")
UpdateItem == Change("payroll/items")
RecomputeRun == Change("payroll/runs")
FinalizeRun == Change("payroll/runs")
UnfinalizeRun == Change("payroll/runs")
MarkPaid == Change("payroll/runs")
DeleteItems == Drop("payroll/items")
DeleteRun == Drop("payroll/runs")
DeleteTaxTable == Drop("payroll/tax-tables")

CreateRndBudgetPlan == Make("rnd-budgets")
DuplicateRndBudgetPlan == Make("rnd-budgets")
ReplaceRndBudgetLines == Change("rnd-budgets")
ReplacePersonnel == Change("rnd-budgets")
UpdateRndBudgetPlan == Change("rnd-budgets")
DeleteRndBudgetPlan == Drop("rnd-budgets")

\* One row an address.
CreateServerHosting == Unique(Make("server-hostings"))
UpdateServerHosting == Change("server-hostings")
DeleteServerHosting == Drop("server-hostings")

CreateCode == Unique(Make("account-codes"))
\* Codes that are there are skipped.
SeedAccountCodes == Kept(Make("account-codes"))
UpdateCode == Change("account-codes")
DeleteCode == Drop("account-codes")

CreateBill == Make("vendor-bills")
UploadBillAttachments == Add("vendor-bills")
UpdateBill == Change("vendor-bills")
DeleteBillAttachment == Change("vendor-bills")
DeleteBill == Drop("vendor-bills")

BackfillItems == Change("tax-invoices")
PatchTaxInvoice == Change("tax-invoices")

---------------------------------------------------------------------------
(* Customers, sales and support.                                           *)

\* A bookmark that is there gets the new memo.
AddAnnouncementBookmark == Upsert(Add("announcements"))
PatchAnnouncement == Change("announcements")
PatchSource == Change("announcements/sources")
RemoveAnnouncementBookmark == Change("announcements")

CreateVendor == Unique(Make("catalog/vendors"))
CreateProduct == Unique(Make("catalog/products"))
CreateVersion == Unique(Make("catalog/versions"))
UpdateVendor == Change("catalog/vendors")
DeleteVendor == Drop("catalog/vendors")
UpdateProduct == Change("catalog/products")
DeleteProduct == Drop("catalog/products")
UpdateVersion == Change("catalog/versions")
DeleteVersion == Drop("catalog/versions")

\* One customer a business number or name.
CreateCustomer == Unique(Make("customers"))
\* The one certificate and the one bankbook of a customer.
UploadCustomerAttachment == Change("customers")
AddContact == Add("customers")
RemoveContact == Change("customers")
DeleteCustomer == Drop("customers")
UpdateCustomer == Change("customers")
UpdateContact == Change("customers")
DeleteBusinessLicense == Change("customers")
DeleteBankAccountCopy == Change("customers")

CreateCustomerContact == Make("customer-contacts")
UpdateCustomerContact == Change("customer-contacts")
DeleteCustomerContact == Drop("customer-contacts")

CreateEntry == Make("customer-status")
UploadEntryAttachments == Add("customer-status")
UpdateEntry == Change("customer-status")
DeleteEntry == Drop("customer-status")
RenameEntryAttachment == Change("customer-status")
DeleteEntryAttachment == Change("customer-status")

CreateInteraction == Make("customer-interactions")
UploadInteractionAttachment == Add("customer-interactions")
UpdateInteraction == Change("customer-interactions")
DeleteInteraction == Drop("customer-interactions")
DeleteInteractionAttachment == Change("customer-interactions")

CreateKbEntry == Make("kb-entries")
UploadKbAttachments == Add("kb-entries")
UpdateKbEntry == Change("kb-entries")
DeleteKbAttachment == Change("kb-entries")
DeleteKbEntry == Drop("kb-entries")

CreateLicense == Make("licenses")
UploadQuote == Add("licenses")
DeleteLicenseQuote == Change("licenses")
UpdateLicenseQuote == Change("licenses")
UpdateLicense == Change("licenses")
DeleteLicense == Drop("licenses")
SaveQuoteItems == Change("licenses/quote-items")

CreateCampaign == Make("marketing/campaigns")
UpdateCampaign == Change("marketing/campaigns")
DeleteCampaign == Drop("marketing/campaigns")
SendCampaign == Change("marketing/campaigns")

CreateEmailTemplate == Make("marketing/email-templates")
UpdateEmailTemplate == Change("marketing/email-templates")
DeleteEmailTemplate == Drop("marketing/email-templates")

CreateSegment == Make("marketing/segments")
DeleteSegment == Drop("marketing/segments")
UpdateSegment == Change("marketing/segments")

\* on_conflict_do_update: one row a campaign and a day.
UpsertMetric == Upsert(Make("marketing/google-ads/campaigns/metrics"))
SyncCampaign == Change("marketing/google-ads/campaigns/metrics")

\* An address that is there is answered.
AddUnsubscribe == Kept(Make("marketing/unsubscribes"))
RemoveUnsubscribe == Drop("marketing/unsubscribes")

CreateOpportunity == Make("opportunities")
CreateActivity == Add("opportunities")
UploadOpportunityAttachment == Make("opportunities/attachments")
UpdateOpportunity == Change("opportunities")
DeleteOpportunity == Drop("opportunities")
UpdateActivity == Change("opportunities")
DeleteActivity == Change("opportunities")
DeleteOpportunityAttachment == Drop("opportunities/attachments")
UpdateOpportunityAttachment == Change("opportunities/attachments")

CreateCase == Make("support-cases")
UploadCaseAttachments == Add("support-cases")
AddCaseComment == Add("support-cases")
UpdateCase == Change("support-cases")
DeleteCase == Drop("support-cases")
RenameCaseAttachment == Change("support-cases")
DeleteCaseAttachment == Change("support-cases")
EditCaseComment == Change("support-cases")
DeleteCaseComment == Change("support-cases")

CreateLog == Make("support-logs")
UploadLogAttachments == Add("support-logs")
UpdateLog == Change("support-logs")
DeleteLog == Drop("support-logs")
RenameLogAttachment == Change("support-logs")
DeleteLogAttachment == Change("support-logs")
AddLogComment == Add("support-logs")
EditLogComment == Change("support-logs")
DeleteLogComment == Change("support-logs")

---------------------------------------------------------------------------
(* Fetching from elsewhere: the rows, and the record of the fetch.         *)

FetchAnnouncements == {One(Upsert(Make("announcements"))), One(Make("announcements/runs"))}
FetchCloudCosts == {One(Upsert(Make("cloud-costs"))), One(Make("cloud-costs/fetches"))}
FetchTaxInvoices == {One(Upsert(Make("tax-invoices"))), One(Make("tax-invoices/fetches"))}

=============================================================================
