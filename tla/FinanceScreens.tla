--------------------------- MODULE FinanceScreens ---------------------------
(***************************************************************************)
(* The screens of invoices and quotations, tax invoices, purchases, bank   *)
(* accounts, loans, insurance, payroll, budgets, assets, cars, patents,    *)
(* cloud costs and rates.                                                  *)
(*                                                                         *)
(* One definition per component that asks for data or writes it; the       *)
(* comment above it is its file under app/(dashboard) or the frontend.     *)
(***************************************************************************)
EXTENDS BusinessRoutes

\* assets/[id]
AssetDetailPagePress == [uploadM |-> "guarded", deletePhotoM |-> "guarded"]
AssetDetailPage == Screen(AssetDetailPagePress,
  {Row(<<"asset", "id">>, "assets"),
   Row(<<"asset-photo", "id", "filter">>, "assets/photo")},
  [uploadM |-> Op({One(UploadAssetPhoto)}, {<<"asset", "id">>, <<"asset-photo", "id">>}),
   deletePhotoM |-> Op({One(DeleteAssetPhoto)}, {<<"asset", "id">>, <<"asset-photo", "id">>})])

\* assets
AssetsPagePress == [createM |-> "open", updateM |-> "open", deleteM |-> "asked"]
\* Mutated form of AssetsPage: a new asset refreshes nothing.
AssetsPageForgetful == Screen(AssetsPagePress,
  {Rows(<<"assets", "filter", "filter", "filter", "filter", "filter">>, {"assets"}),
   Rows(<<"devs-directory-all">>, {"developers"})},
  [createM |-> Op({One(CreateAsset)}, {}),
   updateM |-> Op({One(UpdateAsset)}, {<<"assets">>}),
   deleteM |-> Op({Together(DeleteAsset)}, {<<"assets">>})])

AssetsPage == Screen(AssetsPagePress,
  {Rows(<<"assets", "filter", "filter", "filter", "filter", "filter">>, {"assets"}),
   Rows(<<"devs-directory-all">>, {"developers"})},
  [createM |-> Op({One(CreateAsset)}, {<<"assets">>}),
   updateM |-> Op({One(UpdateAsset)}, {<<"assets">>}),
   deleteM |-> Op({Together(DeleteAsset)}, {<<"assets">>})])

\* assets/scan/[no]
AssetScanPage == View(
  {Row(<<"asset-by-number", "filter">>, "assets")})

\* bank-accounts/[id]
BankTransactionsPage == View(
  {Rows(<<"bank-tx", "id", "filter", "filter">>, {"bank-accounts/transactions"})})

\* bank-accounts/[id]
UploadDialogPress == [uploadM |-> "guarded"]
UploadDialog == Screen(UploadDialogPress,
  {},
  [uploadM |-> Op({One(UploadCsv)}, {<<"bank-tx", "id">>})])

\* bank-accounts/[id]
TxDetailDialog == Screen([saveM |-> "guarded"],
  {},
  [saveM |-> Op({One(UpdateTransactionMemo)}, {<<"bank-tx", "id">>})])

\* bank-accounts
\* Mutated form of BankAccountsPagePress: its save button is not disabled.
BankAccountsPagePressOpen == [createM |-> "open", updateM |-> "guarded", deleteM |-> "asked",
  togglePrimaryM |-> "open"]

BankAccountsPagePress == [createM |-> "guarded", updateM |-> "guarded", deleteM |-> "asked",
  togglePrimaryM |-> "open"]
BankAccountsPage == Screen(BankAccountsPagePress,
  {Rows(<<"bank-accounts", "filter", "filter">>, {"bank-accounts"})},
  [createM |-> Op({One(CreateBankAccount) \o One(UploadPassbook),
                   One(CreateBankAccount)},
                  {<<"bank-accounts">>}),
   updateM |-> Op({One(UpdateBankAccount)}, {<<"bank-accounts">>}),
   deleteM |-> Op({Together(DeleteBankAccount)}, {<<"bank-accounts">>}),
   togglePrimaryM |-> Op({One(TogglePrimary)}, {<<"bank-accounts">>})])

\* bank-accounts
ExistingPassbook == Screen([uploadM |-> "guarded", renameM |-> "open", deleteM |-> "asked"],
  {},
  [uploadM |-> Op({One(UploadPassbook)}, {<<"bank-accounts">>}),
   renameM |-> Op({One(UpdateBankAccount)}, {<<"bank-accounts">>}),
   deleteM |-> Op({One(DeletePassbook)}, {<<"bank-accounts">>})])

\* books
BooksPagePress == [saveM |-> "guarded", deleteM |-> "asked"]
BooksPage == Screen(BooksPagePress,
  {Row(<<"me">>, "auth/me"),
   Rows(<<"books", "filter">>, {"books"}),
   Rows(<<"developers", "directory", "FULL_TIME">>, {"developers"})},
  [saveM |-> Op({One(UpdateBook), One(CreateBook)}, {<<"books">>}),
   deleteM |-> Op({Together(DeleteBook)}, {<<"books">>})])

\* budget-calc
BudgetCalcPage == Screen([deletePlan |-> "asked"],
  {Rows(<<"budget-calc-plans">>, {"budget-calc"})},
  [deletePlan |-> Op({One(DeleteBudgetCalcPlan)}, {<<"budget-calc-plans">>})])

\* budget-calc
BudgetCalcEditorPress == [saveM |-> "guarded"]
BudgetCalcEditorQueries ==
  {Row(<<"budget-calc-plan", "id">>, "budget-calc"),
   Rows(<<"budget-calc-plans-year", "filter">>, {"budget-calc"}),
   Row(<<"budget-calc-plan-last", "id">>, "budget-calc"),
   Rows(<<"account-codes", "EXPENSE">>, {"account-codes"})}
BudgetCalcEditor == Screen(BudgetCalcEditorPress, BudgetCalcEditorQueries,
  [saveM |-> Op({One(ReplaceBudgetCalcLines)},
                {<<"budget-calc-plan", "id">>, <<"budget-calc-plans">>})])

\* budget-calc
BudgetCalcCreatePlanDialog == Screen([createM |-> "guarded"],
  {},
  [createM |-> Op({One(CreateBudgetCalcPlan), One(DuplicateBudgetCalcPlan)},
                  {<<"budget-calc-plans">>})])

\* cars
CarsPagePress == [saveM |-> "guarded", deleteM |-> "asked"]
CarsPage == Screen(CarsPagePress,
  {Rows(<<"company-cars">>, {"company-cars"}),
   Rows(<<"developers-active">>, {"developers"})},
  [saveM |-> Op({One(UpdateCar), One(CreateCar)}, {<<"company-cars">>}),
   deleteM |-> Op({One(DeleteCar)}, {<<"company-cars">>})])

\* cars
AttachmentSlotEditor == Screen([uploadM |-> "asked", renameM |-> "asked", deleteM |-> "asked"],
  {},
  [uploadM |-> Op({One(UploadCarAttachment)}, {<<"company-cars">>}),
   renameM |-> Op({One(RenameCarAttachment)}, {<<"company-cars">>}),
   deleteM |-> Op({One(DeleteCarAttachment)}, {<<"company-cars">>})])

\* cloud-costs
CloudCostsPagePress == [fetchM |-> "guarded"]
CloudCostsPage == Screen(CloudCostsPagePress,
  {Rows(<<"cloud-cost-summary", "filter", "filter">>, {"cloud-costs"}),
   Rows(<<"cloud-cost-fetches">>, {"cloud-costs/fetches"})},
  [fetchM |-> Op(FetchCloudCosts,
                 {<<"cloud-cost-fetches">>, <<"cloud-cost-summary">>})])

\* domains
DomainsPagePress == [saveM |-> "guarded", deleteM |-> "asked"]
DomainsPage == Screen(DomainsPagePress,
  {Row(<<"me">>, "auth/me"),
   Rows(<<"domains">>, {"domains"})},
  [saveM |-> Op({One(UpdateDomain), One(CreateDomain)}, {<<"domains">>}),
   deleteM |-> Op({Together(DeleteDomain)}, {<<"domains">>})])

\* insurances
InsurancesPagePress == [saveM |-> "guarded", deleteM |-> "asked"]
InsurancesPage == Screen(InsurancesPagePress,
  {Rows(<<"company-insurances">>, {"company-insurances"})},
  [saveM |-> Op({One(UpdateInsurance), One(CreateInsurance)},
                {<<"company-insurances">>}),
   deleteM |-> Op({One(DeleteInsurance)}, {<<"company-insurances">>})])

\* insurances
AttachmentsEditor == Screen([uploadM |-> "asked", renameM |-> "asked", deleteM |-> "asked"],
  {},
  [uploadM |-> Op({Each(UploadInsuranceAttachment)}, {<<"company-insurances">>}),
   renameM |-> Op({One(RenameInsuranceAttachment)}, {<<"company-insurances">>}),
   deleteM |-> Op({One(DeleteInsuranceAttachment)}, {<<"company-insurances">>})])

\* invoices/[id]
InvoiceDetailPagePress == [saveM |-> "guarded", copyM |-> "asked", deleteM |-> "asked",
  finalizeM |-> "asked", unfinalizeM |-> "asked"]
InvoiceDetailPage == Screen(InvoiceDetailPagePress,
  {Fresh(Row(<<"invoice", "id">>, "invoices")),
   Rows(<<"customers">>, {"customers"}),
   Rows(<<"invoice-versions", "id">>, {"invoices"})},
  [saveM |-> Setting(Op({One(SaveInvoice)},
                        {<<"invoice-versions", "id">>, <<"invoices">>}), {<<"invoice", "id">>}),
   copyM |-> Leaving(Op({One(CopyInvoice)}, {})),
   deleteM |-> Leaving(Op({One(DeleteInvoice)}, {<<"invoices">>})),
   finalizeM |-> Setting(Op({One(FinalizeInvoice)}, {<<"invoices">>}), {<<"invoice", "id">>}),
   unfinalizeM |-> Setting(Op({One(UnfinalizeInvoice)}, {<<"invoices">>}), {<<"invoice", "id">>})])

\* invoices/new
NewInvoicePagePress == [createM |-> "guarded"]
NewInvoicePage == Screen(NewInvoicePagePress,
  {Rows(<<"customers">>, {"customers"})},
  [createM |-> Leaving(Op({One(CreateInvoice)}, {<<"invoices">>}))])

\* invoices
InvoicesPagePress == [copyM |-> "open", deleteM |-> "asked"]
InvoicesPage == Screen(InvoicesPagePress,
  {Rows(<<"invoices", "filter", "filter">>, {"invoices"}),
   Rows(<<"customers">>, {"customers"})},
  [copyM |-> Leaving(Op({One(CopyInvoice)}, {<<"invoices">>})),
   deleteM |-> Op({Together(DeleteInvoice)}, {<<"invoices">>})])

\* loans
LoansPagePress == [createM |-> "guarded", updateM |-> "guarded", deleteM |-> "asked"]
LoansPage == Screen(LoansPagePress,
  {Rows(<<"loans", "filter", "filter">>, {"loans"}),
   Rows(<<"bank-accounts", "active">>, {"bank-accounts"})},
  [createM |-> Op({One(CreateLoan) \o Together(UploadLoanAttachment), One(CreateLoan)},
                  {<<"loans">>}),
   updateM |-> Op({One(UpdateLoan)}, {<<"loans">>}),
   deleteM |-> Op({Together(DeleteLoan)}, {<<"loans">>})])

\* loans
ExistingAttachments == Screen([uploadM |-> "guarded", renameM |-> "open", removeM |-> "asked"],
  {},
  [uploadM |-> Op({Together(UploadLoanAttachment)}, {<<"loans">>}),
   renameM |-> Op({One(UpdateLoanAttachment)}, {<<"loans">>}),
   removeM |-> Op({One(DeleteLoanAttachment)}, {<<"loans">>})])

\* patents
PatentsPagePress == [handleDelete |-> "asked"]
PatentsPage == Screen(PatentsPagePress,
  {Rows(<<"patents", "filter">>, {"patents"})},
  [handleDelete |-> Op({Together(DeletePatent)}, {<<"patents">>})])

\* patents
PatentFormDialogPress == [saveM |-> "guarded", uploadFiles |-> "asked",
  renameAttachment |-> "asked", deleteAttachment |-> "asked"]
PatentFormDialog == Screen(PatentFormDialogPress,
  {},
  [saveM |-> Op({One(CreatePatent), One(UpdatePatent)}, {<<"patents">>}),
   uploadFiles |-> Op({Each(UploadPatentAttachment)}, {<<"patents">>}),
   renameAttachment |-> Op({One(RenamePatentAttachment)}, {}),
   deleteAttachment |-> Op({One(DeletePatentAttachment)}, {<<"patents">>})])

\* payroll/[id]
PayrollDetailPagePress == [saveM |-> "guarded", recomputeM |-> "guarded",
  finalizeM |-> "guarded", unfinalizeM |-> "asked", payM |-> "asked", addItemsM |-> "guarded",
  deleteItemsM |-> "guarded", distributeM |-> "guarded", copyFromPrevM |-> "guarded"]
PayrollDetailPageQueries ==
  {Fresh(Row(<<"payroll-run", "id">>, "payroll/runs")),
   Fresh(Rows(<<"payroll-items", "id">>, {"payroll/items"})),
   Row(<<"company-profile">>, "company-profile"),
   Rows(<<"payroll-distributions", "id">>, {"payroll/runs/distributions"})}
PayrollDetailPageToolbar ==
  [distributeM |-> Op({One(DistributePayrollItem)},
                      {<<"payroll-distributions", "id">>}),
   copyFromPrevM |-> Op({One(CopyFromPreviousMonth)},
                        {<<"payroll-items", "id">>, <<"payroll-run", "id">>})]
PayrollDetailPage == Screen(PayrollDetailPagePress, PayrollDetailPageQueries,
  [saveM |-> Op({Each(UpdateItem)},
                {<<"payroll-items", "id">>, <<"payroll-run", "id">>}),
   recomputeM |-> Op({One(RecomputeRun)},
                     {<<"payroll-items", "id">>, <<"payroll-run", "id">>}),
   finalizeM |-> Op({One(FinalizeRun)}, {<<"payroll-run", "id">>}),
   unfinalizeM |-> Op({One(UnfinalizeRun)}, {<<"payroll-run", "id">>}),
   payM |-> Op({One(MarkPaid)}, {<<"payroll-run", "id">>}),
   addItemsM |-> Op({One(AddItems)},
                    {<<"payroll-available-devs", "id">>, <<"payroll-items", "id">>,
                     <<"payroll-run", "id">>}),
   deleteItemsM |-> Op({One(DeleteItems)},
                       {<<"payroll-items", "id">>, <<"payroll-run", "id">>})]
  @@ PayrollDetailPageToolbar)

\* payroll/[id]
AddEmployeeDialog == View(
  {Fresh(Rows(<<"payroll-available-devs", "id">>, {"developers", "payroll/items"}))})

\* payroll
PayrollListPagePress == [deleteM |-> "asked"]
PayrollListPage == Screen(PayrollListPagePress,
  {Rows(<<"payroll-runs", "filter">>, {"payroll/runs"})},
  [deleteM |-> Op({One(DeleteRun)}, {<<"payroll-runs">>})])

\* payroll
AddRunDialog == Screen([createM |-> "guarded"],
  {},
  [createM |-> Op({One(CreateRun)}, {})])

\* quotes/[id]
QuoteDetailPagePress == [saveM |-> "guarded", copyM |-> "asked", deleteM |-> "asked",
  finalizeM |-> "asked", unfinalizeM |-> "asked"]
QuoteDetailPage == Screen(QuoteDetailPagePress,
  {Fresh(Row(<<"quote", "id">>, "quotes")),
   Rows(<<"customers">>, {"customers"}),
   Rows(<<"quote-versions", "id">>, {"quotes"})},
  [saveM |-> Setting(Op({One(SaveQuote)},
                        {<<"quote-versions", "id">>, <<"quotes">>}), {<<"quote", "id">>}),
   copyM |-> Leaving(Op({One(CopyQuote)}, {})),
   deleteM |-> Leaving(Op({One(DeleteQuote)}, {<<"quotes">>})),
   finalizeM |-> Setting(Op({One(FinalizeQuote)}, {<<"quotes">>}), {<<"quote", "id">>}),
   unfinalizeM |-> Setting(Op({One(UnfinalizeQuote)}, {<<"quotes">>}), {<<"quote", "id">>})])

\* quotes/new
NewQuotePagePress == [createM |-> "guarded"]
NewQuotePage == Screen(NewQuotePagePress,
  {Rows(<<"customers">>, {"customers"})},
  [createM |-> Leaving(Op({One(CreateQuote)}, {<<"quotes">>}))])

\* quotes
QuotesPagePress == [copyM |-> "open", deleteM |-> "asked"]
QuotesPage == Screen(QuotesPagePress,
  {Rows(<<"quotes", "filter">>, {"quotes"}),
   Rows(<<"customers">>, {"customers"})},
  [copyM |-> Leaving(Op({One(CopyQuote)}, {<<"quotes">>})),
   deleteM |-> Op({Together(DeleteQuote)}, {<<"quotes">>})])

\* rnd-budget
RndBudgetPagePress == [deletePlan |-> "asked"]
RndBudgetPage == Screen(RndBudgetPagePress,
  {Rows(<<"rnd-criteria", "standard">>, {"rnd-budgets/criteria/standard"}),
   Rows(<<"rnd-criteria", "settlement">>, {"rnd-budgets/criteria/settlement-docs"}),
   Rows(<<"rnd-criteria", "disallowed">>, {"rnd-budgets/criteria/disallowed"}),
   Rows(<<"rnd-budgets">>, {"rnd-budgets"})},
  [deletePlan |-> Op({One(DeleteRndBudgetPlan)}, {<<"rnd-budgets">>})])

\* rnd-budget
BudgetTabPress == [saveM |-> "guarded", savePersonnelM |-> "guarded"]
BudgetTabQueries ==
  {Row(<<"rnd-budget", "id">>, "rnd-budgets")}
BudgetTab == Screen(BudgetTabPress, BudgetTabQueries,
  [saveM |-> Op({One(ReplaceRndBudgetLines)}, {<<"rnd-budget", "id">>, <<"rnd-budgets">>}),
   savePersonnelM |-> Op({One(ReplacePersonnel)}, {<<"rnd-budget", "id">>})])

\* rnd-budget
PersonnelPanel == View(
  {Rows(<<"rnd-budget-staff-picker">>, {"developers"})})

\* rnd-budget
RndBudgetCreatePlanDialogPress == [createM |-> "guarded"]
RndBudgetCreatePlanDialog == Screen(RndBudgetCreatePlanDialogPress,
  {Rows(<<"projects", "light">>, {"projects"}),
   Rows(<<"customers", "light">>, {"customers"})},
  [createM |-> Op({One(CreateRndBudgetPlan), One(DuplicateRndBudgetPlan)}, {<<"rnd-budgets">>})])

\* rnd-budget
BudgetSummaryPanelPress == [saveM |-> "guarded"]
BudgetSummaryPanel == Screen(BudgetSummaryPanelPress,
  {},
  [saveM |-> Op({One(UpdateRndBudgetPlan)}, {<<"rnd-budget", "id">>, <<"rnd-budgets">>})])

\* server-hostings
ServerHostingsPagePress == [saveM |-> "guarded", deleteM |-> "asked"]
ServerHostingsPage == Screen(ServerHostingsPagePress,
  {Row(<<"me">>, "auth/me"),
   Rows(<<"server-hostings">>, {"server-hostings"})},
  [saveM |-> Op({One(UpdateServerHosting), One(CreateServerHosting)},
                {<<"server-hostings">>}),
   deleteM |-> Op({Together(DeleteServerHosting)}, {<<"server-hostings">>})])

\* settings/account-codes
AccountCodesPagePress == [createM |-> "guarded", updateM |-> "guarded", deleteM |-> "asked",
  runSeed |-> "guarded"]
AccountCodesPage == Screen(AccountCodesPagePress,
  {Rows(<<"account-codes", "filter", "filter">>, {"account-codes"})},
  [createM |-> Op({One(CreateCode)}, {<<"account-codes">>}),
   updateM |-> Op({One(UpdateCode)}, {<<"account-codes">>}),
   deleteM |-> Op({One(DeleteCode)}, {<<"account-codes">>}),
   runSeed |-> Op({One(SeedAccountCodes)}, {<<"account-codes">>})])

\* tax-invoices/dashboard
TaxInvoicesDashboardPage == View(
  {Rows(<<"tax-invoices-yearly-comparison", "filter">>, {"tax-invoices"})})

\* tax-invoices
TaxInvoicesPagePress == [fetchM |-> "guarded", backfillM |-> "guarded"]
TaxInvoicesPage == Screen(TaxInvoicesPagePress,
  {Rows(<<"tax-invoices", "filter", "filter", "filter", "filter", "filter", "filter", "filter">>,
         {"tax-invoices"}),
   Rows(<<"tax-invoices-summary", "filter", "filter">>, {"tax-invoices"})},
  [fetchM |-> Op(FetchTaxInvoices,
                 {<<"tax-invoices">>, <<"tax-invoices-summary">>}),
   backfillM |-> Op({One(BackfillItems)}, {<<"tax-invoice-detail">>, <<"tax-invoices">>})])

\* tax-invoices
FetchHistoryDialog == View(
  {Rows(<<"tax-invoice-fetches">>, {"tax-invoices/fetches"})})

\* tax-invoices
TopCustomersDialog == View(
  {Rows(<<"tax-invoices", "sales-customers-top">>, {"tax-invoices"})})

\* vendor-bills
VendorBillsPagePress == [saveM |-> "guarded", deleteAttachM |-> "asked", deleteM |-> "asked"]
VendorBillsPage == Screen(VendorBillsPagePress,
  {Rows(<<"vendor-bills", "filter", "filter", "filter">>, {"vendor-bills"}),
   Rows(<<"customers-list">>, {"customers"}),
   Rows(<<"quotes-all">>, {"quotes"}),
   Rows(<<"projects-list">>, {"projects"})},
  [saveM |-> Op({One(UpdateBill) \o One(UploadBillAttachments),
                 One(UpdateBill),
                 One(CreateBill) \o One(UploadBillAttachments),
                 One(CreateBill)},
                {<<"vendor-bills">>}),
   deleteAttachM |-> Op({One(DeleteBillAttachment)}, {<<"vendor-bills">>}),
   deleteM |-> Op({Together(DeleteBill)}, {<<"vendor-bills">>})])

\* app/budget-calc-preview/[id]
BudgetCalcPreviewPage == View(
  {Row(<<"budget-calc-preview", "id">>, "budget-calc"),
   Rows(<<"account-codes-preview">>, {"account-codes"})})

\* components/calculator/FxConverter
FxConverter == View(
  {Rows(<<"exchange-multi", "KRW">>, {"exchange/multi"})})

\* components/cloud-costs/AlertsDialog
CloudCostAlertsDialogPress == [saveM |-> "guarded", deleteM |-> "asked", evalM |-> "guarded"]
CloudCostAlertsDialog == Screen(CloudCostAlertsDialogPress,
  {Rows(<<"cloud-cost-alerts">>, {"cloud-costs/alerts"}),
   Rows(<<"cloud-cost-alert-events">>, {"cloud-costs/alert-events"})},
  [saveM |-> Op({One(UpdateAlertRule), One(CreateAlertRule)},
                {<<"cloud-cost-alerts">>}),
   deleteM |-> Op({One(DeleteAlertRule)}, {<<"cloud-cost-alerts">>}),
   evalM |-> Op({One(EvaluateRuleNow)},
                {<<"cloud-cost-alert-events">>, <<"cloud-cost-alerts">>})])

\* components/tax-invoices/TaxInvoiceDetailDialog
TaxInvoiceDetailDialogPress == [saveM |-> "guarded"]
TaxInvoiceDetailDialog == Screen(TaxInvoiceDetailDialogPress,
  {Row(<<"tax-invoice-detail", "id">>, "tax-invoices"),
   Rows(<<"customers-min-for-tax-invoice">>, {"customers"}),
   Rows(<<"projects-min-for-tax-invoice">>, {"projects"})},
  [saveM |-> Op({One(PatchTaxInvoice)},
                {<<"project-sales-tax-invoices">>, <<"tax-invoice-detail">>, <<"tax-invoices">>,
                 <<"tax-invoices-summary">>})])

=============================================================================
