------------------------------ MODULE WebPages ------------------------------
(***************************************************************************)
(* The pages of the web app (apps/web): for each the queries it keeps in   *)
(* the React Query cache and the changes its forms make, with the cached   *)
(* keys a change refreshes, as far as they depend on who is signed in; and *)
(* the router, which decides who may open a page.  One definition per      *)
(* page, panel or hook.  Only the first part of a query's key is kept (the *)
(* ids in it stay the same while a page is open); layout is left out.      *)
(***************************************************************************)
EXTENDS Api, FiniteSets

(* Who is at the computer: the session kept for the screens, and what the server is. *)
Who(session, admin, may, register, mode, desktop) ==
  [session |-> session, admin |-> admin, may |-> may, register |-> register, mode |-> mode, desktop |-> desktop]

can(w, permission) == w.session /\ (w.admin \/ permission \in w.may)
canSeeCosts(w) == can(w, "MANAGE_STOCK") \/ can(w, "RECORD_PURCHASES")
useIsOffline(w) == w.mode = "offline"
useIsManagedHosting(w) == w.mode = "managed"
(* An open register at the branch the page is about (an admin may look at another branch). *)
AtRegister(w) == w.register = "here"

(* A query: its key, the call, the data it shows, and whether it is kept as fresh forever. *)
Query(key, call, shows) == [key |-> key, call |-> call, shows |-> shows, kept |-> FALSE]
Kept(q) == [q EXCEPT !.kept = TRUE]
(* A change: its call, the data it changes, the keys it refreshes and those it sets from its answer. *)
Change(call, alters, refreshes) == [call |-> call, changes |-> alters, refreshes |-> refreshes, sets |-> {}]
Sets(c, keys) == [c EXCEPT !.sets = keys]

(* The desktop app's own calls, and what a page is put together of. *)
Ipc(name) == <<"IPC", name>>
Panel(queries, offers) == [queries |-> queries, changes |-> offers]
Of(panels) == Panel(UNION {p.queries : p \in panels}, UNION {p.changes : p \in panels})
When(shown, panel) == IF shown THEN panel ELSE Panel({}, {})
Reads(queries) == Panel(queries, {})
Offers(forms) == Panel({}, forms)

BusinessSettings == Query("business-settings", Get("/business/settings"), {"business", "branch gstin"})
BranchSettings == Query("branch-settings", Get("/branches/:id"), {"branch", "branch gstin"})
ItemList(key) == Query(key, Get("/items"), {"item"})
OnHand == Query("stock-module", Get("/stock/on-hand"), {"stock"})

---------------------------------------------------------------------------
(* Around every page.                                                      *)

useMeta(w) == Reads({Kept(Query("meta", Get("/meta"), {}))})
useBillingStatus(w) ==
  When(useIsManagedHosting(w) /\ w.session,
       Reads({Query("billing-status", Get("/billing/status"), {})}))
GstinNeededBanner(w) == When(w.session, Reads({BusinessSettings}))
useRecoveryStatus(w) ==
  When(useIsOffline(w) /\ w.session /\ w.admin,
       Reads({Query("recovery-code-status", Get("/auth/recovery-code"), {"recovery code"})}))
RecoveryCodeNotice(w) == useRecoveryStatus(w)
CrashReportsChoice(w) ==
  When(w.desktop, Panel({Query("crash-reports", Ipc("crash-reports"), {"crash reports"})},
                        {Sets(Change(Ipc("crash-reports:set"), {"crash reports"}, {}), {"crash-reports"})}))

(* The layout: the banners, and who is signed in asked again on every page. *)
AppLayout(w) ==
  Of({useMeta(w), useBillingStatus(w), GstinNeededBanner(w), RecoveryCodeNotice(w),
      When(w.session, Of({Reads({Query("me", Get("/auth/me"), {})}),
                          When(w.admin, CrashReportsChoice(w))}))})

CashDrawerDialog(w) ==
  LET refreshes == {"register-current-cash", "register-cash-entries", "expenses"} IN
  Panel({Query("register-current-cash", Get("/registers/current"), {"drawer"}),
         Query("register-cash-entries", Get("/registers/cash-movements"), {"drawer", "expense"})},
        {Change(Post("/expenses"), {"drawer", "expense"}, refreshes),
         Change(Post("/registers/cash-movements"), {"drawer"}, refreshes)})
CloseRegisterDialog(w) ==
  Panel({Query("register-current-cash", Get("/registers/current"), {"drawer"})},
        {Change(Post("/registers/close"), {}, {})})
EmailReceipt(w) == When(~useIsOffline(w), Offers({Change(Post("/sales/:id/email-receipt"), {}, {})}))

---------------------------------------------------------------------------
(* Selling.                                                                *)

useCatalog(w) == Reads({ItemList("items-pos"), OnHand})
useStoreSettings(w) == Reads({BranchSettings, BusinessSettings})
usePosCustomer(w) ==
  Reads({Query("customers-pos", Get("/customers"), {"customer"}),
         Query("walk-in", Get("/customers/walk-in/:branchId"), {}),
         Query("customer-wallet", Get("/customers/:id/wallet"), {"wallet"}),
         Query("customer-account", Get("/customers/:id/account"), {"debt"})})
CustomerPickerModal(w) == Offers({Change(Post("/customers"), {"customer"}, {"customers-pos"})})
checkout(w) ==
  Offers({Change(Post("/sales/checkout"), {"bill", "stock", "debt", "wallet", "drawer"},
                 {"sales-module", "stock-module", "customer-account"})})
PosPage(w) ==
  Of({useCatalog(w), useStoreSettings(w), usePosCustomer(w), CustomerPickerModal(w), checkout(w), EmailReceipt(w)})

useSalesList(w) == Reads({Query("sales-module", Get("/sales"), {"bill"})})
useInvoiceDetails(w) ==
  Reads({Query("sales-by-id", Get("/sales/:id"), {"bill"}),
         Query("receipt-list-by-invoice-sales", Get("/receipts/by-invoice/:invoiceId"), {"receipt"})})
useReceiptSettings(w) == Reads({BranchSettings, BusinessSettings})
useSettlePayment(w) == Reads({Query("customer-wallet-sales", Get("/customers/:id/wallet"), {"wallet"})})
cancelInvoice(w) ==
  When(can(w, "CANCEL_SALES"),
       Offers({Change(Post("/sales/:id/cancel"), {"bill", "stock", "debt", "wallet"},
                      {"sales-module", "sales-by-id", "stock-module"})}))
settleInvoice(w) ==
  When(AtRegister(w),
       Offers({Change(Post("/sales/:id/settle"), {"bill", "receipt", "debt", "wallet", "drawer"},
                      {"sales-module", "sales-by-id", "receipt-list-by-invoice-sales"})}))
SalesPage(w) ==
  Of({Reads({ItemList("items-sales"), Query("customers-sales", Get("/customers"), {"customer"})}),
      useSalesList(w), useInvoiceDetails(w), useReceiptSettings(w), useSettlePayment(w),
      cancelInvoice(w), settleInvoice(w), EmailReceipt(w)})

useReturns(w) ==
  Reads({Query("returns-list", Get("/returns"), {"return"}), Query("return-detail", Get("/returns/:id"), {})})
useBillSearch(w) == When(can(w, "MAKE_RETURNS"), Reads({Query("sales-module", Get("/sales"), {"bill"})}))
(* Making a return (createMode) is for those who may. *)
createReturn(w) ==
  When(can(w, "MAKE_RETURNS"),
       Panel({ItemList("items-returns"), Query("customers-returns", Get("/customers"), {"customer"}),
              Query("sales-by-id", Get("/sales/:id"), {"bill"})},
             {Change(Post("/sales/:id/return"), {"return", "bill", "stock", "debt", "wallet", "drawer"},
                     {"returns-list", "return-detail", "sales-module", "sales-by-id", "stock-module"})}))
ReturnsPage(w) ==
  Of({useReturns(w), useBillSearch(w), createReturn(w), Reads({BranchSettings, BusinessSettings})})

---------------------------------------------------------------------------
(* Customers, cash and suppliers.                                          *)

AgeingPanel(w) == Reads({Query("customers-ageing", Get("/customers/ageing"), {"customer name", "debt"})})
StatementPanel(w) ==
  Of({Reads({Query("customer-statement", Get("/customers/:id/statement"), {"debt"})}),
      When(~useIsOffline(w), Offers({Change(Post("/customers/:id/statement/email"), {}, {})}))})
WalletTopupForm(w) ==
  When(can(w, "TOP_UP_WALLETS") /\ AtRegister(w),
       Offers({Change(Post("/customers/:id/wallet/topup"), {"wallet", "drawer"}, {"customers-module-wallet"})}))
WalletAdjustForm(w) ==
  When(w.admin, Offers({Change(Post("/customers/:id/wallet/adjust"), {"wallet"}, {"customers-module-wallet"})}))
createCustomer(w) == Offers({Change(Post("/customers"), {"customer"}, {"customers-module"})})
updateCustomer(w) ==
  Offers({Change(Patch("/customers/:id"), {"customer", "customer name", "limit"},
                 {"customers-module", "customer-account", "customers-ageing"})})
CustomersPage(w) ==
  Of({Reads({Query("customers-module", Get("/customers"), {"customer"}),
             Query("customer-account", Get("/customers/:id/account"), {"limit", "debt"}),
             Query("customers-module-wallet", Get("/customers/:id/wallet"), {"wallet"}),
             Query("customers-module-sales", Get("/sales"), {"bill"}), BusinessSettings}),
      AgeingPanel(w), StatementPanel(w), WalletTopupForm(w), WalletAdjustForm(w), createCustomer(w), updateCustomer(w)})

ExpenseForm(w) ==
  Offers({Change(Post("/expenses"), {"expense", "drawer"}, {"expenses", "register-current-cash"})})
ExpensesPage(w) ==
  Of({Reads({Query("expenses", Get("/expenses"), {"expense"})}), ExpenseForm(w),
      When(w.admin, Offers({Change(Delete("/expenses/:id"), {"expense", "drawer"}, {"expenses"})}))})

useSuppliers(w) == Reads({Query("suppliers", Get("/suppliers"), {"supplier"})})
SupplierAccount(w) == Reads({Query("supplier-account", Get("/suppliers/:id/account"), {"supplier"})})
SupplierForm(w) ==
  When(can(w, "RECORD_PURCHASES"),
       Offers({Change(c, {"supplier"}, {"suppliers", "supplier-account"}) :
               c \in {Post("/suppliers"), Patch("/suppliers/:id")}}))
SupplierPaymentForm(w) ==
  When(can(w, "PAY_SUPPLIERS"),
       Offers({Change(Post("/suppliers/:id/payments"), {"supplier", "drawer"},
                      {"suppliers", "supplier-account", "register-current-cash"})}))
SuppliersPage(w) == Of({useSuppliers(w), SupplierAccount(w), SupplierForm(w), SupplierPaymentForm(w)})

PurchaseDetail(w) ==
  Panel({Query("purchase", Get("/purchases/:id"), {"sent back"})},
        {Change(Post("/purchases/:id/returns"), {"sent back", "stock", "supplier"},
                {"purchase", "suppliers", "stock-module", "stock-ledger"})})
SupplierPicker(w) == useSuppliers(w)
PurchasesPage(w) ==
  Of({Panel({ItemList("items-stock-list"), Query("purchases", Get("/purchases"), {"purchase"})},
            {Change(Post("/purchases"), {"purchase", "stock", "supplier", "item"},
                    {"purchases", "stock-module", "stock-ledger", "items-stock-list", "suppliers"})}),
      SupplierPicker(w), PurchaseDetail(w)})

---------------------------------------------------------------------------
(* Items, stock and transfers.                                             *)

useItemMutations(w) ==
  Offers({Change(Post("/items/upload-image"), {}, {})}
         \cup {Change(Post("/items"), {"item"}, {"items-module"})}
         \cup {Change(c, {"item", "variant"}, {"items-module"}) : c \in {Patch("/items/:id"), Delete("/items/:id")}})
CategoryInput(w) == Reads({Query("items-module", Get("/items/categories"), {"item"})})
ProductForm(w) ==
  Offers({Change(Post("/item-groups"), {"item", "variant"}, {"items-module", "items-pos", "items-stock-list", "item-groups"})})
VariantsPanel(w) ==
  Of({Reads({Query("item-groups", Get("/item-groups"), {"variant"})}),
      When(can(w, "MANAGE_ITEMS"),
           Offers({Change(c, {"item", "variant"}, {"items-module", "items-pos", "items-stock-list", "item-groups"}) :
                   c \in {Post("/item-groups/:id/values"), Patch("/item-groups/:id/prices")}}))})
BranchPricesSection(w) ==
  Panel({Query("item-branch-prices", Get("/items/:id/branch-prices"), {"branch price"})},
        {Change(Put("/items/:id/branch-prices"), {"branch price"}, {"item-branch-prices", "items-pos"})})
ItemDetails(w) == Of({VariantsPanel(w), When(w.admin, BranchPricesSection(w))})
ItemsPage(w) ==
  Of({Reads({ItemList("items-module"), BusinessSettings}), ItemDetails(w),
      When(can(w, "MANAGE_ITEMS"), Of({useItemMutations(w), CategoryInput(w), ProductForm(w)}))})
ImportItemsPage(w) ==
  Offers({Change(Post("/items/import"), {"item", "variant", "stock"},
                 {"items-module", "items-pos", "items-stock-list", "item-groups", "stock-module", "low-stock"})})

useBatches(w) == Reads({Query("stock-batches", Get("/stock/batches"), {"stock"})})
(* The purchase whose labels are printed comes from the purchases page. *)
LabelsPage(w) ==
  Of({Reads({ItemList("items-labels")}), useBatches(w),
      When(can(w, "RECORD_PURCHASES"), Reads({Query("purchase-for-labels", Get("/purchases/:id"), {"purchase"})}))})

ReorderLevel(w) ==
  When(can(w, "MANAGE_STOCK"),
       Offers({Change(Put("/stock/reorder-level"), {"stock level"}, {"stock-module", "low-stock"})}))
LowStockCard(w) == Reads({Query("low-stock", Get("/stock/low"), {"stock", "stock level"})})
(* Mutant of useStockMutations: the low-stock list forgotten. *)
useStockMutationsForgetting(w) ==
  When(can(w, "MANAGE_STOCK"),
       Offers({Change(c, {"stock"}, {"stock-module", "stock-ledger", "stock-batches"}) :
               c \in {Post("/stock/opening"), Patch("/stock/opening"), Post("/stock/adjustment")}}))
useStockMutations(w) ==
  When(can(w, "MANAGE_STOCK"),
       Offers({Change(c, {"stock"}, {"stock-module", "stock-ledger", "stock-batches", "low-stock"}) :
               c \in {Post("/stock/opening"), Patch("/stock/opening"), Post("/stock/adjustment")}}))
StockPage(w) ==
  Of({Reads({ItemList("items-stock-list"), OnHand, Query("stock-ledger", Get("/stock/ledger"), {"stock"})}),
      useBatches(w), LowStockCard(w), ReorderLevel(w), useStockMutations(w)})

(* A page of an online business: offline it only says so. *)
TransfersPage(w) ==
  LET refreshes == {"transfers", "stock-module", "stock-ledger"} IN
  When(~useIsOffline(w),
       Of({Panel({ItemList("items-stock-list"), OnHand, Query("transfers", Get("/stock-transfers"), {"transfer"})},
                 {Change(Post("/stock-transfers/:id/receive"), {"transfer", "stock"}, refreshes)}),
           When(can(w, "SEND_TRANSFERS"),
                Panel({Query("transfer-destinations", Get("/stock-transfers/destinations"), {})},
                      {Change(c, {"transfer", "stock"}, refreshes) :
                       c \in {Post("/stock-transfers"), Post("/stock-transfers/:id/cancel")}}))}))

---------------------------------------------------------------------------
(* Reports and settings, for admins.                                       *)

DetailReport(w) == Reads({Query("reports-detail", Get("/reports/detail"), {"bill"})})
ReportsPage(w) == Of({Reads({Query("reports-sales-summary", Get("/reports/sales-summary"), {"bill"})}), DetailReport(w)})
ActivityPage(w) == Reads({Query("audit", Get("/audit"), {"audit"}), BusinessSettings})
Gstr1View(w) == Reads({Query("gstr1", Get("/gst/gstr1"), {"bill"})})
Gstr3bView(w) == Reads({Query("gstr3b", Get("/gst/gstr3b"), {"bill"})})
CompositionView(w) == Reads({Query("CMP08", Get("/gst/cmp08"), {"bill"}), Query("GSTR4", Get("/gst/gstr4"), {"bill"})})
GstReturnsPage(w) ==
  Of({Reads({Query("gst-gstins", Get("/gst/gstins"), {"branch gstin"})}), Gstr1View(w), Gstr3bView(w), CompositionView(w)})

RecoveryCodeSettings(w) ==
  Of({useRecoveryStatus(w),
      When(useIsOffline(w) /\ w.admin,
           Offers({Change(Post("/auth/recovery-code"), {"recovery code"}, {"recovery-code-status"})}))})
useBusinessSettingsMutations(w) ==
  Offers({Sets(Change(Patch("/business/settings"), {"business"}, {}), {"business-settings"}),
          Change(Post("/business/logo"), {"business"}, {"business-settings"})})
TaxpayerTypeSection(w) ==
  Panel({Query("taxpayer-type", Get("/business/taxpayer-type"), {"taxpayer type"})},
        {Change(c, {"taxpayer type", "business"}, {"taxpayer-type", "business-settings"}) :
         c \in {Post("/business/taxpayer-type"), Delete("/business/taxpayer-type/:id")}})
createBranch(w) ==
  When(~useIsOffline(w), Offers({Change(Post("/branches"), {"branches"}, {"accessible-branches"})}))
useBranchSettingsMutations(w) ==
  Offers({Sets(Change(Patch("/branches/:id"), {"branch", "branch gstin", "branches"},
                      {"accessible-branches", "business-settings"}), {"branch-settings"}),
          Change(Post("/branches/:id/logo"), {"branch"}, {"branch-settings", "accessible-branches"})})
CountersSection(w) ==
  Of({Panel({Query("branch-counters", Get("/branches/:branchId/counters"), {"counter"}),
             Query("register-summaries", Get("/registers/summary"), {"counter name", "register"})},
            {Change(Patch("/counters/:id"), {"counter", "counter name"}, {"branch-counters", "register-summaries"})}),
      When(~useIsOffline(w),
           Offers({Change(Post("/branches/:branchId/counters"), {"counter", "counter name"},
                          {"branch-counters", "register-summaries"})})),
      When(~useIsOffline(w) /\ w.desktop,
           Offers({Change(c, {"counter"}, {"branch-counters"}) :
                   c \in {Post("/counters/:id/fallback"), Delete("/counters/:id/fallback")}}))})
ReceiptTemplateSection(w) ==
  Panel({BranchSettings}, {Sets(Change(Patch("/branches/:id"), {"branch"}, {}), {"branch-settings"})})
useCashierMutations(w) ==
  Offers({Change(c, {"user"}, {"branch-users"}) :
          c \in {Post("/users"), Patch("/users/:id"), Post("/users/:id/branches/:branchId"),
                 Delete("/users/:id/branches/:branchId")}})
BillingSection(w) ==
  Panel({Query("billing", Get("/billing"), {})},
        {Change(Post("/billing/checkout"), {}, {}), Change(Get("/billing/invoices/:id"), {}, {})})
DataExportSection(w) ==
  Of({Offers({Change(Get("/exports/sales.csv"), {}, {})}),
      When(~useIsOffline(w), Offers({Change(Get("/exports/business"), {}, {})}))})
PrinterSection(w) ==
  Of({useStoreSettings(w),
      Panel({Kept(Query("desktop-printing", Ipc("printing:settings"), {"printing"})),
             Query("desktop-printers", Ipc("printing:printers"), {})},
            {Sets(Change(Ipc("printing:save"), {"printing"}, {}), {"desktop-printing"}),
             Change(Ipc("printing:print"), {}, {}), Change(Ipc("printing:drawer"), {}, {})})})
BackupsSection(w) ==
  Panel({Query("desktop-backups", Ipc("backups:list"), {"backups"})},
        {Change(Ipc(c), {"backups"}, {"desktop-backups"}) :
         c \in {"backups:setDays", "backups:create", "backups:chooseCopyFolder", "backups:stopCopying"}})

(* The settings page keeps four queries under every tab. *)
BranchSettingsPage(w) ==
  Reads({BranchSettings, BusinessSettings, Query("branch-users", Get("/users"), {"user"}),
         Query("accessible-branches", Get("/branches"), {"branches"})})
SettingsTabs(w) ==
  {<<"/settings#business", Of({RecoveryCodeSettings(w), useBusinessSettingsMutations(w), TaxpayerTypeSection(w)})>>,
   <<"/settings#branches", Of({createBranch(w), useBranchSettingsMutations(w), CountersSection(w)})>>,
   <<"/settings#receipts", ReceiptTemplateSection(w)>>, <<"/settings#cashiers", useCashierMutations(w)>>,
   <<"/settings#data", DataExportSection(w)>>}
    \cup (IF useIsManagedHosting(w) THEN {<<"/settings#billing", BillingSection(w)>>} ELSE {})
    \cup (IF w.desktop THEN {<<"/settings#printer", PrinterSection(w)>>} ELSE {})
    \cup (IF w.desktop /\ useIsOffline(w) THEN {<<"/settings#backups", BackupsSection(w)>>} ELSE {})

---------------------------------------------------------------------------
(* Signing in, setting up and the owner's pages.                           *)

LoginPage(w) == Offers({Change(Post("/auth/login"), {}, {})})
OwnerResetsStaffPassword(w) ==
  Offers({Change(c, {}, {}) : c \in {Post("/accounts/login"), Post("/accounts/staff-password")}})
OfflineRecover(w) == Offers({Change(Post("/auth/recover"), {}, {})})
RecoverPage(w) == IF useIsOffline(w) THEN OfflineRecover(w) ELSE OwnerResetsStaffPassword(w)
(* The desktop app asks the online server itself, whatever this computer works with. *)
OwnerPasswordPage(w) ==
  IF w.desktop THEN Offers({Change(Ipc("pos:owner-password-reset"), {}, {})})
  ELSE Offers({Change(c, {}, {}) : c \in {Post("/accounts/password-reset"), Post("/accounts/password-reset/confirm")}})
OwnerSignIn(w) == Offers({Change(Post("/accounts/login"), {}, {})})
BusinessDeletion(w) ==
  Offers({Change(Post("/accounts/businesses/:businessId/deletion/code"), {}, {})}
         \cup {Change(c, {"businesses"}, {"owner-businesses"}) :
               c \in {Post("/accounts/businesses/:businessId/deletion"),
                      Post("/accounts/businesses/:businessId/deletion/cancel")}})
NewPasswordForm(w) == Offers({Change(Post("/accounts/staff-password"), {"staff"}, {"owner-staff"})})
OwnerStaff(w) ==
  Panel({Kept(Query("owner-businesses", Get("/accounts/businesses"), {"businesses"})),
         Query("owner-staff", Get("/accounts/businesses/:businessId/staff"), {"staff"})},
        {Change(Post("/accounts/staff-active"), {"staff"}, {"owner-staff"})})
(* Offline the page only says that there is no owner account. *)
OwnerPage(w) ==
  When(~useIsOffline(w), Of({OwnerSignIn(w), OwnerStaff(w), NewPasswordForm(w), BusinessDeletion(w)}))
SetupPage(w) ==
  Offers({Change(Post(IF useIsOffline(w) THEN "/setup" ELSE "/businesses"), {}, {})})
ChangePasswordPage(w) == Offers({Change(Post("/auth/change-password"), {}, {})})

(* Opening a register; an admin may close another's. *)
OpenRegisterPage(w) ==
  Of({Panel({Query("session-branches", Get("/branches"), {"branches"}),
             Query("register-summaries", Get("/registers/summary"), {"register"})},
            {Change(Post("/registers/open"), {"register"}, {"register-summaries"})}),
      When(w.admin, Offers({Change(Post("/registers/:id/close"), {"register"}, {"register-summaries"})}))})

---------------------------------------------------------------------------
(* The router: who may open which page.                                    *)

requireSession(w) == w.session
requireOperationalSession(w) == requireSession(w) /\ w.register # "none"
requireAdmin(w) == requireSession(w) /\ w.admin
(* Mutant of requireManagementSession: cashiers without a register too. *)
requireManagementSessionOnly(w) == requireSession(w)
requireManagementSession(w) == requireSession(w) /\ (w.admin \/ requireOperationalSession(w))
requirePermission(w, permission) == requireSession(w) /\ can(w, permission)

Route(path, opens, panel) == [path |-> path, opens |-> opens, panel |-> panel]
(* The pages before anyone has signed in; the owner's two open for anybody. *)
SignedOutRoutes(w) ==
  {Route("/", ~w.session, LoginPage(w)), Route("/recover", ~w.session, RecoverPage(w)),
   Route("/owner-password", TRUE, OwnerPasswordPage(w)), Route("/owner", TRUE, OwnerPage(w)),
   Route("/create-business", ~w.session /\ ~w.desktop /\ ~useIsOffline(w), SetupPage(w)),
   Route("/setup", ~w.session /\ useIsOffline(w), SetupPage(w)),
   Route("/change-password", w.session, ChangePasswordPage(w))}
routeTree(w) ==
  SignedOutRoutes(w) \cup
  {Route("/open-register", requireSession(w) /\ w.register = "none", OpenRegisterPage(w)),
   Route("/pos", requireOperationalSession(w), PosPage(w)),
   Route("/sales", requireManagementSession(w), SalesPage(w)),
   Route("/returns", requireOperationalSession(w), ReturnsPage(w)),
   Route("/items", requireSession(w), ItemsPage(w)),
   Route("/customers", requireManagementSession(w), CustomersPage(w)),
   Route("/stock", requireManagementSession(w), StockPage(w)),
   Route("/purchases", requirePermission(w, "RECORD_PURCHASES") /\ requireManagementSession(w), PurchasesPage(w)),
   Route("/suppliers", requireManagementSession(w) /\ (can(w, "RECORD_PURCHASES") \/ can(w, "PAY_SUPPLIERS")),
         SuppliersPage(w)),
   Route("/expenses", requirePermission(w, "CASH_AND_EXPENSES") /\ requireManagementSession(w), ExpensesPage(w)),
   Route("/items/import", requirePermission(w, "MANAGE_ITEMS") /\ requireManagementSession(w), ImportItemsPage(w)),
   Route("/labels", requireManagementSession(w)
                      /\ \E p \in {"MANAGE_ITEMS", "MANAGE_STOCK", "RECORD_PURCHASES"} : can(w, p), LabelsPage(w)),
   Route("/transfers", requireManagementSession(w), TransfersPage(w)),
   Route("/reports", requireAdmin(w), ReportsPage(w)), Route("/activity", requireAdmin(w), ActivityPage(w)),
   Route("/gst", requireAdmin(w), GstReturnsPage(w))}
    \cup {Route(t[1], requireAdmin(w), Of({BranchSettingsPage(w), t[2]})) : t \in SettingsTabs(w)}
(* The dialogs of the layout, opened over any page. *)
Dialogs(w) ==
  {Route("cash drawer", w.session /\ w.register # "none" /\ can(w, "CASH_AND_EXPENSES"), CashDrawerDialog(w)),
   Route("close register", w.session /\ w.register # "none", CloseRegisterDialog(w))}

(* The sidebar: a link is left out, or locked until a register is open. *)
NavItem(to, register, permissions) == [to |-> to, register |-> register, permissions |-> permissions]
NAV_SECTIONS ==
  {NavItem("/pos", "always", Permissions), NavItem("/returns", "always", Permissions),
   NavItem("/items", "never", Permissions), NavItem("/expenses", "cashiers", {"CASH_AND_EXPENSES"}),
   NavItem("/purchases", "cashiers", {"RECORD_PURCHASES"}),
   NavItem("/suppliers", "cashiers", {"RECORD_PURCHASES", "PAY_SUPPLIERS"}),
   NavItem("/labels", "cashiers", {"MANAGE_ITEMS", "MANAGE_STOCK", "RECORD_PURCHASES"})}
    \cup {NavItem(to, "cashiers", Permissions) : to \in {"/sales", "/customers", "/stock", "/transfers"}}
    \cup {NavItem(to, "never", {}) : to \in {"/reports", "/gst", "/activity", "/settings#branches"}}
Links(w) ==
  {n.to : n \in {i \in NAV_SECTIONS :
                 /\ w.session
                 /\ w.admin \/ i.permissions = Permissions \/ \E p \in i.permissions : can(w, p)
                 /\ w.register # "none" \/ i.register = "never" \/ (i.register = "cashiers" /\ w.admin)}}
=============================================================================
