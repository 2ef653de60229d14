------------------------------- MODULE Api -------------------------------
(***************************************************************************)
(* The server's routes: the calls packages/contracts lets a client make    *)
(* (one definition per router of the contract) and the calls the           *)
(* controllers serve, each with the guards it is marked for and the checks *)
(* its handler and service make of the caller before they do the work (one *)
(* definition per controller).  What a body or an answer holds is left     *)
(* out.                                                                    *)
(***************************************************************************)
EXTENDS Sequences

Get(path) == <<"GET", path>>
Post(path) == <<"POST", path>>
Put(path) == <<"PUT", path>>
Patch(path) == <<"PATCH", path>>
Delete(path) == <<"DELETE", path>>

---------------------------------------------------------------------------
(* What a handler asks of its caller.                                      *)

Permissions == {"MANAGE_STOCK", "MANAGE_ITEMS", "RECORD_PURCHASES", "PAY_SUPPLIERS", "MAKE_RETURNS",
                "CANCEL_SALES", "TOP_UP_WALLETS", "CASH_AND_EXPENSES", "SEND_TRANSFERS"}
COST_PERMISSIONS == {"MANAGE_STOCK", "RECORD_PURCHASES"}

Check(ask, of) == [ask |-> ask, of |-> of]
Admin == Check("admin", {})              \* an admin's session
Branch == Check("branch", {})            \* requireBranch of the branch the call names
Access == Check("access", {})            \* the user's access to that branch
Register == Check("register", {})        \* a session with a register
Drawer == Check("drawer", {})            \* that register is at the branch the call names
Open == Check("open", {})                \* that register, share-locked: still open
AnyOf(permissions) == Check("permission", permissions)
May(permission) == AnyOf({permission})

(* The guards a route passes first: AuthGuard's three reads, InstanceStatusGuard, the mode guards. *)
Guards(marks) ==
  (IF "public" \in marks THEN <<>> ELSE <<Check("user", {}), Check("token branch", {}), Check("token register", {})>>)
    \o <<Check("status", {}), Check("mode", {})>>

(* Routes with the same marks and the same checks. *)
Serve(marks, checks, calls) == {[call |-> c, marks |-> marks, checks |-> Guards(marks) \o checks] : c \in calls}

---------------------------------------------------------------------------
(* The controllers.                                                        *)

AccountsController ==
  Serve({"public", "online"}, <<>>,
        {Get("/accounts/businesses"), Get("/accounts/businesses/:businessId/staff"), Post("/businesses"),
         Post("/businesses/import"), Post("/accounts/businesses/:businessId/deletion/code"),
         Post("/accounts/businesses/:businessId/deletion"),
         Post("/accounts/businesses/:businessId/deletion/cancel"), Post("/accounts/signup"),
         Post("/accounts/login"), Post("/accounts/staff-active"), Post("/accounts/staff-password"),
         Post("/accounts/password-reset"), Post("/accounts/password-reset/confirm")})

AuditController == Serve({}, <<Admin>>, {Get("/audit")})

AuthController ==
  Serve({"public", "whenLocked", "offline"}, <<>>, {Post("/auth/recover")})
    \cup Serve({"offline"}, <<Admin>>, {Get("/auth/recovery-code"), Post("/auth/recovery-code")})
    \cup Serve({"public", "whenLocked"}, <<>>, {Post("/auth/login"), Post("/auth/logout")})
    \cup Serve({"beforeChange", "whenLocked"}, <<>>, {Post("/auth/change-password")})
    \cup Serve({"beforeChange"}, <<>>, {Get("/auth/me")})

BillingController ==
  Serve({"managed", "whenUnpaid"}, <<>>, {Get("/billing/status")})
    \cup Serve({"managed", "whenUnpaid"}, <<Admin>>,
               {Get("/billing"), Post("/billing/checkout"), Get("/billing/invoices/:id")})
    \cup Serve({"managed", "whenUnpaid", "public"}, <<>>,
               {Get("/billing/pay/:id"), Post("/billing/webhooks/:gateway"), Get("/billing/dummy/:ref"),
                Post("/billing/dummy/:ref")})

BranchesController == Serve({}, <<>>, {Get("/branches")}) \cup Serve({}, <<Admin>>, {Post("/branches")})

CountersController ==
  Serve({}, <<Access>>, {Get("/branches/:branchId/counters")})
    \cup Serve({}, <<Admin, Access>>, {Post("/branches/:branchId/counters"), Patch("/counters/:id")})

CrashReportsController == Serve({"public", "online"}, <<>>, {Post("/crash-reports")})

CustomersController ==
  Serve({}, <<Branch>>,
        {Get("/customers"), Post("/customers"), Patch("/customers/:id"), Get("/customers/walk-in/:branchId"),
         Get("/customers/ageing"), Get("/customers/:id/account"), Get("/customers/:id/statement"),
         Get("/customers/:id/wallet")})
    \cup Serve({"online"}, <<Branch>>, {Post("/customers/:id/statement/email")})
    \cup Serve({}, <<Register, Branch, May("TOP_UP_WALLETS"), Open>>, {Post("/customers/:id/wallet/topup")})
    \cup Serve({}, <<Admin, Branch>>, {Post("/customers/:id/wallet/adjust")})

ExpensesController ==
  Serve({}, <<May("CASH_AND_EXPENSES"), Register, Open>>, {Post("/registers/cash-movements")})
    \cup Serve({}, <<May("CASH_AND_EXPENSES"), Register>>, {Get("/registers/cash-movements")})
    \cup Serve({}, <<Branch, May("CASH_AND_EXPENSES")>>, {Post("/expenses"), Get("/expenses")})
    \cup Serve({}, <<Branch, May("CASH_AND_EXPENSES"), Drawer, Open>>, {Post("/expenses")})  \* from the drawer
    \cup Serve({}, <<Admin, Branch>>, {Delete("/expenses/:id")})

ExportsController ==
  Serve({"online"}, <<Admin>>, {Get("/exports/business")}) \cup Serve({}, <<Admin, Branch>>, {Get("/exports/sales.csv")})

FallbackController ==
  Serve({"online"}, <<Admin, Access>>, {Post("/counters/:id/fallback"), Delete("/counters/:id/fallback")})
    \cup Serve({"online", "public"}, <<>>, {Get("/fallback/snapshot"), Post("/fallback/sync")})

GstController ==
  Serve({}, <<Admin>>, {Get("/gst/gstins"), Get("/gst/gstr1"), Get("/gst/gstr3b"), Get("/gst/cmp08"), Get("/gst/gstr4")})

ItemGroupsController ==
  Serve({}, <<>>, {Get("/item-groups")})
    \cup Serve({}, <<May("MANAGE_ITEMS")>>,
               {Post("/item-groups"), Post("/item-groups/:id/values"), Patch("/item-groups/:id/prices")})

ItemsController ==
  Serve({}, <<Access>>, {Get("/items")}) \cup Serve({}, <<>>, {Get("/items/categories")})
    \cup Serve({}, <<Admin>>, {Get("/items/:id/branch-prices")})
    \cup Serve({}, <<Admin, Access>>, {Put("/items/:id/branch-prices")})
    \cup Serve({}, <<May("MANAGE_ITEMS"), Branch>>, {Post("/items/import")})
    \cup Serve({}, <<May("MANAGE_ITEMS")>>,
               {Post("/items/upload-image"), Post("/items"), Patch("/items/:id"), Delete("/items/:id")})

MetaController == Serve({"public"}, <<>>, {Get("/meta")})

MigrationController ==
  Serve({"offline"}, <<Admin>>, {Get("/migration/export"), Post("/migration/begin")})
    \cup Serve({"offline", "whenLocked"}, <<Admin>>, {Post("/migration/abort"), Post("/migration/complete")})

PurchasesController ==
  Serve({}, <<Branch, May("RECORD_PURCHASES")>>, {Post("/purchases"), Post("/purchases/:id/returns")})
    \cup Serve({}, <<AnyOf(COST_PERMISSIONS), Access>>, {Get("/purchases")})
    \cup Serve({}, <<Branch, AnyOf(COST_PERMISSIONS)>>, {Get("/purchases/:id"), Get("/purchase-returns")})

RegistersController ==
  Serve({}, <<Access>>, {Post("/registers/open")})
    \cup Serve({}, <<>>, {Get("/registers/current"), Get("/registers/summary")})
    \cup Serve({"whenUnpaid"}, <<Register, Open>>, {Post("/registers/close")})
    \cup Serve({"whenUnpaid"}, <<Admin, Access>>, {Post("/registers/:id/close")})

ReportsController == Serve({}, <<Admin, Access>>, {Get("/reports/sales-summary"), Get("/reports/detail")})

ReturnsController ==
  Serve({}, <<Register, May("MAKE_RETURNS"), Open>>, {Post("/sales/:id/return")})
    \cup Serve({}, <<Branch>>, {Get("/returns"), Get("/returns/:id")})

SalesController ==
  Serve({}, <<Register, Open>>, {Post("/sales"), Post("/sales/checkout"), Post("/sales/:id/settle")})
    \cup Serve({}, <<Branch, May("CANCEL_SALES")>>, {Post("/sales/:id/cancel")})
    \cup Serve({"online"}, <<Branch>>, {Post("/sales/:id/email-receipt")})
    \cup Serve({}, <<Branch>>,
               {Get("/sales"), Get("/sales/:id"), Get("/receipts/:id"), Get("/receipts/by-invoice/:invoiceId")})

SettingsController ==
  Serve({}, <<>>, {Get("/business/settings"), Get("/business/taxpayer-type")})
    \cup Serve({}, <<Admin>>, {Patch("/business/settings"), Post("/business/taxpayer-type"),
                               Delete("/business/taxpayer-type/:id"), Post("/business/logo")})
    \cup Serve({}, <<Access>>, {Get("/branches/:id")})
    \cup Serve({}, <<Admin, Branch>>, {Patch("/branches/:id"), Post("/branches/:id/logo")})

SetupController == Serve({"public", "offline"}, <<>>, {Post("/setup")})

StockController ==
  Serve({}, <<Branch, May("MANAGE_STOCK")>>,
        {Post("/stock/opening"), Patch("/stock/opening"), Post("/stock/adjustment"), Put("/stock/reorder-level")})
    \cup Serve({}, <<Branch>>, {Get("/stock/on-hand"), Get("/stock/low"), Get("/stock/ledger"), Get("/stock/batches")})

SuppliersController ==
  Serve({}, <<AnyOf({"RECORD_PURCHASES", "PAY_SUPPLIERS"})>>, {Get("/suppliers"), Get("/suppliers/:id/account")})
    \cup Serve({}, <<May("RECORD_PURCHASES")>>, {Post("/suppliers"), Patch("/suppliers/:id")})
    \cup Serve({}, <<Branch, May("PAY_SUPPLIERS")>>, {Post("/suppliers/:id/payments")})
    \cup Serve({}, <<Branch, May("PAY_SUPPLIERS"), Drawer, Open>>, {Post("/suppliers/:id/payments")})  \* from the drawer

TransfersController ==
  Serve({}, <<Branch, May("SEND_TRANSFERS")>>, {Post("/stock-transfers"), Post("/stock-transfers/:id/cancel")})
    \cup Serve({}, <<May("SEND_TRANSFERS")>>, {Get("/stock-transfers/destinations")})
    \cup Serve({}, <<Access>>, {Get("/stock-transfers"), Post("/stock-transfers/:id/receive")})

UsersController ==
  Serve({}, <<Admin, Branch>>, {Get("/users"), Post("/users")})
    \cup Serve({}, <<Admin, Access>>,
               {Patch("/users/:id"), Post("/users/:id/branches/:branchId"), Delete("/users/:id/branches/:branchId")})

Routes ==
  UNION {AccountsController, AuditController, AuthController, BillingController, BranchesController,
         CountersController, CrashReportsController, CustomersController, ExpensesController, ExportsController,
         FallbackController, GstController, ItemGroupsController, ItemsController, MetaController,
         MigrationController, PurchasesController, RegistersController, ReportsController, ReturnsController,
         SalesController, SettingsController, SetupController, StockController, SuppliersController,
         TransfersController, UsersController}

---------------------------------------------------------------------------
(* The contract: what the typed clients call (appContract).                *)

metaRoutes == {Get("/meta")}
setupRoutes == {Post("/setup")}
businessesRoutes == {Post("/businesses")}
accountsRoutes ==
  {Get("/accounts/businesses"), Get("/accounts/businesses/:businessId/staff"), Post("/accounts/signup"),
   Post("/accounts/login"), Post("/accounts/staff-active"), Post("/accounts/staff-password"),
   Post("/accounts/password-reset"), Post("/accounts/password-reset/confirm"),
   Post("/accounts/businesses/:businessId/deletion/code"), Post("/accounts/businesses/:businessId/deletion"),
   Post("/accounts/businesses/:businessId/deletion/cancel")}
authRoutes ==
  {Get("/auth/me"), Get("/auth/recovery-code"), Post("/auth/recovery-code"), Post("/auth/login"),
   Post("/auth/recover"), Post("/auth/change-password"), Post("/auth/logout")}
usersRoutes ==
  {Get("/users"), Post("/users"), Patch("/users/:id"), Post("/users/:id/branches/:branchId"),
   Delete("/users/:id/branches/:branchId")}
businessRoutes ==
  {Get("/business/settings"), Patch("/business/settings"), Get("/business/taxpayer-type"),
   Post("/business/taxpayer-type"), Delete("/business/taxpayer-type/:id")}
branchesRoutes == {Get("/branches"), Post("/branches"), Get("/branches/:id"), Patch("/branches/:id")}
countersRoutes ==
  {Get("/branches/:branchId/counters"), Post("/branches/:branchId/counters"), Patch("/counters/:id"),
   Post("/counters/:id/fallback"), Delete("/counters/:id/fallback")}
registersRoutes ==
  {Post("/registers/open"), Get("/registers/summary"), Get("/registers/current"), Post("/registers/close"),
   Post("/registers/:id/close")}
customersRoutes ==
  {Post("/customers"), Patch("/customers/:id"), Post("/customers/:id/statement/email"),
   Post("/customers/:id/wallet/topup"), Post("/customers/:id/wallet/adjust"), Get("/customers"),
   Get("/customers/walk-in/:branchId"), Get("/customers/:id/wallet"), Get("/customers/:id/account"),
   Get("/customers/:id/statement"), Get("/customers/ageing")}
expensesRoutes ==
  {Post("/registers/cash-movements"), Get("/registers/cash-movements"), Post("/expenses"), Get("/expenses"),
   Delete("/expenses/:id")}
itemGroupsRoutes ==
  {Get("/item-groups"), Post("/item-groups"), Post("/item-groups/:id/values"), Patch("/item-groups/:id/prices")}
itemsRoutes ==
  {Get("/items"), Get("/items/categories"), Post("/items/import"), Get("/items/:id/branch-prices"),
   Put("/items/:id/branch-prices"), Post("/items"), Patch("/items/:id"), Delete("/items/:id")}
stockRoutes ==
  {Post("/stock/opening"), Patch("/stock/opening"), Post("/stock/adjustment"), Put("/stock/reorder-level"),
   Get("/stock/on-hand"), Get("/stock/low"), Get("/stock/ledger"), Get("/stock/batches")}
transfersRoutes ==
  {Post("/stock-transfers"), Get("/stock-transfers/destinations"), Get("/stock-transfers"),
   Post("/stock-transfers/:id/receive"), Post("/stock-transfers/:id/cancel")}
purchasesRoutes ==
  {Post("/purchases"), Get("/purchases"), Get("/purchases/:id"), Post("/purchases/:id/returns"),
   Get("/purchase-returns")}
suppliersRoutes ==
  {Get("/suppliers"), Post("/suppliers"), Patch("/suppliers/:id"), Get("/suppliers/:id/account"),
   Post("/suppliers/:id/payments")}
gstRoutes == {Get("/gst/cmp08"), Get("/gst/gstr4"), Get("/gst/gstr3b"), Get("/gst/gstins"), Get("/gst/gstr1")}
billingRoutes == {Get("/billing/status"), Get("/billing"), Post("/billing/checkout"), Get("/billing/invoices/:id")}
auditRoutes == {Get("/audit")}
reportsRoutes == {Get("/reports/sales-summary"), Get("/reports/detail")}
salesRoutes ==
  {Get("/sales"), Get("/sales/:id"), Post("/sales"), Post("/sales/checkout"), Post("/sales/:id/settle"),
   Post("/sales/:id/cancel"), Post("/sales/:id/email-receipt"), Post("/sales/:id/return")}
receiptsRoutes == {Get("/receipts/:id"), Get("/receipts/by-invoice/:invoiceId")}
returnsRoutes == {Get("/returns"), Get("/returns/:id")}

appContract ==
  UNION {metaRoutes, setupRoutes, businessesRoutes, accountsRoutes, authRoutes, usersRoutes, businessRoutes,
         branchesRoutes, countersRoutes, registersRoutes, customersRoutes, expensesRoutes, itemGroupsRoutes,
         itemsRoutes, stockRoutes, transfersRoutes, purchasesRoutes, suppliersRoutes, gstRoutes, billingRoutes,
         auditRoutes, reportsRoutes, salesRoutes, receiptsRoutes, returnsRoutes}
=============================================================================
