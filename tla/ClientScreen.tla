---------------------------- MODULE ClientScreen ----------------------------
(***************************************************************************)
(* The browser client as a whole: the write operations of OfflineClient    *)
(* together with the session, the company it works for, and the rows it    *)
(* has loaded to show.                                                     *)
(*                                                                         *)
(* loadModuleData reads the rows of a module in one or more requests and   *)
(* sets the slices of state they belong to; modules share slices.  Its     *)
(* requests name the company of the moment they are sent, while the cache  *)
(* entry it leaves names the company of the render it was called from: a   *)
(* write handler or a replay loop loads its module again, when it is done, *)
(* as it was when it began.  A change of React state and the effects it    *)
(* has are one step, and so are a session request and its answer (the      *)
(* screen is busy meanwhile).                                              *)
(***************************************************************************)
EXTENDS OfflineClient, TLC

CONSTANTS
    Company,
    FirstCompany,
    Module,    \* modules the user visits
    Home,      \* the module shown first
    Tracked,   \* bound: the slices of state followed
    FormOf,    \* the form each operation is submitted with
    Visit      \* bound: loads begun by visits under way at once

(* What loadModuleData sets for each module. *)
Slices ==
    [dashboard |-> {"accounts", "partners", "invoices", "employees", "assets", "journal",
                    "statements", "kpis"},
     accounts  |-> {"accounts"},
     journal   |-> {"accounts", "journal"},
     partners  |-> {"partners"},
     invoices  |-> {"partners", "invoices"},
     purchases |-> {"partners", "purchases", "approvers"},
     stocks    |-> {"stocks"},
     payroll   |-> {"employees", "payroll"},
     revisal   |-> {"revisal"},
     assets    |-> {"assets"},
     reports   |-> {"statements"},
     audit     |-> {"audit"},
     admin     |-> {}]

(* The forms: where they are shown and the rows they write.  Figures derived
   from rows are the business of the server's caches. *)
On(m, written) == [view |-> m, writes |-> written]

RecordForms == [createAccount  |-> On("accounts", {"accounts"}),
                createPartner  |-> On("partners", {"partners"}),
                createEmployee |-> On("payroll", {"employees"}),
                runPayroll     |-> On("payroll", {"payroll", "journal"})]
RevisalForms == [generateRevisalExport |-> On("revisal", {"revisal"}),
                 markRevisalDelivered  |-> On("revisal", {"revisal"})]
AssetForms == [createAsset     |-> On("assets", {"assets"}),
               runDepreciation |-> On("assets", {"assets", "journal"})]
DocumentForms == [createJournalEntry    |-> On("journal", {"journal"}),
                  createInvoice         |-> On("invoices", {"invoices", "journal"}),
                  createSupplierInvoice |-> On("purchases", {"purchases", "journal"})]
ApprovalForms == [approveSupplierInvoice   |-> On("purchases", {"purchases"}),
                  rejectSupplierInvoice    |-> On("purchases", {"purchases"}),
                  createPurchaseDelegation |-> On("purchases", {"approvers"})]
StockForms == [f \in {"createStockItem", "registerNir", "registerStockConsumption",
                      "reconcileStockInventory"} |-> On("stocks", {"stocks"})]
PaymentForms == [collectInvoice     |-> On("invoices", {"invoices", "journal"}),
                 paySupplierInvoice |-> On("purchases", {"purchases", "journal"})]

Forms == RecordForms @@ RevisalForms @@ AssetForms @@ DocumentForms @@ ApprovalForms
         @@ StockForms @@ PaymentForms

ASSUME ClientScreenConstants ==
    /\ Module \subseteq DOMAIN Slices /\ Home \in Module
    /\ FormOf \in [Op -> DOMAIN Forms]
    /\ Null \notin Company /\ FirstCompany \in Company /\ Visit \cap Sender = {}

Form(o)  == Forms[FormOf[o]]
SliceOf(m) == Slices[m] \cap Tracked
Slice    == UNION {SliceOf(m) : m \in Module}
Load     == Visit \cup Sender

VARIABLES
    company,     \* companyId of the session: Null before one is chosen
    view,        \* moduleKey
    screen,      \* the rows each slice holds: of which company, with which operations
    moduleCache, \* moduleCacheRef: the company in the key of each module's entry
    loads,       \* loads under way
    origin,      \* company and module of the render each sender was started from
    target,      \* companyId of each submitted operation
    moved,       \* what each replay loop has applied
    told,        \* history: operations whose handler has finished
    crossed      \* history: did company, user or rows change during a load, or was a
                 \* module marked as loaded that was not?

shown == <<company, view, screen, moduleCache, loads>>
scene == <<shown, origin, target, moved, told, crossed>>
all   == <<writeVars, scene>>

Nowhere == [company |-> Null, module |-> Home]
Here    == [company |-> company, module |-> view]
NoRows == [company |-> Null, seen |-> {}]

ScreenInit ==
    /\ WritesInit
    /\ company = FirstCompany
    /\ view = Home
    /\ screen = [s \in Slice |-> NoRows]
    /\ moduleCache = [m \in Module |-> Null]
    /\ loads = [k \in Load |-> Null]
    /\ origin = [s \in Sender |-> Nowhere]
    /\ target = [o \in Op |-> Null]
    /\ moved = [l \in Loop |-> {}]
    /\ told = {} /\ crossed = FALSE

-----------------------------------------------------------------------------
(* Loading. *)

(* The rows the server has for a slice of company c. *)
Rows(s, c) ==
    [company |-> c,
     seen |-> {o \in ToSet(log) : target[o] = c /\ s \in Form(o).writes}]

(* A load of slices of module m, called from a render of company key, while
   requests name company c. *)
LoadOf(m, slices, key, c) ==
    [module |-> m, key |-> key, rows |-> [s \in slices |-> Rows(s, c)], state |-> "sent"]

UpToDate(m) == moduleCache[m] = company
Whole(ld)  == DOMAIN ld.rows = SliceOf(ld.module)
Loading    == {k \in Load : loads[k] # Null}
Allowed    == user # Null /\ gate = "open" /\ company # Null

InvalidateAllModuleCache == moduleCache' = [m \in Module |-> Null]

(* A visit of module m in company c begins a load. *)
Begin(m, c) ==
    \E k \in Visit : loads[k] = Null /\ loads' = [loads EXCEPT ![k] = LoadOf(m, SliceOf(m), c, c)]

Visited ==
    /\ Allowed /\ left.visits > 0
    /\ left' = [left EXCEPT !.visits = @ - 1]
    /\ UNCHANGED <<user, online, status, writeQueue, owner, todo, wire, closure, expired, gate, log,
                   history, company, screen, moduleCache, origin, target, moved, told, crossed>>

(* A module is chosen, or loaded again for another month: the rows are loaded
   unless the entry is fresh and young. *)
LoadModuleData(m) ==
    /\ Visited /\ view' = m
    /\ \/ UpToDate(m) /\ UNCHANGED loads
       \/ Begin(m, company)

(* applyPurchasesDashboardFilter, applyDashboardBiFilter: one slice only. *)
ApplyDashboardFilter ==
    /\ view = "dashboard" /\ Visited
    /\ \E k \in Visit : /\ loads[k] = Null
                        /\ loads' = [loads EXCEPT ![k] = LoadOf(view, {"kpis"}, company, company)]
    /\ UNCHANGED view

(* The answers are set and the module is marked as loaded, even when a filter
   loaded one slice of it. *)
Loaded(k) ==
    /\ k \in Loading /\ loads[k].state \in {"sent", "again"}
    /\ user # Null /\ ~expired
    /\ screen' = [s \in Slice |-> IF s \in DOMAIN loads[k].rows THEN loads[k].rows[s] ELSE screen[s]]
    /\ moduleCache' = [moduleCache EXCEPT ![loads[k].module] = loads[k].key]
    /\ crossed' = (crossed \/ (~Whole(loads[k]) /\ moduleCache[loads[k].module] # loads[k].key))
    /\ loads' = [loads EXCEPT ![k] = Null]
    /\ UNCHANGED <<writeVars, company, view, origin, target, moved, told>>

(* No answer, or an error: a message is shown and the slices stay. *)
LoadFailed(k) ==
    /\ k \in Loading /\ left.losses > 0
    /\ left' = [left EXCEPT !.losses = @ - 1]
    /\ loads' = [loads EXCEPT ![k] = Null]
    /\ UNCHANGED <<user, online, status, writeQueue, owner, todo, wire, closure, expired, gate, log,
                   history, company, view, screen, moduleCache, origin, target, moved, told, crossed>>

(* A first 401 waits for the session to be refreshed. *)
LoadUnauthorized(k) ==
    /\ k \in Loading /\ loads[k].state = "sent" /\ (expired \/ user = Null)
    /\ loads' = [loads EXCEPT ![k].state = "unauth"]
    /\ UNCHANGED <<writeVars, company, view, screen, moduleCache, origin, target, moved, told, crossed>>

(* A 401 for good logs out, unless it is a filter's. *)
LoadRefused(k) ==
    /\ k \in Loading /\ loads[k].state \in {"again", "refused"}
    /\ loads[k].state = "again" => expired \/ user = Null
    /\ loads' = [loads EXCEPT ![k] = Null]
    /\ IF Whole(loads[k])
       THEN /\ LoggedOut /\ company' = Null /\ InvalidateAllModuleCache
            /\ crossed' = (crossed \/ Loading # {k})
            /\ UNCHANGED left
       ELSE UNCHANGED <<writeVars, company, moduleCache, crossed>>
    /\ UNCHANGED <<view, screen, origin, target, moved, told>>

(* tryRefreshSession: a load sends those of its requests that were answered 401
   again, for the company of now, or takes the 401 for an answer. *)
Refresh ==
    LET waiting == {k \in Loading : loads[k].state = "unauth"}
    IN  /\ waiting # {} \/ \E s \in Sender : wire[s] = "unauth"
        /\ TryRefreshSession
        /\ \E part \in SUBSET (UNION {DOMAIN loads[k].rows : k \in waiting}) :
             loads' = [k \in Load |->
                IF k \notin waiting THEN loads[k]
                ELSE IF expired' \/ user = Null THEN [loads[k] EXCEPT !.state = "refused"]
                ELSE [loads[k] EXCEPT !.state = "again",
                        !.rows = [s \in DOMAIN @ |-> IF s \in part THEN Rows(s, company) ELSE @[s]]]]
        /\ UNCHANGED <<company, view, screen, moduleCache, origin, target, moved, told, crossed>>

-----------------------------------------------------------------------------
(* The session. *)

(* Fault: the entries of another company are kept. *)
FaultyEnter(c, g) ==
    /\ company' = c
    /\ UNCHANGED moduleCache
    /\ IF c # Null /\ g = "open" THEN Begin(view, c) ELSE UNCHANGED loads

(* Someone enters or leaves while rows are on their way. *)
Crossing == crossed' = (crossed \/ Loading # {})

(* setSession with company c and gate g: the entries go, and the module is loaded. *)
Enter(c, g) ==
    /\ company' = c
    /\ InvalidateAllModuleCache
    /\ IF c # Null /\ g = "open" THEN Begin(view, c) ELSE UNCHANGED loads

(* handleLogin, handleRegister: maybe into a session without a company. *)
HandleLogin(u) ==
    /\ Login(u)
    /\ \E c \in Company \cup {Null} : Enter(c, gate')
    /\ Crossing /\ UNCHANGED <<view, screen, origin, target, moved, told>>

(* The user sets a new password, then maybe a second factor; the last of them
   opens the session and loads the module. *)
PassGate(next) ==
    /\ user # Null /\ ~expired
    /\ gate' = next
    /\ IF next = "open" /\ company # Null THEN Begin(view, company) ELSE UNCHANGED loads
    /\ UNCHANGED <<user, online, status, writeQueue, owner, todo, wire, closure, expired, log, history,
                   left, company, view, screen, moduleCache, origin, target, moved, told, crossed>>

HandleForcedPasswordChange == gate = "password" /\ \E next \in {"mfa", "open"} : PassGate(next)
VerifyMfaSetup == gate = "mfa" /\ PassGate("open")

(* switchCompany, selectCompanyDuringOnboarding. *)
SwitchTo(c) ==
    /\ user # Null /\ ~expired /\ c # company
    /\ Enter(c, gate) /\ Crossing
    /\ UNCHANGED <<user, online, status, writeQueue, owner, todo, wire, closure, expired, gate, log,
                   history, view, screen, origin, target, moved, told>>

SwitchCompany ==
    /\ company # Null /\ left.switches > 0
    /\ left' = [left EXCEPT !.switches = @ - 1]
    /\ \E c \in Company : SwitchTo(c)

(* selectCompanyDuringOnboarding, createCompanyDuringOnboarding. *)
ChooseCompany ==
    /\ company = Null /\ gate = "open"
    /\ \E c \in Company : SwitchTo(c)
    /\ UNCHANGED left

Leave ==
    /\ HandleLogout
    /\ company' = Null /\ InvalidateAllModuleCache
    /\ Crossing /\ UNCHANGED <<view, screen, loads, origin, target, moved, told>>

(* The page is loaded again and finds the session by its cookie. *)
RestoreSession ==
    /\ Reload
    /\ view' = Home
    /\ screen' = [s \in Slice |-> NoRows]
    /\ InvalidateAllModuleCache
    /\ \E v \in Visit :
         loads' = [k \in Load |-> IF k = v /\ Allowed
                                  THEN LoadOf(Home, SliceOf(Home), company, company) ELSE Null]
    /\ origin' = [s \in Sender |-> Nowhere] /\ moved' = [l \in Loop |-> {}]
    /\ UNCHANGED <<company, target, told, crossed>>

-----------------------------------------------------------------------------
(* Writing: the handlers of the forms around submitWriteOrQueue. *)

SubmitForm(o) ==
    /\ Allowed /\ view = Form(o).view
    /\ SubmitWriteOrQueue(o)
    /\ origin' = [origin EXCEPT ![o] = IF online THEN Here ELSE Nowhere]
    /\ target' = [target EXCEPT ![o] = company]
    /\ UNCHANGED <<shown, moved, told, crossed>>

(* The server's rows change. *)
Served(s) ==
    /\ Serve(s)
    /\ crossed' = (crossed \/ (log' # log /\ Loading # {}))
    /\ UNCHANGED <<shown, origin, target, moved, told>>

(* refreshCurrentModuleAfterWrite of the render sender s was started from. *)
RefreshCurrentModuleAfterWrite(s) ==
    /\ InvalidateAllModuleCache
    /\ loads' = [loads EXCEPT ![s] = LoadOf(origin[s].module, SliceOf(origin[s].module),
                                            origin[s].company, company)]
    /\ UNCHANGED <<company, view, screen>>

FormDone(o) ==
    /\ FinishDirect(o)
    /\ IF wire[o] = "ok"
       THEN RefreshCurrentModuleAfterWrite(o) /\ told' = told \cup {o}
       ELSE UNCHANGED <<shown, told>>
    /\ origin' = [origin EXCEPT ![o] = Nowhere]
    /\ UNCHANGED <<target, moved, crossed>>

LoopStarts(l) ==
    /\ loads[l] = Null
    /\ StartSync(l)
    /\ origin' = [origin EXCEPT ![l] = Here]
    /\ UNCHANGED <<shown, target, moved, told, crossed>>

LoopSends(l) == LoopSend(l) /\ UNCHANGED scene

LoopApplied(l) ==
    /\ LoopAccepted(l)
    /\ moved' = [moved EXCEPT ![l] = @ \cup {Head(todo[l])}]
    /\ UNCHANGED <<shown, origin, target, told, crossed>>

(* What was applied before the failure is not loaded again. *)
LoopStops(l) ==
    /\ LoopFailed(l)
    /\ origin' = [origin EXCEPT ![l] = Nowhere] /\ moved' = [moved EXCEPT ![l] = {}]
    /\ UNCHANGED <<shown, target, told, crossed>>

LoopDone(l) ==
    /\ LoopFinished(l)
    /\ IF moved[l] # {} THEN RefreshCurrentModuleAfterWrite(l) ELSE UNCHANGED shown
    /\ origin' = [origin EXCEPT ![l] = Nowhere] /\ moved' = [moved EXCEPT ![l] = {}]
    /\ told' = told \cup moved[l]
    /\ UNCHANGED <<target, crossed>>

-----------------------------------------------------------------------------
Client(s) == \/ s \in Op /\ FormDone(s)
             \/ s \in Loop /\ (LoopStarts(s) \/ LoopSends(s) \/ LoopApplied(s)
                               \/ LoopStops(s) \/ LoopDone(s))

World == (\E s \in Sender : Lose(s)) \/ HandleOffline \/ HandleOnline \/ Expire

Session == \/ SwitchCompany \/ ChooseCompany \/ Leave \/ RestoreSession
           \/ HandleForcedPasswordChange \/ VerifyMfaSetup
           \/ \E u \in User : HandleLogin(u)

ClientNext ==
    \/ \E o \in Op : SubmitForm(o)
    \/ \E s \in Sender : Client(s) \/ Served(s)
    \/ World /\ UNCHANGED scene
    \/ Session
    \/ \E m \in Module : LoadModuleData(m)
    \/ \E k \in Load : Loaded(k) \/ LoadFailed(k) \/ LoadUnauthorized(k) \/ LoadRefused(k)
    \/ Refresh \/ ApplyDashboardFilter

ClientSpec == ScreenInit /\ [][ClientNext]_all

(* Effects and continuations run, requests are answered, and the connection
   comes back. *)
FairClientSpec ==
    /\ ClientSpec
    /\ WF_all(HandleOnline /\ UNCHANGED scene) /\ WF_all(Refresh)
    /\ \A k \in Load : WF_all(Loaded(k) \/ LoadUnauthorized(k) \/ LoadRefused(k))
    /\ \A s \in Sender : WF_all(Client(s)) /\ WF_all(Served(s))

-----------------------------------------------------------------------------
(* Properties. *)

(* A module that need not be loaded again shows the rows of the company the
   user works for, with every write of that company whose handler has
   finished, in every slice it shares with other modules, whatever switches,
   log-ins, replays and refreshed sessions came before.  Excepted is what
   markModuleLoaded cannot know: user, company or rows that changed during a
   load, and a dashboard of which only a filter was loaded. *)
OwnRows ==
    ~ crossed /\ company # Null =>
        \A m \in Module : UpToDate(m) =>
            \A s \in SliceOf(m) :
                /\ screen[s].company = company
                /\ \A o \in told : target[o] = company /\ s \in Form(o).writes
                                     => o \in screen[s].seen

-----------------------------------------------------------------------------
(* The inductive invariant behind OwnRows. *)

RowsType == [company : Company \cup {Null}, seen : SUBSET Op]
LoadType == [module : Module, key : Company \cup {Null},
             rows : UNION {[part -> RowsType] : part \in SUBSET (Slice \cup {"kpis"})},
             state : {"sent", "unauth", "again", "refused"}]

ScreenTypeOK ==
    /\ company \in Company \cup {Null}
    /\ moduleCache \in [Module -> Company \cup {Null}]
    /\ target \in [Op -> Company \cup {Null}]
    /\ told \subseteq Applied /\ crossed \in BOOLEAN
    /\ moved \in [Loop -> SUBSET Applied]
    /\ origin \in [Sender -> [company : Company \cup {Null}, module : Module]]
    /\ view \in Module
    /\ screen \in [Slice -> RowsType]
    /\ loads \in [Load -> LoadType \cup {Null}]

(* The rows on their way are those of now, unless something crossed them. *)
LoadsOwn ==
    ~ crossed =>
        \A k \in Loading : \A s \in DOMAIN loads[k].rows : loads[k].rows[s] = Rows(s, company)

ScreenInv == WriteInv /\ ScreenTypeOK /\ LoadsOwn /\ OwnRows
=============================================================================
