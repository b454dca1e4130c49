-------------------------- MODULE FacilitatorPages --------------------------
(***************************************************************************)
(* The pages of the dashboard that show what the facilitator has: services *)
(* and what they earn, transactions, settlements, API keys.  They ask      *)
(* through one cache, the QueryClient of the layout: what is under a key   *)
(* is shown by every page that uses it, is asked for again whenever such a *)
(* page is opened or looked at, once at a time, and is kept for a while    *)
(* after the last of them.  A page is loading while a key of its own has   *)
(* nothing and is asked for.                                               *)
(*                                                                         *)
(* What is private is asked for with a token that has four parts; the      *)
(* facilitator wants three (middleware/auth.ts).  The form for a service   *)
(* registers it with the registry, and the pages list those that the       *)
(* facilitator was given, with an API key, by somebody else.               *)
(***************************************************************************)
EXTENDS Integers, Sequences, FiniteSets

CONSTANTS
    TopServices,    \* how many services are trending, 10
    MaxServices,    \* bounds: services, and all changes at the facilitator,
    MaxChanges,
    MaxIncidents    \* requests that fail, reloads and changes of the wallet

FacilitatorPagesAssumption ==
    /\ TopServices \in Nat \ {0}
    /\ MaxServices \in Nat /\ MaxChanges \in Nat
    /\ MaxIncidents \in Nat

VARIABLES
    service,    \* the facilitator's services, in order: is it the wallet's? its calls of 7 days
    version,    \* how often they have changed
    granted,    \* history: has the facilitator done anything that is the wallet's to ask?
    connected,  \* is there a wallet?
    page, opened, \* the page, and the service that it is about, with the version of the link
    query,      \* the cache, by key
    form,       \* the request of the page's button
    incidents

facilitatorVars == <<service, version, granted>>
facilitatorPageVars == <<facilitatorVars, connected, page, opened, query, form, incidents>>

\* The first part of each queryKey; the transactions page keeps a state of its own.
Public == {"all-services", "trending-services"}
OfWallet == {"wallet-service-stats", "settlement-history", "pending-settlement", "merchant-stats",
             "recent-transactions", "api-keys", "webhook-config", "ownTransactions"}
OfService == {"service-stats", "service-transactions"}
Keys == Public \cup OfWallet \cup OfService

Nothing == [kind |-> "none", upto |-> 0, top |-> {}, version |-> 0]
Empty == [Nothing EXCEPT !.kind = "empty"]
Private == [Nothing EXCEPT !.kind = "private"]
Refusal == [Nothing EXCEPT !.kind = "refusal"]
Idle == [pc |-> "idle", data |-> Nothing, answer |-> Nothing]
NoService == [id |-> 0, version |-> 0]

TypeOK ==
    /\ service \in Seq([own : BOOLEAN, calls : 0..MaxChanges]) /\ Len(service) <= MaxServices
    /\ version \in 0..MaxChanges /\ granted \in BOOLEAN /\ connected \in BOOLEAN
    /\ page \in {"services", "manage", "serviceAnalytics", "new", "discover", "trending", "merchant",
                 "settlements", "transactions", "settings"}
    /\ opened \in [id : 0..MaxServices, version : 0..MaxChanges]
    /\ \A k \in Keys :
          /\ query[k].pc \in {"idle", "asked", "answered"}
          /\ query[k].data.kind \in {"none", "list", "ranks", "empty", "private"}
          /\ query[k].answer.kind \in {"none", "list", "ranks", "empty", "private"}
    /\ form \in {"idle", "registering", "asking", "saving"}
    /\ incidents \in 0..MaxIncidents

-----------------------------------------------------------------------------
\* What the facilitator answers

\* getAuthToken: the wallet, its signature and a message that has a colon
TokenParts == <<"wallet", "signature", "x402-auth", "time">>

\* verifyWalletSignature: three parts, the time after a colon in the third
Verified(parts) == Len(parts) = 3 /\ parts[3] = "x402-auth:time"

\* getAuthHeaders throws without a wallet.
Authorized == connected /\ Verified(TokenParts)

GetServices == [Nothing EXCEPT !.kind = "list", !.upto = Len(service), !.version = version]

\* As many services as may be, of those that were called in 7 days; none that was called more
\* is missing.
TrendingTops ==
    LET called == {i \in DOMAIN service : service[i].calls > 0} IN
    {top \in SUBSET called :
        /\ \A s \in top, t \in called \ top : service[t].calls <= service[s].calls
        /\ Cardinality(top) <= TopServices
        /\ Cardinality(top) = TopServices \/ top = called}
GetTrendingServices == {[Nothing EXCEPT !.kind = "ranks", !.top = t, !.version = version] : t \in TrendingTops}

GetTransactions == IF Authorized THEN Private ELSE Refusal
GetPendingSettlement == IF Authorized THEN Private ELSE Refusal
GetSettlementHistory == IF Authorized THEN Private ELSE Refusal
GetRecentTransactions == GetTransactions
GetServiceStats == GetTransactions
\* Promise.all, with the services, which are public
GetMerchantStats == IF Refusal \in {GetTransactions, GetPendingSettlement} THEN Refusal ELSE Private
\* The settings page takes a refusal for an answer.
ListKeys == IF connected /\ GetTransactions = Refusal THEN Empty ELSE GetTransactions
WebhookConfig == IF connected /\ GetTransactions = Refusal THEN Empty ELSE GetTransactions

Answers(k) ==
    CASE k = "all-services" -> {GetServices}
      [] k = "trending-services" -> GetTrendingServices
      [] k \in {"wallet-service-stats", "service-stats"} -> {GetServiceStats}
      [] k \in {"service-transactions", "ownTransactions"} -> {GetTransactions}
      [] k = "pending-settlement" -> {GetPendingSettlement}
      [] k = "settlement-history" -> {GetSettlementHistory}
      [] k = "merchant-stats" -> {GetMerchantStats}
      [] k = "recent-transactions" -> {GetRecentTransactions}
      [] k = "api-keys" -> {ListKeys}
      [] k = "webhook-config" -> {WebhookConfig}

-----------------------------------------------------------------------------
\* The pages: the keys that they use, what they show of services, which links they have, and
\* what their buttons may ask

\* Nothing of a wallet is shown without it.
Data(k) == IF k \in OfWallet /\ ~connected THEN Nothing ELSE query[k].data
Has(k) == Data(k).kind # "none"
Loading(ks) == \E k \in ks : query[k].pc # "idle" /\ ~Has(k)
Listed == 1..Data("all-services").upto
Own == {i \in Listed : service[i].own}
Quiet == [uses |-> {}, shows |-> {}, links |-> {}, may |-> {}]
ServiceKeys == {"all-services", "service-stats", "service-transactions"}

\* Statistics are asked for when the list is there.
ServicesPage ==
    LET uses == {"all-services", "wallet-service-stats"}
        rows == IF connected /\ ~Loading(uses) THEN Own ELSE {} IN
    [Quiet EXCEPT !.uses = uses, !.shows = rows, !.links = rows]

ManagePage ==
    [Quiet EXCEPT !.uses = ServiceKeys, !.shows = IF Loading(ServiceKeys) THEN {} ELSE {opened.id} \cap Listed]

ServiceAnalyticsPage == ManagePage

NewServicePage == [Quiet EXCEPT !.may = IF connected THEN {"register"} ELSE {}]

\* All that its filters leave; the page of a service that it opens cannot be compiled.
DiscoverPage == [Quiet EXCEPT !.uses = {"all-services"}, !.shows = IF Has("all-services") THEN Listed ELSE {}]

TrendingPage ==
    [Quiet EXCEPT !.uses = {"trending-services"}, !.shows = Data("trending-services").top,
                  !.links = Data("trending-services").top]

\* Both settlement buttons want something pending that has been read.
MayRequestSettlement == Data("pending-settlement").kind = "private"
MerchantPage ==
    LET uses == {"merchant-stats", "recent-transactions", "pending-settlement"} IN
    [Quiet EXCEPT !.uses = uses,
                  !.may = IF ~Loading({"merchant-stats", "pending-settlement"}) /\ MayRequestSettlement
                          THEN {"settlement"} ELSE {}]

SettlementsPage ==
    [Quiet EXCEPT !.uses = {"settlement-history", "pending-settlement"},
                  !.may = IF MayRequestSettlement THEN {"settlement"} ELSE {}]

TransactionsPage == [Quiet EXCEPT !.uses = {"ownTransactions"}]

KeysShown == Data("api-keys").kind = "private"
SettingsPage ==
    [Quiet EXCEPT !.uses = {"api-keys", "webhook-config"},
                  !.may = {"wallet"} \cup (IF connected THEN {"createKey", "webhook"} ELSE {})
                                     \cup (IF KeysShown THEN {"revokeKey"} ELSE {})]

ViewOf(p) ==
    CASE p = "services" -> ServicesPage
      [] p = "manage" -> ManagePage
      [] p = "serviceAnalytics" -> ServiceAnalyticsPage
      [] p = "new" -> NewServicePage
      [] p = "discover" -> DiscoverPage
      [] p = "trending" -> TrendingPage
      [] p = "merchant" -> MerchantPage
      [] p = "settlements" -> SettlementsPage
      [] p = "transactions" -> TransactionsPage
      [] p = "settings" -> SettingsPage
View == ViewOf(page)

\* enabled
Enabled(k, wallet, q) ==
    /\ k \in OfWallet => wallet
    /\ k = "wallet-service-stats" => q["all-services"].data.kind # "none"

-----------------------------------------------------------------------------
\* The cache

\* No statistics are asked for without a service of one's own.
Ask(k, q) ==
    LET own == \E i \in 1..q["all-services"].data.upto : service[i].own IN
    [q EXCEPT ![k] = IF k = "wallet-service-stats" /\ ~own THEN [Idle EXCEPT !.data = Empty]
                        ELSE [Idle EXCEPT !.pc = "asked", !.data = q[k].data]]

\* Each key of the page that is enabled, and not asked for already, is.
AskAll(p, wallet, q) ==
    LET due == {k \in ViewOf(p).uses : Enabled(k, wallet, q) /\ q[k].pc = "idle"} IN
    [k \in Keys |-> IF k \in due THEN Ask(k, q)[k] ELSE q[k]]

\* A query that fails is given up, or tried again, which is done three times while a page uses
\* it; the transactions page's is not.
Fail(k) ==
    \/ query' = [query EXCEPT ![k] = [Idle EXCEPT !.data = query[k].data]]
    \/ k \in View.uses /\ k # "ownTransactions" /\ UNCHANGED query

Init ==
    /\ service = <<>> /\ version = 0 /\ granted = FALSE
    /\ connected \in BOOLEAN
    /\ page = "new" /\ opened = NoService
    /\ query = [k \in Keys |-> Idle]
    /\ form = "idle" /\ incidents = 0

Incident == incidents < MaxIncidents /\ incidents' = incidents + 1
UnchangedPage == UNCHANGED <<connected, page, opened, query, form, incidents>>

\* POST /api/services, by who has an API key
CreateService ==
    /\ Len(service) < MaxServices /\ version < MaxChanges /\ version' = version + 1
    /\ \E own \in BOOLEAN : service' = Append(service, [own |-> own, calls |-> 0])
    /\ UNCHANGED granted /\ UnchangedPage

\* POST /api/transactions/record, by who has an API key, or one is older than 7 days
CountCall ==
    /\ version < MaxChanges /\ version' = version + 1
    /\ \E i \in DOMAIN service, d \in {1, -1} :
          service[i].calls + d >= 0 /\ service' = [service EXCEPT ![i].calls = @ + d]
    /\ UNCHANGED granted /\ UnchangedPage

\* A page is opened, by its link.  Bound: buttons that ask the facilitator, and keys that it does
\* not use itself, have been answered.
Show(p, target) ==
    LET q == [query EXCEPT !["ownTransactions"] = Idle] IN
    /\ page' = p /\ opened' = target
    /\ query' = AskAll(p, connected, q)
    /\ form \notin {"asking", "saving"}
    /\ \A k \in Keys \ ViewOf(p).uses : q[k].pc = "idle"

Asking == form # "idle"

Open(p) ==
    /\ p # page /\ Show(p, NoService)
    /\ UNCHANGED <<facilitatorVars, connected, form, incidents>>

OpenService(p) ==
    /\ p = "manage" \/ page = "services"
    /\ \E id \in View.links :
          Show(p, [id |-> id, version |-> Data(IF page = "trending" THEN "trending-services"
                                                                    ELSE "all-services").version])
    /\ UNCHANGED <<facilitatorVars, connected, form, incidents>>

\* At an interval, and whenever the window is looked at again
Fetch(k) ==
    /\ k \in View.uses /\ Enabled(k, connected, query) /\ query[k].pc = "idle"
    /\ query' = Ask(k, query)
    /\ UNCHANGED <<facilitatorVars, connected, page, opened, form, incidents>>

Answer(k) ==
    /\ query[k].pc = "asked"
    /\ \E a \in Answers(k) :
          IF a = Refusal THEN Fail(k)
          ELSE query' = IF k \in Public THEN [query EXCEPT ![k].pc = "answered", ![k].answer = a]
                        ELSE [query EXCEPT ![k] = [Idle EXCEPT !.data = a]]
    /\ UNCHANGED <<facilitatorVars, connected, page, opened, form, incidents>>

Receive(k) ==
    LET a == query[k].answer
        q == [query EXCEPT ![k] = [Idle EXCEPT !.data = a]] IN
    /\ query[k].pc = "answered"
    /\ query' = IF k = "all-services" /\ query[k].data = Nothing THEN AskAll(page, connected, q) ELSE q
    /\ UNCHANGED <<facilitatorVars, connected, page, opened, form, incidents>>

Lose(k) ==
    /\ query[k].pc = "asked" /\ Incident
    /\ Fail(k)
    /\ UNCHANGED <<facilitatorVars, connected, page, opened, form>>

\* What no page has used for a while is dropped.
Collect(k) ==
    /\ k \notin View.uses /\ query[k].pc = "idle" /\ query[k].data # Nothing
    /\ query' = [query EXCEPT ![k] = Idle]
    /\ UNCHANGED <<facilitatorVars, connected, page, opened, form, incidents>>

Reload ==
    /\ Incident
    /\ query' = AskAll(page, connected, [k \in Keys |-> Idle])
    /\ form' = "idle"
    /\ UNCHANGED <<facilitatorVars, connected, page, opened>>

\* handleImportWallet, handleClearWallet
ChangeWallet ==
    /\ "wallet" \in View.may /\ Incident
    /\ connected' = ~connected
    /\ query' = AskAll(page, connected', query)
    /\ UNCHANGED <<facilitatorVars, page, opened, form>>

\* A button: of the settings page, or for a settlement, or to register
Press(what) ==
    /\ ~Asking /\ what \in View.may \ {"wallet"}
    /\ form' = CASE what = "register" -> "registering" [] what = "webhook" -> "saving" [] OTHER -> "asking"
    /\ UNCHANGED <<facilitatorVars, connected, page, opened, query, incidents>>

\* generateApiKey, deleteApiKey, saveWebhookSettings, requestSettlement: once it is done, what
\* is pending or listed is asked for again, but no webhook is.
Pressed ==
    LET again == View.uses \cap {"api-keys", "pending-settlement", "settlement-history"} IN
    /\ form \in {"asking", "saving"}
    /\ granted' = (granted \/ Authorized)
    /\ form' = "idle"
    /\ query' = IF Authorized /\ form = "asking"
                THEN [k \in Keys |-> IF k \in again THEN Ask(k, query)[k] ELSE query[k]]
                ELSE query
    /\ UNCHANGED <<service, version, connected, page, opened, incidents>>

\* The registry has answered the form: the list of services is opened, wherever one is.
Registered ==
    /\ form = "registering" /\ Show("services", NoService) /\ form' = "idle"
    /\ UNCHANGED <<facilitatorVars, connected, incidents>>

NotRegistered ==
    /\ form = "registering" /\ form' = "idle"
    /\ UNCHANGED <<page, opened, query>>
    /\ UNCHANGED <<facilitatorVars, connected, incidents>>

FacilitatorPagesNext ==
    \/ CreateService \/ CountCall
    \/ \E p \in {"services", "new", "discover", "trending", "merchant", "settlements", "transactions",
                 "settings"} : Open(p)
    \/ \E p \in {"manage", "serviceAnalytics"} : OpenService(p)
    \/ \E k \in Keys : Fetch(k) \/ Answer(k) \/ Receive(k) \/ Lose(k) \/ Collect(k)
    \/ Reload \/ ChangeWallet
    \/ \E what \in {"createKey", "revokeKey", "webhook", "settlement", "register"} : Press(what)
    \/ Pressed \/ Registered \/ NotRegistered
-----------------------------------------------------------------------------
\* Nothing that is the wallet's is ever read by a page, and nothing is done for it: no key is
\* created, no webhook set and no settlement requested.
NothingPrivate == ~granted /\ \A k \in Keys : query[k].data.kind # "private"

\* A service that a page links to is found by the list, once it is as new as the link.
LinkFound ==
    LET list == query["all-services"].data IN
    opened.id # 0 /\ list # Nothing /\ list.version >= opened.version => opened.id \in 1..list.upto

FacilitatorPagesSound == NothingPrivate /\ LinkFound
=============================================================================
