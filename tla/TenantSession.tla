--------------------------- MODULE TenantSession ---------------------------
(***************************************************************************)
(* The browser pages of one login and the auth session row they share.     *)
(* A page is mounted with the tenant and the session version that          *)
(* GET /session/context returned; each tenant-scoped request carries that  *)
(* version as a precondition.  A switch of the active tenant rotates the   *)
(* version; other pages learn of it from a broadcast that may be lost, or  *)
(* from the answer to their next request.                                  *)
(* A request is three steps of the server: it resolves the tenant of the   *)
(* session row, reads the row's version in a second transaction, and then  *)
(* runs; a switch ends with a compare-and-swap of the row.                 *)
(***************************************************************************)
EXTENDS Naturals

CONSTANTS
    Pages,        \* browser tabs sharing the auth session cookie
    Tenants,      \* tenants the principal is a member of
    FirstTenant,  \* the tenant of the login
    MaxVersion,   \* bound on the session versions issued
    None

ASSUME MaxVersionAssumption == MaxVersion \in Nat \ {0}
ASSUME TenantAssumption == FirstTenant \in Tenants /\ None \notin Tenants

VARIABLES
    session,    \* SaasAuthSessionRow: active_tenant_id, tenant_session_version
    tenantOf,   \* history: the tenant each issued version was issued for
    page,       \* per page: tenantSwitchUiState and the mounted session context
    api,        \* per page: the tenant-scoped request in flight (bound: one)
    sess,       \* per page: the context or switch request in flight
    shown       \* tenant whose content the page shows

vars == <<session, tenantOf, page, api, sess, shown>>

Versions == 1..MaxVersion
Kinds == {"load", "save"}

\* The screens of a page: the start-up gates, then the app.
Uis == {"starting", "idle", "confirming", "switching", "blocked"}
AppUis == {"idle", "confirming", "switching", "blocked"}

NoApi == [kind |-> "none", step |-> "none", version |-> 0, tenant |-> None, out |-> "none", stale |-> FALSE]
NoSess == [kind |-> "none", step |-> "none", target |-> None, version |-> 0,
           tenant |-> None, out |-> "none", aborted |-> FALSE]

FreshPage == [ui |-> "starting", tenant |-> None, version |-> 0]

Issued == {v \in Versions : tenantOf[v] # None}
NextVersion == CHOOSE v \in Versions : v \notin Issued /\ \A w \in Versions \ Issued : v <= w

\* An app that is mounted has a version that was issued.
TypeOK ==
    /\ session \in [tenant : Tenants, version : Versions]
    /\ tenantOf \in [Versions -> Tenants \cup {None}]
    /\ page \in [Pages -> [ui : Uis, tenant : Tenants \cup {None}, version : 0..MaxVersion]]
    /\ api \in [Pages -> [kind : Kinds \cup {"none"},
                          step : {"none", "sent", "resolved", "answered"},
                          version : 0..MaxVersion, tenant : Tenants \cup {None},
                          out : {"none", "ok", "changed", "failed"}, stale : BOOLEAN]]
    /\ sess \in [Pages -> [kind : {"none", "context", "switch"},
                           step : {"none", "saving", "sent", "resolved", "checked", "answered"},
                           target : Tenants \cup {None}, version : 0..MaxVersion,
                           tenant : Tenants \cup {None},
                           out : {"none", "ok", "changed", "failed"}, aborted : BOOLEAN]]
    /\ shown \in [Pages -> Tenants \cup {None}]
    /\ \A p \in Pages : page[p].ui \in AppUis => page[p].version \in Issued

Init ==
    /\ session = [tenant |-> FirstTenant, version |-> 1]
    /\ tenantOf = [v \in Versions |-> IF v = 1 THEN FirstTenant ELSE None]
    /\ page = [p \in Pages |-> FreshPage]
    /\ api = [p \in Pages |-> NoApi]
    /\ sess = [p \in Pages |-> NoSess]
    /\ shown = [p \in Pages |-> None]

-----------------------------------------------------------------------------
(* Start of a page: the runtime policy gate, then the session gate.         *)

SetUi(p, ui) == page' = [page EXCEPT ![p].ui = ui]

\* A start that fails (verifyTenantSessionRuntimePolicy, an unusable answer)
\* shows a screen whose only way on is to try again: the page stays starting.

\* bootstrapTenantSession asks for the session context.
RequestContext(p) ==
    /\ page[p].ui = "starting" /\ sess[p].kind = "none"
    /\ sess' = [sess EXCEPT ![p] = [NoSess EXCEPT !.kind = "context", !.step = "sent"]]
    /\ UNCHANGED <<session, tenantOf, page, api, shown>>

ReceiveContextUnchecked(p) ==     \* mutant: mounts whatever came back
    /\ sess[p].kind = "context" /\ sess[p].step = "answered"
    /\ page' = [page EXCEPT ![p] = [ui |-> "idle", tenant |-> sess[p].tenant,
                                   version |-> sess[p].version]]
    /\ sess' = [sess EXCEPT ![p] = NoSess]
    /\ UNCHANGED <<session, tenantOf, api, shown>>

\* parseTenantSessionContext accepts the answer and the app mounts with it.
ReceiveContext(p) ==
    /\ sess[p].kind = "context" /\ sess[p].step = "answered"
    /\ page' = [page EXCEPT ![p] =
         IF sess[p].out = "ok"
         THEN [ui |-> "idle", tenant |-> sess[p].tenant, version |-> sess[p].version]
         ELSE FreshPage]
    /\ sess' = [sess EXCEPT ![p] = NoSess]
    /\ UNCHANGED <<session, tenantOf, api, shown>>

\* window.location.reload or replace: the JavaScript world starts afresh.
Restart(p) ==
    /\ page' = [page EXCEPT ![p] = FreshPage]
    /\ api' = [api EXCEPT ![p] = NoApi]
    /\ sess' = [sess EXCEPT ![p] = NoSess]
    /\ shown' = [shown EXCEPT ![p] = None]

Reload(p) ==
    /\ page[p].ui \in {"blocked", "idle"}
    /\ Restart(p)
    /\ UNCHANGED <<session, tenantOf>>

-----------------------------------------------------------------------------
(* Tenant-scoped requests of the app.                                       *)

SendApi(p, k) ==
    api' = [api EXCEPT ![p] = [NoApi EXCEPT !.kind = k, !.step = "sent", !.version = page[p].version]]

\* runTenantScopedApiRequest with the mounted context as precondition.
Request(p, k) ==
    /\ page[p].ui = "idle" /\ api[p].kind = "none"
    /\ k = "save" => shown[p] # None
    /\ SendApi(p, k)
    /\ UNCHANGED <<session, tenantOf, page, sess, shown>>

\* resolve_trusted_saas_request_session, first read: the tenant of the row.
ResolveApi(p) ==
    /\ api[p].step = "sent"
    /\ api' = [api EXCEPT ![p].step = "resolved", ![p].tenant = session.tenant]
    /\ UNCHANGED <<session, tenantOf, page, sess, shown>>

RunApiUnchecked(p) ==     \* mutant: no precondition
    /\ api[p].step = "resolved"
    /\ \E out \in {"ok", "failed"} :
         api' = [api EXCEPT ![p].step = "answered", ![p].out = out]
    /\ UNCHANGED <<session, tenantOf, page, sess, shown>>

\* require_tenant_session_request_precondition: the version is read from the
\* row a second time and compared before the resource lookup, which then runs
\* under the tenant read first.
RunApi(p) ==
    /\ api[p].step = "resolved"
    /\ \E out \in {"ok", "changed", "failed"} :
         /\ out = "ok" => session.version = api[p].version
         /\ out = "changed" => session.version # api[p].version
         /\ api' = [api EXCEPT ![p].step = "answered", ![p].out = out]
    /\ UNCHANGED <<session, tenantOf, page, sess, shown>>

\* cleanupRuntimeResources: the generation guard drops every result under way
\* and the switch under way is aborted.
InvalidApi(p) == [api[p] EXCEPT !.stale = api[p].kind # "none"]
InvalidSess(p) == [sess[p] EXCEPT !.aborted = sess[p].kind = "switch"]

\* loadDocument after its await.  An error of the request itself is seen
\* before the generation guard compares generations.
ReceiveLoad(p) ==
    LET a == api[p] IN
    /\ a.kind = "load" /\ a.step = "answered"
    /\ api' = [api EXCEPT ![p] = NoApi]
    /\ IF a.out = "changed"
       THEN /\ sess' = [sess EXCEPT ![p] = InvalidSess(p)]
            /\ SetUi(p, "blocked")
            /\ UNCHANGED shown
       ELSE /\ IF a.out = "ok" /\ ~a.stale
               THEN shown' = [shown EXCEPT ![p] = a.tenant]
               ELSE UNCHANGED shown
            /\ UNCHANGED <<sess, page>>
    /\ UNCHANGED <<session, tenantOf>>

\* handleSave after its await; when the switch waits for the save, its answer
\* also decides how performTenantSwitch goes on.
ReceiveSave(p) ==
    LET a == api[p]
        saved == a.out = "ok" /\ ~a.stale
        changed == a.out = "changed"
        waited == sess[p].step = "saving"
    IN
    /\ a.kind = "save" /\ a.step = "answered"
    /\ api' = [api EXCEPT ![p] = NoApi]
    /\ shown' = [shown EXCEPT ![p] = IF saved THEN a.tenant ELSE @]
    /\ page' = [page EXCEPT ![p].ui = IF waited /\ ~saved THEN "idle"
                                     ELSE IF changed THEN "blocked" ELSE @]
    /\ sess' = [sess EXCEPT ![p] =
         IF ~waited THEN IF changed THEN InvalidSess(p) ELSE @
         ELSE IF saved /\ ~@.aborted THEN [@ EXCEPT !.step = "sent"] ELSE NoSess]
    /\ UNCHANGED <<session, tenantOf>>

-----------------------------------------------------------------------------
(* Session requests on the server.                                          *)

\* GET /session/context, first read of resolve_trusted_saas_request_session.
ResolveContext(p) ==
    /\ sess[p].kind = "context" /\ sess[p].step = "sent"
    /\ sess' = [sess EXCEPT ![p].step = "resolved", ![p].tenant = session.tenant]
    /\ UNCHANGED <<session, tenantOf, page, api, shown>>

\* The second read completes the answer.
AnswerContext(p) ==
    /\ sess[p].step = "resolved"
    /\ sess' = [sess EXCEPT ![p].step = "answered", ![p].out = "ok", ![p].version = session.version]
    /\ UNCHANGED <<session, tenantOf, page, api, shown>>

\* POST /session/active-tenant: the version the page names must be current.
CheckSwitch(p) ==
    /\ sess[p].kind = "switch" /\ sess[p].step = "sent"
    /\ sess' = [sess EXCEPT ![p] =
         IF @.version = session.version THEN [@ EXCEPT !.step = "checked"]
         ELSE [@ EXCEPT !.step = "answered", !.out = "changed"]]
    /\ UNCHANGED <<session, tenantOf, page, api, shown>>

SwapAlways(p) == TRUE     \* mutant: UPDATE without the version

\* rotate_active_tenant: UPDATE ... WHERE tenant_session_version = expected.
SwapMatches(p) == session.version = sess[p].version

Rotate(p) ==
    /\ sess[p].step = "checked" /\ Issued # Versions
    /\ IF SwapMatches(p)
       THEN /\ session' = [session EXCEPT !.tenant = sess[p].target, !.version = NextVersion]
            /\ tenantOf' = [tenantOf EXCEPT ![NextVersion] = sess[p].target]
            /\ sess' = [sess EXCEPT ![p].step = "answered", ![p].out = "ok"]
       ELSE /\ sess' = [sess EXCEPT ![p].step = "answered", ![p].out = "changed"]
            /\ UNCHANGED <<session, tenantOf>>
    /\ UNCHANGED <<page, api, shown>>

\* The request or its answer is lost, or the server refuses it with 5xx.
LoseSess(p) ==
    /\ sess[p].step \in {"sent", "resolved", "checked"} \/ sess[p].out = "ok"
    /\ sess' = [sess EXCEPT ![p].step = "answered", ![p].out = "failed"]
    /\ UNCHANGED <<session, tenantOf, page, api, shown>>

-----------------------------------------------------------------------------
(* Switching the tenant from a page.                                        *)

SwitchTo(p, t, step) ==
    sess' = [sess EXCEPT ![p] = [NoSess EXCEPT !.kind = "switch", !.step = step,
                                              !.target = t, !.version = page[p].version]]

\* handleTenantChangeRequest: unsaved changes, which a page with content may
\* have at any time, are asked about first.
RequestSwitch(p, t) ==
    /\ page[p].ui = "idle" /\ sess[p].kind = "none" /\ t # page[p].tenant
    /\ \/ /\ shown[p] # None
          /\ SetUi(p, "confirming")
          /\ sess' = [sess EXCEPT ![p].target = t]
       \/ /\ SetUi(p, "switching")
          /\ SwitchTo(p, t, "sent")
    /\ UNCHANGED <<session, tenantOf, api, shown>>

\* handleTenantSwitchDecision
Cancel(p) ==
    /\ page[p].ui = "confirming"
    /\ SetUi(p, "idle")
    /\ sess' = [sess EXCEPT ![p] = NoSess]
    /\ UNCHANGED <<session, tenantOf, api, shown>>

Discard(p) ==
    /\ page[p].ui = "confirming"
    /\ SetUi(p, "switching")
    /\ SwitchTo(p, sess[p].target, "sent")
    /\ UNCHANGED <<session, tenantOf, api, shown>>

SaveFirstAlways(p) ==     \* mutant: switches although no save was started
    /\ page[p].ui = "confirming" /\ api[p].kind # "load"
    /\ SetUi(p, "switching")
    /\ IF api[p].kind = "none" THEN SendApi(p, "save") ELSE UNCHANGED api
    /\ IF api[p].kind = "none" THEN SwitchTo(p, sess[p].target, "saving") ELSE UNCHANGED sess
    /\ UNCHANGED <<session, tenantOf, shown>>

\* handleSave refuses while a save is under way, which ends the switch.
SaveFirst(p) ==
    /\ page[p].ui = "confirming" /\ api[p].kind # "load"
    /\ IF api[p].kind = "none"
       THEN /\ SetUi(p, "switching")
            /\ SendApi(p, "save")
            /\ SwitchTo(p, sess[p].target, "saving")
       ELSE /\ SetUi(p, "idle")
            /\ sess' = [sess EXCEPT ![p] = NoSess]
            /\ UNCHANGED api
    /\ UNCHANGED <<session, tenantOf, shown>>

\* requestTenantSessionTransition after changeActiveTenant: an aborted switch
\* says nothing; a confirmed one is published to the other pages, where it
\* may arrive as an Invalidate, and the page is replaced.
ReceiveSwitch(p) ==
    /\ sess[p].kind = "switch" /\ sess[p].step = "answered"
    /\ IF sess[p].out = "ok" /\ ~sess[p].aborted
       THEN /\ Restart(p)
       ELSE /\ page' = [page EXCEPT ![p].ui = IF sess[p].aborted THEN @ ELSE "blocked"]
            /\ sess' = [sess EXCEPT ![p] = NoSess]
            /\ UNCHANGED <<api, shown>>
    /\ UNCHANGED <<session, tenantOf>>

\* installTenantSessionCoherenceBoundary: a broadcast, a page restored from
\* the back/forward cache, the network coming back or a long absence.
Invalidate(p) ==
    /\ page[p].ui \in AppUis \ {"blocked"}
    /\ SetUi(p, "blocked")
    /\ api' = [api EXCEPT ![p] = InvalidApi(p)]
    /\ sess' = [sess EXCEPT ![p] = InvalidSess(p)]
    /\ UNCHANGED <<session, tenantOf, shown>>

-----------------------------------------------------------------------------
ServerStep(p) ==
    \/ ResolveApi(p) \/ RunApi(p)
    \/ ResolveContext(p) \/ AnswerContext(p) \/ CheckSwitch(p) \/ Rotate(p) \/ LoseSess(p)

Receive(p) == ReceiveContext(p) \/ ReceiveLoad(p) \/ ReceiveSave(p) \/ ReceiveSwitch(p)

Next ==
    \E p \in Pages :
        \/ RequestContext(p) \/ Reload(p)
        \/ \E k \in Kinds : Request(p, k)
        \/ \E t \in Tenants : RequestSwitch(p, t)
        \/ Cancel(p) \/ Discard(p) \/ SaveFirst(p) \/ Invalidate(p)
        \/ ServerStep(p) \/ Receive(p)

Spec == Init /\ [][Next]_vars

-----------------------------------------------------------------------------
(* Properties.                                                              *)

\* A request the precondition lets through ran under the tenant its version
\* was issued for, although tenant and version are read from the session row
\* in two transactions and other pages rotate the row in between
\* (saas_request_context.py, tenant_session_precondition.py).
ExecutedUnderVersion ==
    \A p \in Pages :
        api[p].out = "ok" => api[p].tenant = tenantOf[api[p].version]

\* Content on a page belongs to the tenant of the version the page was mounted
\* with, whatever answers were under way when the session changed (App.tsx
\* loadDocument and handleSave behind TenantSessionGenerationGuard).
ShownUnderVersion ==
    \A p \in Pages : shown[p] # None => shown[p] = tenantOf[page[p].version]

\* Two pages that start a switch from the same version are never both told
\* that they switched (rotate_active_tenant is a compare-and-swap).
OneSwitchPerVersion ==
    \A p, q \in Pages :
        /\ p # q /\ sess[p].kind = "switch" /\ sess[q].kind = "switch"
        /\ sess[p].out = "ok" /\ sess[q].out = "ok"
        => sess[p].version # sess[q].version

\* A page on the switching screen, which has no controls, always has a switch
\* under way whose answer takes it off that screen: no abort, refused save or
\* lost answer leaves it there (performTenantSwitch).
SwitchUnderWay ==
    \A p \in Pages : page[p].ui = "switching" =>
        /\ sess[p].kind = "switch" /\ ~sess[p].aborted
        /\ sess[p].step = "saving" => api[p].kind = "save"

\* What ADR-0061 asks of the adapter: a page is only ever served content of
\* the tenant it is mounted with.  GET /session/context reads the tenant and
\* the version in two transactions, so a switch between them mounts a page
\* with the old tenant and the new version.
ServedAsMounted == \A p \in Pages : shown[p] \in {None, page[p].tenant}

\* What ADR-0061 asks of the page: once it is blocked it stays blocked until
\* it starts afresh.  performTenantSwitch sets the state back to idle when the
\* save it waited for is refused.
BlockedUntilReload ==
    [][\A p \in Pages : page[p].ui = "blocked" => page'[p].ui \in {"blocked", "starting"}]_vars

(* A request runs and its answer is shown under the session version it was *)
(* sent with, and a tab leaves the tenant only while a switch is under way.*)
SessionInvariant ==
    TypeOK /\ ExecutedUnderVersion /\ ShownUnderVersion /\ SwitchUnderWay
=============================================================================
