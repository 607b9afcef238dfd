-------------------------- MODULE WorkspaceProofs --------------------------
(***************************************************************************)
(* Proofs about the two parts of the workspace.                            *)
(*                                                                         *)
(* TenantSession, for any pages and tenants and any number of versions:    *)
(* what the version precondition and the compare-and-swap of the session   *)
(* row guarantee to pages that race with each other.                       *)
(*                                                                         *)
(* DocumentMerge, for any finite sets of cards, islands, edges and links   *)
(* and any documents: what a merge and a patch keep of local work, and     *)
(* that neither leaves a reference without its end.                        *)
(***************************************************************************)
EXTENDS MCWorkspace, Sequences, FiniteSetTheorems, WellFoundedInduction, TLAPS

Page == [ui : Uis, tenant : Tenants \cup {None}, version : 0..MaxVersion]
Api == [kind : Kinds \cup {"none"}, step : {"none", "sent", "resolved", "answered"},
        version : 0..MaxVersion, tenant : Tenants \cup {None},
        out : {"none", "ok", "changed", "failed"}, stale : BOOLEAN]
Sess == [kind : {"none", "context", "switch"},
         step : {"none", "saving", "sent", "resolved", "checked", "answered"},
         target : Tenants \cup {None}, version : 0..MaxVersion,
         tenant : Tenants \cup {None},
         out : {"none", "ok", "changed", "failed"}, aborted : BOOLEAN]

Shapes ==
    /\ session \in [tenant : Tenants, version : Versions]
    /\ tenantOf \in [Versions -> Tenants \cup {None}]
    /\ page \in [Pages -> Page] /\ api \in [Pages -> Api] /\ sess \in [Pages -> Sess]
    /\ shown \in [Pages -> Tenants \cup {None}]

(* The row holds the newest version, and the tenant it was issued for.     *)
RowNewest == Issued = 1..session.version /\ session.tenant = tenantOf[session.version]

(* What a page g with its requests a and s and its content c knows, when   *)
(* the session row has version v and tenant t and T issued the versions.   *)
ApiKnows(v, t, T, g, a) ==
    /\ a.kind = "none" => a.step = "none"
    /\ a.kind # "none" => a.version = g.version
    /\ a.out # "none" => a.step = "answered" /\ a.kind # "none"
    /\ (a.step = "resolved" /\ a.version = v) => a.tenant = t
    /\ a.out = "ok" => a.tenant = T[a.version]

SessKnows(v, s) ==
    /\ s.kind = "none" => s.step = "none"
    /\ s.out # "none" => s.step = "answered"
    /\ s.step \in {"saving", "checked"} => s.kind = "switch"
    /\ s.step = "resolved" => s.kind = "context"
    /\ s.kind = "switch" => s.target \in Tenants /\ s.version <= v
    /\ (s.kind = "context" /\ s.out = "ok") => s.version \in 1..v
    /\ (s.kind = "switch" /\ s.out = "ok") => s.version < v

PageKnows(v, T, g, a, s, c) ==
    /\ g.version <= v
    /\ g.ui # "starting" => g.version >= 1
    /\ g.ui = "starting" => a.kind = "none" /\ c = None /\ s.kind # "switch"
    /\ s.kind = "context" => g.ui = "starting"
    /\ g.ui = "confirming" => s.kind = "none" /\ s.target \in Tenants
    /\ c # None => c = T[g.version]
    /\ g.ui = "switching" => s.kind = "switch" /\ ~s.aborted /\ (s.step = "saving" => a.kind = "save")

Knows(v, t, T, g, a, s, c) == ApiKnows(v, t, T, g, a) /\ SessKnows(v, s) /\ PageKnows(v, T, g, a, s, c)

AllKnow == \A p \in Pages :
    Knows(session.version, session.tenant, tenantOf, page[p], api[p], sess[p], shown[p])

TInv == Shapes /\ RowNewest /\ AllKnow /\ OneSwitchPerVersion

LEMMA BlankTyped ==
    /\ NoApi \in Api /\ NoSess \in Sess /\ FreshPage \in Page
    /\ NoApi.kind = "none" /\ NoApi.step = "none" /\ NoApi.out = "none"
    /\ NoSess.kind = "none" /\ NoSess.step = "none" /\ NoSess.out = "none"
    /\ FreshPage.ui = "starting" /\ FreshPage.version = 0
  BY MaxVersionAssumption DEF NoApi, NoSess, FreshPage, Api, Sess, Page, Uis

LEMMA InitTInv == Init => TInv
  <1> SUFFICES ASSUME Init PROVE TInv
    OBVIOUS
  <1>1. 1 \in Versions /\ Versions \subseteq Nat
    BY MaxVersionAssumption DEF Versions
  <1>2. Shapes
    BY <1>1, BlankTyped, TenantAssumption DEF Init, Shapes
  <1>3. session.version = 1 /\ session.tenant = FirstTenant /\ tenantOf[1] = FirstTenant
    BY <1>1 DEF Init
  <1>4. RowNewest
    <2>1. Issued = {1}
      BY <1>1, TenantAssumption DEF Init, Issued
    <2>2. QED
      BY <1>3, <2>1 DEF RowNewest
  <1>5. \A p \in Pages : page[p] = FreshPage /\ api[p] = NoApi /\ sess[p] = NoSess /\ shown[p] = None
    BY DEF Init
  <1>6. AllKnow
    <2>1. ASSUME NEW p \in Pages
          PROVE  Knows(1, FirstTenant, tenantOf, FreshPage, NoApi, NoSess, None)
      BY BlankTyped DEF Knows, ApiKnows, SessKnows, PageKnows
    <2>2. QED
      BY <1>3, <1>5, <2>1 DEF AllKnow
  <1>7. OneSwitchPerVersion
    BY <1>5, BlankTyped DEF OneSwitchPerVersion
  <1>8. QED
    BY <1>2, <1>4, <1>6, <1>7 DEF TInv

(* A step of one page that leaves the session row alone.                   *)
Becomes(p, g, a, s, c) ==
    /\ g \in Page /\ a \in Api /\ s \in Sess /\ c \in Tenants \cup {None}
    /\ page' = [page EXCEPT ![p] = g] /\ api' = [api EXCEPT ![p] = a]
    /\ sess' = [sess EXCEPT ![p] = s] /\ shown' = [shown EXCEPT ![p] = c]
    /\ UNCHANGED <<session, tenantOf>>

LEMMA PageStep ==
    ASSUME TInv, NEW p \in Pages, NEW g, NEW a, NEW s, NEW c,
           Becomes(p, g, a, s, c),
           Knows(session.version, session.tenant, tenantOf, g, a, s, c),
           (s.kind = "switch" /\ s.out = "ok") =>
               sess[p].kind = "switch" /\ sess[p].out = "ok" /\ s.version = sess[p].version
    PROVE  TInv'
  <1> USE DEF TInv, Becomes
  <1>1. Shapes'
    BY DEF Shapes
  <1>2. RowNewest'
    BY DEF RowNewest, Issued
  <1>3. /\ page'[p] = g /\ api'[p] = a /\ sess'[p] = s /\ shown'[p] = c
        /\ \A q \in Pages : q # p => /\ page'[q] = page[q] /\ api'[q] = api[q]
                                     /\ sess'[q] = sess[q] /\ shown'[q] = shown[q]
    BY DEF Shapes
  <1>4. AllKnow'
    <2>1. \A q \in Pages :
             Knows(session.version, session.tenant, tenantOf, page'[q], api'[q], sess'[q], shown'[q])
      BY <1>3 DEF AllKnow
    <2>2. QED
      BY <2>1 DEF AllKnow
  <1>5. OneSwitchPerVersion'
    BY <1>3 DEF OneSwitchPerVersion
  <1>6. QED
    BY <1>1, <1>2, <1>4, <1>5

LEMMA Untouched ==
    ASSUME TInv, NEW p \in Pages
    PROVE  /\ page[p] \in Page /\ api[p] \in Api /\ sess[p] \in Sess /\ shown[p] \in Tenants \cup {None}
           /\ page = [page EXCEPT ![p] = page[p]] /\ api = [api EXCEPT ![p] = api[p]]
           /\ sess = [sess EXCEPT ![p] = sess[p]] /\ shown = [shown EXCEPT ![p] = shown[p]]
           /\ Knows(session.version, session.tenant, tenantOf, page[p], api[p], sess[p], shown[p])
           /\ session.version \in Versions /\ session.tenant \in Tenants /\ Versions \subseteq Nat
  BY MaxVersionAssumption DEF TInv, Shapes, AllKnow, Versions
-----------------------------------------------------------------------------
(* The page starts, or starts afresh. *)
LEMMA StartKeeps ==
    ASSUME TInv, NEW p \in Pages, RequestContext(p) \/ ReceiveContext(p) \/ Reload(p)
    PROVE  TInv'
  <1> DEFINE v == session.version
             t == session.tenant
  <1>1. /\ page[p] \in Page /\ api[p] \in Api /\ sess[p] \in Sess /\ shown[p] \in Tenants \cup {None}
        /\ v \in Nat /\ Knows(v, t, tenantOf, page[p], api[p], sess[p], shown[p])
    BY Untouched
  <1>2. CASE RequestContext(p)
    <2> DEFINE s == [NoSess EXCEPT !.kind = "context", !.step = "sent"]
    <2>1. s \in Sess /\ s.kind = "context" /\ s.step = "sent" /\ s.out = "none"
      BY BlankTyped DEF NoSess, Sess
    <2>2. /\ page[p].ui = "starting" /\ sess' = [sess EXCEPT ![p] = s]
          /\ UNCHANGED <<session, tenantOf, page, api, shown>>
      BY <1>2 DEF RequestContext
    <2> HIDE DEF s
    <2>3. Knows(v, t, tenantOf, page[p], api[p], s, shown[p])
      BY <1>1, <2>1, <2>2 DEF Knows, ApiKnows, SessKnows, PageKnows
    <2>4. Becomes(p, page[p], api[p], s, shown[p])
      BY <1>1, <2>1, <2>2, Untouched DEF Becomes
    <2>5. QED
      BY <2>1, <2>3, <2>4, PageStep
  <1>3. CASE ReceiveContext(p)
    <2> DEFINE g == IF sess[p].out = "ok"
                    THEN [ui |-> "idle", tenant |-> sess[p].tenant, version |-> sess[p].version] ELSE FreshPage
    <2>1. /\ page' = [page EXCEPT ![p] = g] /\ sess' = [sess EXCEPT ![p] = NoSess]
          /\ sess[p].kind = "context" /\ UNCHANGED <<session, tenantOf, api, shown>>
      BY <1>3 DEF ReceiveContext
    <2>2. /\ g \in Page /\ g.ui \in {"idle", "starting"}
          /\ g.ui = "idle" => g.version = sess[p].version /\ sess[p].out = "ok"
          /\ g.ui = "starting" => g.version = 0
      BY <1>1, BlankTyped DEF Page, Sess, Uis
    <2> HIDE DEF g
    <2>3. Knows(v, t, tenantOf, g, api[p], NoSess, shown[p])
      BY <1>1, <2>1, <2>2, BlankTyped DEF Knows, ApiKnows, SessKnows, PageKnows
    <2>4. Becomes(p, g, api[p], NoSess, shown[p])
      BY <1>1, <2>1, <2>2, Untouched, BlankTyped DEF Becomes
    <2>5. QED
      BY <2>3, <2>4, PageStep, BlankTyped
  <1>4. CASE Reload(p)
    <2>1. /\ page' = [page EXCEPT ![p] = FreshPage] /\ api' = [api EXCEPT ![p] = NoApi]
          /\ sess' = [sess EXCEPT ![p] = NoSess] /\ shown' = [shown EXCEPT ![p] = None]
          /\ UNCHANGED <<session, tenantOf>>
      BY <1>4 DEF Reload, Restart
    <2>2. Knows(v, t, tenantOf, FreshPage, NoApi, NoSess, None)
      BY <1>1, BlankTyped DEF Knows, ApiKnows, SessKnows, PageKnows
    <2>3. Becomes(p, FreshPage, NoApi, NoSess, None)
      BY <2>1, BlankTyped DEF Becomes
    <2>4. QED
      BY <2>2, <2>3, BlankTyped, PageStep
  <1>5. QED
    BY <1>2, <1>3, <1>4

(* A tenant-scoped request on its way through the server. *)
LEMMA ApiKeeps ==
    ASSUME TInv, NEW p \in Pages, (\E k \in Kinds : Request(p, k)) \/ ResolveApi(p) \/ RunApi(p)
    PROVE  TInv'
  <1> DEFINE v == session.version
             t == session.tenant
  <1>1. /\ page[p] \in Page /\ api[p] \in Api /\ sess[p] \in Sess /\ shown[p] \in Tenants \cup {None}
        /\ v \in Nat /\ t \in Tenants /\ Knows(v, t, tenantOf, page[p], api[p], sess[p], shown[p])
    BY Untouched
  <1>2. UNCHANGED <<session, tenantOf, page, sess, shown>>
    BY DEF Request, SendApi, ResolveApi, RunApi
  <1>3. ASSUME NEW a \in Api, api' = [api EXCEPT ![p] = a], ApiKnows(v, t, tenantOf, page[p], a),
               page[p].ui = "starting" => a.kind = "none",
               page[p].ui = "switching" /\ sess[p].step = "saving" => a.kind = "save"
        PROVE  TInv'
    <2>1. Knows(v, t, tenantOf, page[p], a, sess[p], shown[p])
      BY <1>1, <1>3 DEF Knows, PageKnows
    <2>2. Becomes(p, page[p], a, sess[p], shown[p])
      BY <1>1, <1>2, <1>3, Untouched DEF Becomes
    <2>3. QED
      BY <2>1, <2>2, PageStep
  <1>4. ASSUME NEW k \in Kinds, Request(p, k) PROVE TInv'
    <2> DEFINE a == [NoApi EXCEPT !.kind = k, !.step = "sent", !.version = page[p].version]
    <2>1. a \in Api /\ a.kind = k /\ a.step = "sent" /\ a.version = page[p].version /\ a.out = "none"
      BY <1>1, BlankTyped DEF NoApi, Api, Page
    <2>2. api' = [api EXCEPT ![p] = a] /\ page[p].ui = "idle" /\ k # "none"
      BY <1>4 DEF Request, SendApi, Kinds
    <2> HIDE DEF a
    <2>3. ApiKnows(v, t, tenantOf, page[p], a)
      BY <2>1, <2>2 DEF ApiKnows
    <2>4. QED
      BY <1>3, <2>1, <2>2, <2>3
  <1>5. CASE ResolveApi(p)
    <2> DEFINE b == [api[p] EXCEPT !.step = "resolved"]
               a == [b EXCEPT !.tenant = t]
    <2>1. /\ b \in Api /\ b.kind = api[p].kind /\ b.step = "resolved" /\ b.version = api[p].version
          /\ b.out = api[p].out
      BY <1>1 DEF Api
    <2>2. api' = [api EXCEPT ![p] = a] /\ api[p].step = "sent"
      BY <1>1, <1>5 DEF ResolveApi, TInv, Shapes
    <2> HIDE DEF b
    <2>3. /\ a \in Api /\ a.kind = b.kind /\ a.step = b.step /\ a.version = b.version
          /\ a.out = b.out /\ a.tenant = t
      BY <1>1, <2>1 DEF Api
    <2> HIDE DEF a
    <2>4. ApiKnows(v, t, tenantOf, page[p], a)
      BY <1>1, <2>1, <2>2, <2>3 DEF Knows, ApiKnows
    <2>5. QED
      BY <1>1, <1>3, <2>1, <2>2, <2>3, <2>4 DEF Knows, PageKnows
  <1>6. CASE RunApi(p)
    <2>1. PICK out \in {"ok", "changed", "failed"} :
             /\ out = "ok" => v = api[p].version
             /\ api' = [api EXCEPT ![p].step = "answered", ![p].out = out]
      BY <1>6 DEF RunApi
    <2> DEFINE b == [api[p] EXCEPT !.step = "answered"]
               a == [b EXCEPT !.out = out]
    <2>2. /\ b \in Api /\ b.kind = api[p].kind /\ b.step = "answered" /\ b.version = api[p].version
          /\ b.tenant = api[p].tenant
      BY <1>1 DEF Api
    <2>3. api' = [api EXCEPT ![p] = a] /\ api[p].step = "resolved"
      BY <1>1, <1>6, <2>1 DEF RunApi, TInv, Shapes
    <2> HIDE DEF b
    <2>4. /\ a \in Api /\ a.kind = b.kind /\ a.step = b.step /\ a.version = b.version
          /\ a.out = out /\ a.tenant = b.tenant
      BY <1>1, <2>1, <2>2 DEF Api
    <2> HIDE DEF a
    <2>5. t = tenantOf[v]
      BY DEF TInv, RowNewest
    <2>6. ApiKnows(v, t, tenantOf, page[p], a)
      BY <1>1, <2>1, <2>2, <2>3, <2>4, <2>5 DEF Knows, ApiKnows
    <2>7. QED
      BY <1>1, <1>3, <2>2, <2>3, <2>4, <2>6 DEF Knows, PageKnows
  <1>7. QED
    BY <1>4, <1>5, <1>6

(* A session request on its way, but for the swap of the row. *)
LEMMA SessKeeps ==
    ASSUME TInv, NEW p \in Pages, ResolveContext(p) \/ AnswerContext(p) \/ CheckSwitch(p) \/ LoseSess(p)
    PROVE  TInv'
  <1> DEFINE v == session.version
             t == session.tenant
             o == sess[p]
  <1>1. /\ page[p] \in Page /\ api[p] \in Api /\ o \in Sess /\ shown[p] \in Tenants \cup {None}
        /\ v \in Nat /\ v \in Versions /\ t \in Tenants /\ Knows(v, t, tenantOf, page[p], api[p], o, shown[p])
    BY Untouched
  <1>2. UNCHANGED <<session, tenantOf, page, api, shown>>
    BY DEF ResolveContext, AnswerContext, CheckSwitch, LoseSess
  <1>3. ASSUME NEW s \in Sess, sess' = [sess EXCEPT ![p] = s], SessKnows(v, s),
               s.kind = o.kind, s.target = o.target, s.aborted = o.aborted, s.step # "saving",
               s.kind = "switch" /\ s.out = "ok" => o.out = "ok" /\ s.version = o.version
        PROVE  TInv'
    <2>1. Knows(v, t, tenantOf, page[p], api[p], s, shown[p])
      BY <1>1, <1>3 DEF Knows, PageKnows
    <2>2. Becomes(p, page[p], api[p], s, shown[p])
      BY <1>1, <1>2, <1>3, Untouched DEF Becomes
    <2>3. QED
      BY <1>3, <2>1, <2>2, PageStep
  <1>4. CASE ResolveContext(p)
    <2> DEFINE b == [o EXCEPT !.step = "resolved"]
               s == [b EXCEPT !.tenant = t]
    <2>1. /\ b \in Sess /\ b.kind = "context" /\ b.step = "resolved" /\ b.version = o.version
          /\ b.out = o.out /\ b.target = o.target /\ b.aborted = o.aborted /\ o.step = "sent"
      BY <1>1, <1>4 DEF Sess, ResolveContext
    <2>2. sess' = [sess EXCEPT ![p] = s]
      BY <1>1, <1>4 DEF ResolveContext, TInv, Shapes
    <2> HIDE DEF b
    <2>3. /\ s \in Sess /\ s.kind = b.kind /\ s.step = b.step /\ s.version = b.version
          /\ s.out = b.out /\ s.target = b.target /\ s.aborted = b.aborted
      BY <1>1, <2>1 DEF Sess
    <2> HIDE DEF s
    <2>4. SessKnows(v, s)
      BY <1>1, <2>1, <2>3 DEF Knows, SessKnows
    <2>5. s.kind = o.kind
      BY <1>4, <2>1, <2>3 DEF ResolveContext
    <2>6. QED
      BY <1>3, <2>1, <2>2, <2>3, <2>4, <2>5
  <1>5. CASE AnswerContext(p)
    <2> DEFINE b == [o EXCEPT !.step = "answered"]
               d == [b EXCEPT !.out = "ok"]
               s == [d EXCEPT !.version = v]
    <2>1. o.kind = "context" /\ v >= 1
      BY <1>1, <1>5, MaxVersionAssumption DEF AnswerContext, Knows, SessKnows, Versions
    <2>2. /\ b \in Sess /\ b.kind = o.kind /\ b.step = "answered" /\ b.target = o.target /\ b.aborted = o.aborted
      BY <1>1 DEF Sess
    <2>3. sess' = [sess EXCEPT ![p] = s]
      BY <1>1, <1>5 DEF AnswerContext, TInv, Shapes
    <2> HIDE DEF b
    <2>4. /\ d \in Sess /\ d.kind = b.kind /\ d.step = b.step /\ d.out = "ok" /\ d.target = b.target /\ d.aborted = b.aborted
      BY <2>2 DEF Sess
    <2> HIDE DEF d
    <2>5. /\ s \in Sess /\ s.kind = d.kind /\ s.step = d.step /\ s.version = v
          /\ s.out = d.out /\ s.target = d.target /\ s.aborted = d.aborted
      BY <1>1, <2>4, MaxVersionAssumption DEF Sess, Versions
    <2> HIDE DEF s
    <2>6. SessKnows(v, s)
      BY <1>1, <2>1, <2>2, <2>4, <2>5 DEF SessKnows
    <2>7. QED
      BY <1>3, <2>1, <2>2, <2>3, <2>4, <2>5, <2>6
  <1>6. CASE CheckSwitch(p)
    <2>1. o.kind = "switch" /\ o.step = "sent"
      BY <1>6 DEF CheckSwitch
    <2>2. CASE sess' = [sess EXCEPT ![p] = [o EXCEPT !.step = "checked"]]
      <3> DEFINE s == [o EXCEPT !.step = "checked"]
      <3>1. /\ s \in Sess /\ s.kind = o.kind /\ s.step = "checked" /\ s.version = o.version
            /\ s.out = o.out /\ s.target = o.target /\ s.aborted = o.aborted
        BY <1>1 DEF Sess
      <3>2. sess' = [sess EXCEPT ![p] = s]
        BY <2>2
      <3> HIDE DEF s
      <3>3. SessKnows(v, s)
        BY <1>1, <2>1, <3>1 DEF Knows, SessKnows
      <3>4. QED
        BY <1>3, <3>1, <3>2, <3>3
    <2>3. CASE sess' = [sess EXCEPT ![p] = [o EXCEPT !.step = "answered", !.out = "changed"]]
      <3> DEFINE s == [o EXCEPT !.step = "answered", !.out = "changed"]
      <3>1. /\ s \in Sess /\ s.kind = o.kind /\ s.step = "answered" /\ s.version = o.version
            /\ s.out = "changed" /\ s.target = o.target /\ s.aborted = o.aborted
        BY <1>1 DEF Sess
      <3>2. sess' = [sess EXCEPT ![p] = s]
        BY <2>3
      <3> HIDE DEF s
      <3>3. SessKnows(v, s)
        BY <1>1, <2>1, <3>1 DEF Knows, SessKnows
      <3>4. QED
        BY <1>3, <3>1, <3>2, <3>3
    <2>4. QED
      BY <1>6, <2>2, <2>3 DEF CheckSwitch
  <1>7. CASE LoseSess(p)
    <2> DEFINE b == [o EXCEPT !.step = "answered"]
               s == [b EXCEPT !.out = "failed"]
    <2>1. /\ b \in Sess /\ b.kind = o.kind /\ b.step = "answered" /\ b.version = o.version
          /\ b.target = o.target /\ b.aborted = o.aborted
      BY <1>1 DEF Sess
    <2>2. sess' = [sess EXCEPT ![p] = s] /\ o.step # "none"
      <3>1. o.step # "none"
        BY <1>1, <1>7 DEF LoseSess, Knows, SessKnows
      <3>2. QED
        BY <1>1, <1>7, <3>1 DEF LoseSess, TInv, Shapes
    <2> HIDE DEF b
    <2>3. /\ s \in Sess /\ s.kind = b.kind /\ s.step = b.step /\ s.version = b.version
          /\ s.out = "failed" /\ s.target = b.target /\ s.aborted = b.aborted
      BY <2>1 DEF Sess
    <2> HIDE DEF s
    <2>4. SessKnows(v, s)
      BY <1>1, <2>1, <2>2, <2>3 DEF Knows, SessKnows
    <2>5. QED
      BY <1>3, <2>1, <2>2, <2>3, <2>4
  <1>8. QED
    BY <1>4, <1>5, <1>6, <1>7

(* A switch is asked about, given up or sent. *)
LEMMA SwitchToKeeps ==
    ASSUME TInv, NEW p \in Pages, NEW target \in Tenants, NEW step \in {"sent", "saving"},
           page[p].ui \in {"idle", "confirming"},
           page' = [page EXCEPT ![p].ui = "switching"], SwitchTo(p, target, step),
           UNCHANGED <<session, tenantOf, shown>>,
           \/ step = "sent" /\ api' = api
           \/ step = "saving" /\ SendApi(p, "save")
    PROVE  TInv'
  <1> DEFINE v == session.version
             t == session.tenant
             g == [page[p] EXCEPT !.ui = "switching"]
             s == [NoSess EXCEPT !.kind = "switch", !.step = step, !.target = target, !.version = page[p].version]
             n == [NoApi EXCEPT !.kind = "save", !.step = "sent", !.version = page[p].version]
             a == IF step = "sent" THEN api[p] ELSE n
  <1>1. /\ page[p] \in Page /\ api[p] \in Api /\ sess[p] \in Sess /\ shown[p] \in Tenants \cup {None}
        /\ v \in Nat /\ Knows(v, t, tenantOf, page[p], api[p], sess[p], shown[p])
    BY Untouched
  <1>2. g \in Page /\ g.ui = "switching" /\ g.version = page[p].version
    BY <1>1 DEF Page, Uis
  <1>3. /\ s \in Sess /\ s.kind = "switch" /\ s.step = step /\ s.target = target
        /\ s.version = page[p].version /\ s.out = "none" /\ ~s.aborted
    BY <1>1, BlankTyped DEF NoSess, Sess, Page
  <1>4. n \in Api /\ n.kind = "save" /\ n.step = "sent" /\ n.version = page[p].version /\ n.out = "none"
    BY <1>1, BlankTyped DEF NoApi, Api, Page, Kinds
  <1>5. /\ page' = [page EXCEPT ![p] = g] /\ sess' = [sess EXCEPT ![p] = s] /\ api' = [api EXCEPT ![p] = a]
    <2>1. step = "sent" => api' = [api EXCEPT ![p] = api[p]]
      BY Untouched
    <2>2. QED
      BY <1>1, <2>1 DEF SwitchTo, SendApi, TInv, Shapes
  <1> HIDE DEF g, s, n
  <1>6. ApiKnows(v, t, tenantOf, g, a) /\ a \in Api /\ (step = "saving" => a.kind = "save")
    BY <1>1, <1>2, <1>4 DEF Knows, ApiKnows
  <1> HIDE DEF a
  <1>7. Knows(v, t, tenantOf, g, a, s, shown[p])
    BY <1>1, <1>2, <1>3, <1>6 DEF Knows, PageKnows, SessKnows
  <1>8. Becomes(p, g, a, s, shown[p])
    BY <1>1, <1>2, <1>3, <1>5, <1>6, Untouched DEF Becomes
  <1>9. QED
    BY <1>3, <1>7, <1>8, PageStep

(* The same page with another screen. *)
LEMMA OtherScreen ==
    ASSUME NEW g \in Page, NEW ui \in Uis
    PROVE  LET n == [g EXCEPT !.ui = ui] IN n \in Page /\ n.ui = ui /\ n.version = g.version /\ n.tenant = g.tenant
  BY DEF Page

LEMMA InvalidTyped ==
    ASSUME NEW p \in Pages, api[p] \in Api, sess[p] \in Sess
    PROVE  /\ InvalidApi(p) \in Api /\ InvalidSess(p) \in Sess
           /\ InvalidApi(p).kind = api[p].kind /\ InvalidApi(p).step = api[p].step
           /\ InvalidApi(p).version = api[p].version /\ InvalidApi(p).tenant = api[p].tenant
           /\ InvalidApi(p).out = api[p].out
           /\ InvalidSess(p).kind = sess[p].kind /\ InvalidSess(p).step = sess[p].step
           /\ InvalidSess(p).target = sess[p].target /\ InvalidSess(p).version = sess[p].version
           /\ InvalidSess(p).out = sess[p].out
  BY DEF InvalidApi, InvalidSess, Api, Sess

LEMMA SwitchKeeps ==
    ASSUME TInv, NEW p \in Pages,
           \/ \E target \in Tenants : RequestSwitch(p, target)
           \/ Cancel(p) \/ Discard(p) \/ SaveFirst(p) \/ ReceiveSwitch(p) \/ Invalidate(p)
    PROVE  TInv'
  <1> DEFINE v == session.version
             t == session.tenant
             Screen(ui) == [page[p] EXCEPT !.ui = ui]
  <1>1. /\ page[p] \in Page /\ api[p] \in Api /\ sess[p] \in Sess /\ shown[p] \in Tenants \cup {None}
        /\ v \in Nat /\ Knows(v, t, tenantOf, page[p], api[p], sess[p], shown[p])
    BY Untouched
  <1>2. \A ui \in Uis : /\ Screen(ui) \in Page /\ Screen(ui).ui = ui /\ Screen(ui).version = page[p].version
                        /\ SetUi(p, ui) => page' = [page EXCEPT ![p] = Screen(ui)]
    BY <1>1, OtherScreen DEF SetUi, TInv, Shapes
  <1> HIDE DEF Screen
  <1>3. {"idle", "confirming", "switching", "blocked"} \subseteq Uis
    BY DEF Uis
  <1>4. ASSUME SetUi(p, "idle"), sess' = [sess EXCEPT ![p] = NoSess], page[p].ui = "confirming",
               UNCHANGED <<session, tenantOf, api, shown>>
        PROVE  TInv'
    <2>1. Knows(v, t, tenantOf, Screen("idle"), api[p], NoSess, shown[p])
      BY <1>1, <1>2, <1>3, <1>4, BlankTyped DEF Knows, PageKnows, ApiKnows, SessKnows
    <2>2. Becomes(p, Screen("idle"), api[p], NoSess, shown[p])
      BY <1>1, <1>2, <1>3, <1>4, Untouched, BlankTyped DEF Becomes
    <2>3. QED
      BY <2>1, <2>2, PageStep, BlankTyped
  <1>5. ASSUME NEW target \in Tenants, RequestSwitch(p, target) PROVE TInv'
    <2>1. CASE SetUi(p, "confirming") /\ sess' = [sess EXCEPT ![p].target = target]
      <3> DEFINE s == [sess[p] EXCEPT !.target = target]
      <3>1. /\ s \in Sess /\ s.kind = sess[p].kind /\ s.step = sess[p].step /\ s.target = target
            /\ s.out = sess[p].out
        BY <1>1 DEF Sess
      <3>2. /\ sess' = [sess EXCEPT ![p] = s] /\ page[p].ui = "idle" /\ sess[p].kind = "none"
            /\ UNCHANGED <<session, tenantOf, api, shown>>
        BY <1>1, <1>5, <2>1 DEF RequestSwitch
      <3> HIDE DEF s
      <3>3. Knows(v, t, tenantOf, Screen("confirming"), api[p], s, shown[p])
        BY <1>1, <1>2, <1>3, <3>1, <3>2 DEF Knows, PageKnows, ApiKnows, SessKnows
      <3>4. Becomes(p, Screen("confirming"), api[p], s, shown[p])
        BY <1>1, <1>2, <1>3, <2>1, <3>1, <3>2, Untouched DEF Becomes
      <3>5. QED
        BY <3>1, <3>2, <3>3, <3>4, PageStep
    <2>2. CASE SetUi(p, "switching") /\ SwitchTo(p, target, "sent")
      BY <1>5, <2>2, SwitchToKeeps DEF RequestSwitch, SetUi
    <2>3. QED
      BY <1>5, <2>1, <2>2 DEF RequestSwitch
  <1>6. CASE Cancel(p)
    BY <1>4, <1>6 DEF Cancel
  <1>7. page[p].ui = "confirming" => sess[p].target \in Tenants
    BY <1>1 DEF Knows, PageKnows
  <1>8. CASE Discard(p)
    BY <1>7, <1>8, SwitchToKeeps DEF Discard, SetUi
  <1>9. CASE SaveFirst(p)
    <2>1. CASE api[p].kind = "none"
      BY <1>7, <1>9, <2>1, SwitchToKeeps DEF SaveFirst, SetUi
    <2>2. CASE api[p].kind # "none"
      BY <1>4, <1>9, <2>2 DEF SaveFirst
    <2>3. QED
      BY <2>1, <2>2
  <1>10. CASE ReceiveSwitch(p)
    <2>1. sess[p].kind = "switch" /\ UNCHANGED <<session, tenantOf>>
      BY <1>10 DEF ReceiveSwitch
    <2>2. CASE Restart(p)
      <3>1. Becomes(p, FreshPage, NoApi, NoSess, None)
        BY <2>1, <2>2, BlankTyped DEF Becomes, Restart
      <3>2. Knows(v, t, tenantOf, FreshPage, NoApi, NoSess, None)
        BY <1>1, BlankTyped DEF Knows, ApiKnows, SessKnows, PageKnows
      <3>3. QED
        BY <3>1, <3>2, BlankTyped, PageStep
    <2>3. CASE ~(sess[p].out = "ok" /\ ~sess[p].aborted)
      <3> DEFINE g == IF sess[p].aborted THEN page[p] ELSE Screen("blocked")
      <3>1. /\ page' = [page EXCEPT ![p].ui = IF sess[p].aborted THEN @ ELSE "blocked"]
            /\ sess' = [sess EXCEPT ![p] = NoSess] /\ UNCHANGED <<api, shown>>
        BY <1>10, <2>3 DEF ReceiveSwitch
      <3>2. page' = [page EXCEPT ![p] = g]
        <4>1. [page[p] EXCEPT !.ui = page[p].ui] = page[p]
          BY <1>1 DEF Page
        <4>2. CASE sess[p].aborted
          BY <1>1, <3>1, <4>1, <4>2 DEF TInv, Shapes
        <4>3. CASE ~sess[p].aborted
          BY <1>1, <3>1, <4>3 DEF TInv, Shapes, Screen
        <4>4. QED
          BY <4>2, <4>3
      <3>3. g \in Page /\ g.ui \in {page[p].ui, "blocked"} /\ g.version = page[p].version
            /\ (g.ui # "blocked" => sess[p].aborted)
        BY <1>1, <1>2, <1>3
      <3> HIDE DEF g
      <3>4. Knows(v, t, tenantOf, g, api[p], NoSess, shown[p])
        BY <1>1, <2>1, <3>3, BlankTyped DEF Knows, PageKnows, ApiKnows, SessKnows
      <3>5. Becomes(p, g, api[p], NoSess, shown[p])
        BY <1>1, <2>1, <3>1, <3>2, <3>3, Untouched, BlankTyped DEF Becomes
      <3>6. QED
        BY <3>4, <3>5, PageStep, BlankTyped
    <2>4. QED
      BY <1>10, <2>2, <2>3 DEF ReceiveSwitch
  <1>11. CASE Invalidate(p)
    <2>1. /\ SetUi(p, "blocked") /\ page[p].ui # "starting"
          /\ api' = [api EXCEPT ![p] = InvalidApi(p)] /\ sess' = [sess EXCEPT ![p] = InvalidSess(p)]
          /\ UNCHANGED <<session, tenantOf, shown>>
      BY <1>11 DEF Invalidate, AppUis
    <2>2. Knows(v, t, tenantOf, Screen("blocked"), InvalidApi(p), InvalidSess(p), shown[p])
      <3>1. ApiKnows(v, t, tenantOf, Screen("blocked"), InvalidApi(p))
        BY <1>1, <1>2, <1>3, InvalidTyped DEF Knows, ApiKnows
      <3>2. SessKnows(v, InvalidSess(p))
        BY <1>1, InvalidTyped DEF Knows, SessKnows
      <3>3. PageKnows(v, tenantOf, Screen("blocked"), InvalidApi(p), InvalidSess(p), shown[p])
        BY <1>1, <1>2, <1>3, <2>1, InvalidTyped DEF Knows, PageKnows
      <3>4. QED
        BY <3>1, <3>2, <3>3 DEF Knows
    <2>3. Becomes(p, Screen("blocked"), InvalidApi(p), InvalidSess(p), shown[p])
      BY <1>1, <1>2, <1>3, <2>1, InvalidTyped, Untouched DEF Becomes
    <2>4. QED
      BY <1>1, <2>2, <2>3, InvalidTyped, PageStep
  <1>12. QED
    BY <1>5, <1>6, <1>8, <1>9, <1>10, <1>11

LEMMA ReceiveLoadKeeps ==
    ASSUME TInv, NEW p \in Pages, ReceiveLoad(p)
    PROVE  TInv'
  <1> DEFINE v == session.version
             t == session.tenant
             a == api[p]
             g == [page[p] EXCEPT !.ui = "blocked"]
  <1>1. /\ page[p] \in Page /\ a \in Api /\ sess[p] \in Sess /\ shown[p] \in Tenants \cup {None}
        /\ v \in Nat /\ Knows(v, t, tenantOf, page[p], a, sess[p], shown[p])
    BY Untouched
  <1>2. a.kind = "load" /\ api' = [api EXCEPT ![p] = NoApi] /\ UNCHANGED <<session, tenantOf>>
    BY DEF ReceiveLoad
  <1>3. page[p].ui # "starting" /\ ~(page[p].ui = "switching" /\ sess[p].step = "saving")
    BY <1>1, <1>2 DEF Knows, PageKnows
  <1>4. CASE a.out = "changed"
    <2>1. g \in Page /\ g.ui = "blocked" /\ g.version = page[p].version /\ page' = [page EXCEPT ![p] = g]
      BY <1>1, <1>4, OtherScreen DEF ReceiveLoad, SetUi, TInv, Shapes, Uis
    <2>2. sess' = [sess EXCEPT ![p] = InvalidSess(p)] /\ shown' = shown
      BY <1>4 DEF ReceiveLoad
    <2> HIDE DEF g
    <2>3. Knows(v, t, tenantOf, g, NoApi, InvalidSess(p), shown[p])
      <3>1. ApiKnows(v, t, tenantOf, g, NoApi)
        BY BlankTyped DEF ApiKnows
      <3>2. SessKnows(v, InvalidSess(p))
        BY <1>1, InvalidTyped DEF Knows, SessKnows
      <3>3. PageKnows(v, tenantOf, g, NoApi, InvalidSess(p), shown[p])
        BY <1>1, <1>3, <2>1, InvalidTyped DEF Knows, PageKnows
      <3>4. QED
        BY <3>1, <3>2, <3>3 DEF Knows
    <2>4. Becomes(p, g, NoApi, InvalidSess(p), shown[p])
      BY <1>1, <1>2, <2>1, <2>2, InvalidTyped, BlankTyped, Untouched DEF Becomes
    <2>5. QED
      BY <1>1, <2>3, <2>4, InvalidTyped, PageStep
  <1>5. CASE a.out # "changed"
    <2> DEFINE c == IF a.out = "ok" /\ ~a.stale THEN a.tenant ELSE shown[p]
    <2>1. shown' = [shown EXCEPT ![p] = c] /\ UNCHANGED <<sess, page>> /\ c \in Tenants \cup {None}
      BY <1>1, <1>5, Untouched DEF ReceiveLoad, Api
    <2>2. c # None => c = tenantOf[page[p].version]
      BY <1>1, <1>2 DEF Knows, ApiKnows, PageKnows
    <2> HIDE DEF c
    <2>3. Knows(v, t, tenantOf, page[p], NoApi, sess[p], c)
      BY <1>1, <1>3, <2>2, BlankTyped DEF Knows, ApiKnows, SessKnows, PageKnows
    <2>4. Becomes(p, page[p], NoApi, sess[p], c)
      BY <1>1, <1>2, <2>1, BlankTyped, Untouched DEF Becomes
    <2>5. QED
      BY <2>3, <2>4, PageStep
  <1>6. QED
    BY <1>4, <1>5

LEMMA ReceiveSaveKeeps ==
    ASSUME TInv, NEW p \in Pages, ReceiveSave(p)
    PROVE  TInv'
  <1> DEFINE v == session.version
             t == session.tenant
             a == api[p]
             saved == a.out = "ok" /\ ~a.stale
             changed == a.out = "changed"
             waited == sess[p].step = "saving"
             ui == IF waited /\ ~saved THEN "idle" ELSE IF changed THEN "blocked" ELSE page[p].ui
             g == [page[p] EXCEPT !.ui = ui]
             sent == [sess[p] EXCEPT !.step = "sent"]
             s == IF ~waited THEN IF changed THEN InvalidSess(p) ELSE sess[p]
                  ELSE IF saved /\ ~sess[p].aborted THEN sent ELSE NoSess
             c == IF saved THEN a.tenant ELSE shown[p]
  <1>1. /\ page[p] \in Page /\ a \in Api /\ sess[p] \in Sess /\ shown[p] \in Tenants \cup {None}
        /\ v \in Nat /\ Knows(v, t, tenantOf, page[p], a, sess[p], shown[p])
    BY Untouched
  <1>2. /\ a.kind = "save" /\ UNCHANGED <<session, tenantOf>>
        /\ api' = [api EXCEPT ![p] = NoApi] /\ shown' = [shown EXCEPT ![p] = c]
        /\ page' = [page EXCEPT ![p] = g] /\ sess' = [sess EXCEPT ![p] = s]
    BY <1>1 DEF ReceiveSave, TInv, Shapes
  <1>3. ui \in Uis
    BY <1>1 DEF Uis, Page
  <1>4. g \in Page /\ g.ui = ui /\ g.version = page[p].version
    BY <1>1, <1>3, OtherScreen
  <1>5. /\ sent \in Sess /\ sent.kind = sess[p].kind /\ sent.step = "sent" /\ sent.target = sess[p].target
        /\ sent.version = sess[p].version /\ sent.out = sess[p].out /\ sent.aborted = sess[p].aborted
    BY <1>1 DEF Sess
  <1> HIDE DEF sent
  <1>6. s \in Sess /\ c \in Tenants \cup {None}
    BY <1>1, <1>5, InvalidTyped, BlankTyped DEF Api
  <1>7. SessKnows(v, s)
    <2>1. SessKnows(v, InvalidSess(p)) /\ SessKnows(v, sess[p]) /\ SessKnows(v, NoSess)
      BY <1>1, InvalidTyped, BlankTyped DEF Knows, SessKnows
    <2>2. waited => SessKnows(v, sent)
      BY <1>1, <1>5 DEF Knows, SessKnows
    <2>3. QED
      BY <2>1, <2>2
  <1>8. c # None => c = tenantOf[page[p].version]
    BY <1>1, <1>2 DEF Knows, ApiKnows, PageKnows
  <1>9. page[p].ui # "starting" /\ sess[p].kind # "context" /\ ui # "starting"
    BY <1>1, <1>2 DEF Knows, PageKnows
  <1>10. s.kind \in {sess[p].kind, "none"}
    BY <1>1, <1>5, InvalidTyped, BlankTyped
  <1>11. ui = "confirming" => s = sess[p] /\ page[p].ui = "confirming"
    <2>1. waited => page[p].ui # "confirming"
      BY <1>1 DEF Knows, PageKnows, SessKnows
    <2>2. QED
      BY <2>1
  <1>12. ui = "switching" => s.kind = "switch" /\ ~s.aborted /\ s.step # "saving"
    <2>1. SUFFICES ASSUME ui = "switching" PROVE s.kind = "switch" /\ ~s.aborted /\ s.step # "saving"
      OBVIOUS
    <2>2. page[p].ui = "switching" /\ ~changed /\ (waited => saved)
      BY <2>1
    <2>3. sess[p].kind = "switch" /\ ~sess[p].aborted
      BY <1>1, <2>2 DEF Knows, PageKnows
    <2>4. QED
      BY <1>5, <2>2, <2>3
  <1>13. (s.kind = "switch" /\ s.out = "ok") =>
             sess[p].kind = "switch" /\ sess[p].out = "ok" /\ s.version = sess[p].version
    BY <1>1, <1>5, InvalidTyped, BlankTyped
  <1> HIDE DEF ui, g, s, c, saved, changed, waited
  <1>14. PageKnows(v, tenantOf, g, NoApi, s, c)
    <2>1. g.version <= v /\ g.version >= 1
      BY <1>1, <1>4, <1>9 DEF Knows, PageKnows
    <2>2. g.ui = "confirming" => s.kind = "none" /\ s.target \in Tenants
      BY <1>1, <1>4, <1>11 DEF Knows, PageKnows
    <2>3. QED
      BY <1>4, <1>8, <1>9, <1>10, <1>12, <2>1, <2>2 DEF PageKnows
  <1>15. ApiKnows(v, t, tenantOf, g, NoApi)
    BY BlankTyped DEF ApiKnows
  <1>16. Becomes(p, g, NoApi, s, c)
    BY <1>2, <1>4, <1>6, BlankTyped DEF Becomes
  <1>17. QED
    BY <1>7, <1>13, <1>14, <1>15, <1>16, PageStep DEF Knows
-----------------------------------------------------------------------------
(* The swap of the row. *)
LEMMA NextIsNewest ==
    ASSUME TInv, Issued # Versions
    PROVE  NextVersion = session.version + 1 /\ NextVersion \in Versions
  <1>1. session.version \in Versions /\ Issued = 1..session.version /\ MaxVersion \in Nat
    BY MaxVersionAssumption DEF TInv, Shapes, RowNewest
  <1>2. session.version + 1 \in Versions
    BY <1>1 DEF Versions
  <1> DEFINE First(w) == w \in Versions /\ w \notin Issued /\ \A u \in Versions \ Issued : w <= u
  <1>3. First(session.version + 1)
    BY <1>1, <1>2 DEF Versions
  <1>4. \A w : First(w) => w = session.version + 1
    BY <1>1, <1>2, <1>3 DEF Versions
  <1>5. First(NextVersion)
    BY <1>3 DEF NextVersion
  <1>6. QED
    BY <1>2, <1>4, <1>5

LEMMA RotateKeeps ==
    ASSUME TInv, NEW p \in Pages, Rotate(p)
    PROVE  TInv'
  <1> DEFINE v == session.version
             t == session.tenant
             o == sess[p]
             n == NextVersion
  <1>1. /\ page[p] \in Page /\ api[p] \in Api /\ o \in Sess /\ shown[p] \in Tenants \cup {None}
        /\ v \in Nat /\ v \in Versions /\ Knows(v, t, tenantOf, page[p], api[p], o, shown[p])
    BY Untouched
  <1>2. /\ o.step = "checked" /\ Issued # Versions /\ UNCHANGED <<page, api, shown>>
        /\ o.kind = "switch" /\ o.target \in Tenants /\ o.version <= v
    BY <1>1 DEF Rotate, Knows, SessKnows
  <1>3. CASE ~SwapMatches(p)
    <2> DEFINE s == [o EXCEPT !.step = "answered", !.out = "changed"]
    <2>1. sess' = [sess EXCEPT ![p] = s] /\ UNCHANGED <<session, tenantOf>>
      BY <1>1, <1>3 DEF Rotate, TInv, Shapes
    <2>2. /\ s \in Sess /\ s.kind = o.kind /\ s.step = "answered" /\ s.version = o.version
          /\ s.out = "changed" /\ s.target = o.target /\ s.aborted = o.aborted
      BY <1>1 DEF Sess
    <2> HIDE DEF s
    <2>3. Knows(v, t, tenantOf, page[p], api[p], s, shown[p])
      BY <1>1, <1>2, <2>2 DEF Knows, SessKnows, PageKnows
    <2>4. Becomes(p, page[p], api[p], s, shown[p])
      BY <1>1, <1>2, <2>1, <2>2, Untouched DEF Becomes
    <2>5. QED
      BY <2>2, <2>3, <2>4, PageStep
  <1>4. CASE SwapMatches(p)
    <2> DEFINE s == [o EXCEPT !.step = "answered", !.out = "ok"]
    <2>1. /\ session' = [session EXCEPT !.tenant = o.target, !.version = n]
          /\ tenantOf' = [tenantOf EXCEPT ![n] = o.target]
          /\ sess' = [sess EXCEPT ![p] = s] /\ o.version = v
      BY <1>1, <1>4 DEF Rotate, SwapMatches, TInv, Shapes
    <2>2. /\ s \in Sess /\ s.kind = "switch" /\ s.step = "answered" /\ s.version = v
          /\ s.out = "ok" /\ s.target = o.target /\ s.aborted = o.aborted
      BY <1>1, <1>2, <2>1 DEF Sess
    <2>3. n = v + 1 /\ n \in Versions
      BY <1>2, NextIsNewest
    <2> HIDE DEF s, n
    <2>4. /\ session' \in [tenant : Tenants, version : Versions]
          /\ session'.tenant = o.target /\ session'.version = n
      BY <1>2, <2>1, <2>3 DEF TInv, Shapes
    <2>5. /\ tenantOf' \in [Versions -> Tenants \cup {None}] /\ tenantOf'[n] = o.target
          /\ \A w \in Versions : w # n => tenantOf'[w] = tenantOf[w]
      BY <1>2, <2>1, <2>3 DEF TInv, Shapes
    <2>6. /\ sess' \in [Pages -> Sess] /\ sess'[p] = s
          /\ \A q \in Pages : q # p => sess'[q] = sess[q]
      BY <2>1, <2>2 DEF TInv, Shapes
    <2>7. Shapes'
      BY <1>2, <2>4, <2>5, <2>6 DEF TInv, Shapes
    <2>8. RowNewest'
      <3>1. Issued' = Issued \cup {n}
        BY <1>2, <2>3, <2>5, TenantAssumption DEF Issued
      <3>2. Issued = 1..v /\ 1..n = (1..v) \cup {n}
        BY <1>1, <2>3 DEF TInv, RowNewest, Versions
      <3>3. QED
        BY <2>4, <2>5, <3>1, <3>2 DEF RowNewest
    <2>9. ASSUME NEW q \in Pages
          PROVE  Knows(n, o.target, tenantOf', page[q], api[q], sess'[q], shown[q])
      <3>1. /\ page[q] \in Page /\ api[q] \in Api /\ sess[q] \in Sess
            /\ Knows(v, t, tenantOf, page[q], api[q], sess[q], shown[q])
        BY Untouched
      <3>2. /\ page[q].ui = "starting" => api[q].kind = "none" /\ shown[q] = None
            /\ page[q].version \in Nat /\ page[q].version <= v
            /\ page[q].ui # "starting" => page[q].version >= 1
        BY <3>1 DEF Knows, PageKnows, Page
      <3>3. page[q].ui # "starting" => page[q].version \in Versions /\ page[q].version # n
        BY <1>1, <2>3, <3>2, MaxVersionAssumption DEF Versions
      <3>4. ApiKnows(n, o.target, tenantOf', page[q], api[q])
        <4>1. api[q].kind # "none" => api[q].version = page[q].version /\ page[q].ui # "starting"
          BY <3>1, <3>2 DEF Knows, ApiKnows
        <4>2. api[q].out = "ok" => tenantOf'[api[q].version] = tenantOf[api[q].version]
          BY <2>5, <3>1, <3>3, <4>1 DEF Knows, ApiKnows
        <4>3. api[q].step = "resolved" => api[q].version # n
          BY <3>1, <3>3, <4>1 DEF Knows, ApiKnows
        <4>4. QED
          BY <3>1, <4>1, <4>2, <4>3 DEF Knows, ApiKnows
      <3>5. SessKnows(n, sess'[q])
        <4>1. CASE q = p
          BY <1>1, <1>2, <2>2, <2>3, <2>6, <4>1 DEF SessKnows
        <4>2. CASE q # p
          <5>1. sess'[q] = sess[q] /\ sess[q].version \in Nat
            BY <2>6, <3>1, <4>2 DEF Sess
          <5>2. QED
            BY <1>1, <2>3, <3>1, <5>1 DEF Knows, SessKnows
        <4>3. QED
          BY <4>1, <4>2
      <3>6. PageKnows(n, tenantOf', page[q], api[q], sess'[q], shown[q])
        <4>1. shown[q] # None => shown[q] = tenantOf'[page[q].version]
          BY <2>5, <3>1, <3>2, <3>3 DEF Knows, PageKnows
        <4>2. page[q].version <= n
          BY <1>1, <2>3, <3>2
        <4>3. /\ sess'[q].kind = sess[q].kind /\ sess'[q].target = sess[q].target
              /\ sess'[q].aborted = sess[q].aborted
              /\ sess'[q].step = "saving" => sess[q].step = "saving"
          BY <1>2, <2>2, <2>6
        <4>4. QED
          BY <3>1, <4>1, <4>2, <4>3 DEF Knows, PageKnows
      <3>7. QED
        BY <3>4, <3>5, <3>6 DEF Knows
    <2>10. AllKnow'
      BY <1>2, <2>4, <2>9 DEF AllKnow
    <2>11. OneSwitchPerVersion'
      <3>1. \A q \in Pages : (q # p /\ sess'[q].kind = "switch" /\ sess'[q].out = "ok") =>
                sess'[q].version # v
        <4>1. ASSUME NEW q \in Pages, q # p, sess'[q].kind = "switch", sess'[q].out = "ok"
              PROVE  sess'[q].version # v
          <5>1. sess[q] \in Sess /\ Knows(v, t, tenantOf, page[q], api[q], sess[q], shown[q])
            BY Untouched
          <5>2. sess'[q] = sess[q] /\ sess[q].version < v /\ sess[q].version \in Nat
            BY <2>6, <4>1, <5>1 DEF Knows, SessKnows, Sess
          <5>3. QED
            BY <1>1, <5>2
        <4>2. QED
          BY <4>1
      <3>2. QED
        BY <2>2, <2>6, <3>1 DEF TInv, OneSwitchPerVersion
    <2>12. QED
      BY <2>7, <2>8, <2>10, <2>11 DEF TInv
  <1>5. QED
    BY <1>3, <1>4
-----------------------------------------------------------------------------
LEMMA NextTInv == TInv /\ [Next]_vars => TInv'
  <1> SUFFICES ASSUME TInv, [Next]_vars PROVE TInv'
    OBVIOUS
  <1>1. CASE UNCHANGED vars
    BY <1>1 DEF vars, TInv, Shapes, RowNewest, Issued, AllKnow, OneSwitchPerVersion
  <1>2. CASE Next
    <2>1. PICK p \in Pages :
        \/ RequestContext(p) \/ Reload(p)
        \/ \E k \in Kinds : Request(p, k)
        \/ \E target \in Tenants : RequestSwitch(p, target)
        \/ Cancel(p) \/ Discard(p) \/ SaveFirst(p) \/ Invalidate(p)
        \/ ServerStep(p) \/ Receive(p)
      BY <1>2 DEF Next
    <2>2. CASE RequestContext(p) \/ ReceiveContext(p) \/ Reload(p)
      BY <2>2, StartKeeps
    <2>3. CASE (\E k \in Kinds : Request(p, k)) \/ ResolveApi(p) \/ RunApi(p)
      BY <2>3, ApiKeeps
    <2>4. CASE ResolveContext(p) \/ AnswerContext(p) \/ CheckSwitch(p) \/ LoseSess(p)
      BY <2>4, SessKeeps
    <2>5. CASE \/ \E target \in Tenants : RequestSwitch(p, target)
               \/ Cancel(p) \/ Discard(p) \/ SaveFirst(p) \/ ReceiveSwitch(p) \/ Invalidate(p)
      BY <2>5, SwitchKeeps
    <2>6. CASE ReceiveLoad(p)
      BY <2>6, ReceiveLoadKeeps
    <2>7. CASE ReceiveSave(p)
      BY <2>7, ReceiveSaveKeeps
    <2>8. CASE Rotate(p)
      BY <2>8, RotateKeeps
    <2>9. QED
      BY <2>1, <2>2, <2>3, <2>4, <2>5, <2>6, <2>7, <2>8 DEF ServerStep, Receive
  <1>3. QED
    BY <1>1, <1>2

(* What each page knows of the session row holds in every state.          *)
THEOREM AlwaysTInv == Spec => []TInv
  BY InitTInv, NextTInv, PTL DEF Spec

(* Of the pages that start a switch from one version at most one is told   *)
(* that it switched, however many race.                                    *)
THEOREM OnePageSwitches == Spec => []OneSwitchPerVersion
  <1>1. TInv => OneSwitchPerVersion
    BY DEF TInv
  <1>2. QED
    BY <1>1, AlwaysTInv, PTL

(* What ran under the precondition ran for the tenant of its version,      *)
(* although the two were read from the row at different moments.           *)
THEOREM PreconditionHolds == Spec => []ExecutedUnderVersion
  <1>1. TInv => ExecutedUnderVersion
    BY DEF TInv, AllKnow, Knows, ApiKnows, ExecutedUnderVersion
  <1>2. QED
    BY <1>1, AlwaysTInv, PTL

(* Content shown is of the tenant of the version the page is mounted with. *)
THEOREM ShownBelongs == Spec => []ShownUnderVersion
  <1>1. TInv => ShownUnderVersion
    BY DEF TInv, AllKnow, Knows, PageKnows, ShownUnderVersion
  <1>2. QED
    BY <1>1, AlwaysTInv, PTL

(* No page is left on the switching screen without a switch under way.     *)
THEOREM SwitchingEnds == Spec => []SwitchUnderWay
  <1>1. TInv => SwitchUnderWay
    BY DEF TInv, AllKnow, Knows, PageKnows, SwitchUnderWay
  <1>2. QED
    BY <1>1, AlwaysTInv, PTL

(* Types, and a page beyond the start holds a version that was issued. *)
THEOREM SessionTypes == Spec => []TypeOK
  <1>1. ASSUME TInv PROVE TypeOK
    <2>1. \A p \in Pages : page[p].ui \in AppUis => page[p].version \in Issued
      <3>1. ASSUME NEW p \in Pages, page[p].ui \in AppUis PROVE page[p].version \in Issued
        <4>1. page[p] \in Page /\ Knows(session.version, session.tenant, tenantOf, page[p], api[p], sess[p], shown[p])
          BY <1>1, Untouched
        <4>2. page[p].version \in 1..session.version
          <5>1. page[p].version \in Nat /\ page[p].version >= 1 /\ page[p].version <= session.version
            BY <3>1, <4>1 DEF Knows, PageKnows, Page, AppUis
          <5>2. session.version \in Nat
            BY <1>1, <3>1, Untouched
          <5>3. QED
            BY <5>1, <5>2
        <4>3. QED
          BY <1>1, <4>2 DEF TInv, RowNewest
      <3>2. QED
        BY <3>1
    <2>2. QED
      BY <1>1, <2>1 DEF TInv, Shapes, TypeOK, Page, Api, Sess
  <1>2. QED
    BY <1>1, AlwaysTInv, PTL

(* The four together: what the version precondition, the check before an   *)
(* answer is shown and the switching screen promise of a tab.              *)
THEOREM SessionHolds == Spec => []SessionInvariant
  BY SessionTypes, PreconditionHolds, ShownBelongs, SwitchingEnds, PTL DEF SessionInvariant

-----------------------------------------------------------------------------
(* Merging and patching.  What is under an identifier, documents and        *)
(* operations.                                                              *)

Ids == Merge!Ids

Vals == {Absent, Joined} \cup Contents \cup SUBSET Cards

Docs == {d \in [Ids -> Vals] : \A i \in Ids : d[i] \in Merge!Values(i)}

Operations == {o \in [id : Ids \cup {0, 1, 2}, on : Ids, val : Vals] : o.val \in Merge!Values(o.on)}

LEMMA LeastNumber == \A T \in SUBSET Nat : T # {} => \E x \in T : \A y \in T : x <= y
  <1> SUFFICES ASSUME NEW T \in SUBSET Nat, T # {} PROVE \E x \in T : \A y \in T : x <= y
    OBVIOUS
  <1>1. PICK x \in T : \A y \in T : ~(<<y, x>> \in OpToRel(<, Nat))
    BY NatLessThanWellFounded, WFMin
  <1>2. ASSUME NEW y \in T PROVE x <= y
    <2>1. ~(y < x)
      BY <1>1, Zenon DEF OpToRel
    <2>2. QED
      BY <2>1
  <1>3. QED
    BY <1>2

(* A step for every number leads to a row of results: a shortest row that   *)
(* did not exist would be one step longer than one that does.               *)
Stepped(N, a, st) ==
    LET upto[n \in 0..N] == IF n = 0 THEN a ELSE st[n][upto[n - 1]]
    IN  upto

LEMMA SteppedIs ==
  ASSUME NEW N \in Nat, NEW a, NEW st
  PROVE  /\ Stepped(N, a, st)[0] = a
         /\ \A n \in 1..N : Stepped(N, a, st)[n] = st[n][Stepped(N, a, st)[n - 1]]
  <1> DEFINE Rows(g, k) == g = [n \in 0..k |-> IF n = 0 THEN a ELSE st[n][g[n - 1]]]
             Unbuilt == {k \in Nat : ~\E g : Rows(g, k)}
  <1>1. Unbuilt = {}
    <2> SUFFICES ASSUME Unbuilt # {} PROVE FALSE
      OBVIOUS
    <2>1. PICK k \in Unbuilt : \A i \in Unbuilt : k <= i
      <3>1. Unbuilt \in SUBSET Nat
        OBVIOUS
      <3>2. QED
        BY <3>1, LeastNumber
    <2>2. k \in Nat /\ ~\E g : Rows(g, k)
      BY <2>1
    <2>3. CASE k = 0
      <3> DEFINE g == [n \in 0..0 |-> a]
      <3>1. Rows(g, 0)
        OBVIOUS
      <3>2. QED
        BY <3>1, <2>2, <2>3
    <2>4. CASE k # 0
      <3>1. k - 1 \in Nat /\ k - 1 \notin Unbuilt
        <4> HIDE DEF Unbuilt
        <4>1. k - 1 \in Nat /\ k - 1 < k
          BY <2>2, <2>4
        <4>2. QED
          BY <4>1, <2>1, <2>2
      <3>2. PICK g : Rows(g, k - 1)
        BY <3>1
      <3> DEFINE h == [n \in 0..k |-> IF n = k THEN st[k][g[k - 1]] ELSE g[n]]
      <3>3. ASSUME NEW n \in 0..k
            PROVE  h[n] = IF n = 0 THEN a ELSE st[n][h[n - 1]]
        <4>1. CASE n = k
          <5>1. h[n] = st[k][g[k - 1]] /\ h[n - 1] = g[k - 1] /\ n # 0
            BY <4>1, <2>2, <2>4
          <5>2. QED
            BY <5>1, <4>1
        <4>2. CASE n # k
          <5>1. n \in 0..(k - 1) /\ h[n] = g[n] /\ (n # 0 => h[n - 1] = g[n - 1])
            BY <4>2, <2>2, <3>3
          <5>2. g[n] = IF n = 0 THEN a ELSE st[n][g[n - 1]]
            BY <5>1, <3>2
          <5>3. QED
            BY <5>1, <5>2
        <4>3. QED
          BY <4>1, <4>2
      <3>4. Rows(h, k)
        BY <3>3
      <3>5. QED
        BY <3>4, <2>2
    <2>5. QED
      BY <2>3, <2>4
  <1> DEFINE g == Stepped(N, a, st)
  <1>2. Rows(g, N)
    <2>1. \E f : Rows(f, N)
      BY <1>1
    <2>2. Stepped(N, a, st) = CHOOSE f : Rows(f, N)
      BY Zenon DEF Stepped
    <2>3. QED
      BY <2>1, <2>2
  <1> HIDE DEF g
  <1>3. g[0] = a
    BY <1>2
  <1>4. ASSUME NEW n \in 1..N PROVE g[n] = st[n][g[n - 1]]
    <2>1. n \in 0..N /\ n # 0
      OBVIOUS
    <2>2. QED
      BY <1>2, <2>1
  <1>5. QED
    BY <1>3, <1>4 DEF g

(* What holds of the first row and is handed on holds of every row.         *)
LEMMA RowsAll ==
  ASSUME NEW N \in Nat, NEW G, 0 \in G, \A n \in 1..N : n - 1 \in G => n \in G
  PROVE  \A n \in 0..N : n \in G
  <1> DEFINE Bad == {n \in 0..N : n \notin G}
  <1>1. SUFFICES ASSUME Bad # {} PROVE FALSE
    OBVIOUS
  <1>2. PICK k \in Bad : \A i \in Bad : k <= i
    <2>1. Bad \in SUBSET Nat
      OBVIOUS
    <2>2. QED
      BY <1>1, <2>1, LeastNumber
  <1>3. k \in 1..N /\ k - 1 \in 0..N /\ k - 1 < k /\ k \notin G
    BY <1>2
  <1>4. k - 1 \in G
    BY <1>2, <1>3
  <1>5. QED
    BY <1>3, <1>4

LEMMA ValuesIs ==
  /\ \A i \in Ids : Absent \in Merge!Values(i) /\ Merge!Values(i) \subseteq Vals
  /\ \A i \in Islands : Merge!Values(i) \subseteq {Absent} \cup SUBSET Cards
  BY MergeAssumption DEF Merge!Values, Vals, Ids, Merge!Ids

LEMMA AppliedOp ==
  ASSUME NEW d \in Docs, NEW o \in Operations
  PROVE  /\ Merge!ApplyOp(d, o) \in Docs
         /\ Merge!ApplyOp(d, o)[o.on] = o.val
         /\ \A i \in Ids : i # o.on =>
               \/ Merge!ApplyOp(d, o)[i] = d[i]
               \/ /\ i \in Links /\ o.val = Absent /\ o.on \in Cards /\ o.on \in Ends[i]
                  /\ Merge!ApplyOp(d, o)[i] = Absent
  BY ValuesIs DEF Merge!ApplyOp, Docs, Operations, Ids

LEMMA SteppedIn ==
  ASSUME NEW N \in Nat, NEW X, NEW a \in X, NEW st, \A n \in 1..N : \A x \in X : st[n][x] \in X
  PROVE  \A n \in 0..N : Stepped(N, a, st)[n] \in X
  <1> DEFINE r == Stepped(N, a, st)
             G == {n \in 0..N : r[n] \in X}
  <1>1. r[0] = a /\ \A n \in 1..N : r[n] = st[n][r[n - 1]]
    BY SteppedIs
  <1> HIDE DEF r
  <1>2. ASSUME NEW n \in 1..N, n - 1 \in G PROVE n \in G
    <2>1. n \in 0..N /\ r[n - 1] \in X
      BY <1>2
    <2>2. r[n] \in X
      BY <2>1, <1>1
    <2>3. QED
      BY <2>1, <2>2
  <1>3. 0 \in G
    BY <1>1
  <1>4. \A n \in 0..N : n \in G
    <2>1. \A n \in 1..N : n - 1 \in G => n \in G
      BY <1>2
    <2> HIDE DEF G
    <2>2. QED
      BY <1>3, <2>1, RowsAll
  <1>5. QED
    BY <1>4 DEF r

(* The documents on the way to ApplyOps.                                    *)
LEMMA ApplyRows ==
  ASSUME NEW d \in Docs, NEW ops \in Seq(Operations)
  PROVE  \E g \in [0..Len(ops) -> Docs] :
            /\ g[0] = d /\ \A n \in 1..Len(ops) : g[n] = Merge!ApplyOp(g[n - 1], ops[n])
            /\ Merge!ApplyOps(d, ops) = g[Len(ops)]
  <1> DEFINE N == Len(ops)
             P(f) == f = [n \in 0..N |-> IF n = 0 THEN d ELSE Merge!ApplyOp(f[n - 1], ops[n])]
             st == [n \in 1..N |-> [x \in Docs |-> Merge!ApplyOp(x, ops[n])]]
             r == Stepped(N, d, st)
             g == [n \in 0..N |-> r[n]]
  <1>1. N \in Nat /\ \A n \in 1..N : ops[n] \in Operations
    OBVIOUS
  <1>2. \A n \in 1..N : \A x \in Docs : st[n][x] = Merge!ApplyOp(x, ops[n]) /\ st[n][x] \in Docs
    BY <1>1, AppliedOp
  <1>3. r[0] = d /\ (\A n \in 1..N : r[n] = st[n][r[n - 1]]) /\ \A n \in 0..N : r[n] \in Docs
    <2> HIDE DEF st, N
    <2>1. QED
      BY <1>1, <1>2, SteppedIs, SteppedIn
  <1> HIDE DEF r, st
  <1>4. P(g)
    <2>1. ASSUME NEW n \in 0..N PROVE g[n] = IF n = 0 THEN d ELSE Merge!ApplyOp(g[n - 1], ops[n])
      <3>1. CASE n # 0
        <4>1. n \in 1..N /\ n - 1 \in 0..N
          BY <3>1, <1>1
        <4>2. r[n] = st[n][r[n - 1]] /\ r[n - 1] \in Docs
          BY <4>1, <1>3
        <4>3. r[n] = Merge!ApplyOp(r[n - 1], ops[n])
          BY <4>1, <4>2, <1>2
        <4>4. QED
          BY <4>1, <4>3, <3>1
      <3>2. QED
        BY <3>1, <1>3
    <2>2. QED
      BY <2>1
  <1> DEFINE U == CHOOSE f : P(f)
  <1>5. P(U)
    BY <1>4
  <1>6. Merge!ApplyOps(d, ops) = U[N]
    BY Zenon DEF Merge!ApplyOps
  <1> HIDE DEF U, g
  <1>7. U[0] = d
    BY <1>1, <1>5
  <1>8. ASSUME NEW n \in 1..N PROVE U[n] = Merge!ApplyOp(U[n - 1], ops[n])
    <2>1. n \in 0..N /\ n # 0
      BY <1>1
    <2>2. QED
      BY <2>1, <1>5
  <1> DEFINE H == {n \in 0..N : U[n] \in Docs}
  <1>9. ASSUME NEW n \in 1..N, n - 1 \in H PROVE n \in H
    <2>1. n \in 0..N /\ U[n - 1] \in Docs /\ ops[n] \in Operations
      BY <1>1, <1>9
    <2>2. QED
      BY <2>1, <1>8, AppliedOp
  <1>10. \A n \in 0..N : n \in H
    <2>1. 0 \in H /\ \A n \in 1..N : n - 1 \in H => n \in H
      BY <1>1, <1>7, <1>9
    <2> HIDE DEF H
    <2>2. QED
      BY <1>1, <2>1, RowsAll
  <1>11. U \in [0..N -> Docs]
    BY <1>5, <1>10
  <1>12. QED
    BY <1>6, <1>7, <1>8, <1>11

(* One operation as lint sees it: deleting a card leaves its links.         *)
Put(d, o) == [d EXCEPT ![o.on] = o.val]

LEMMA PutOp ==
  ASSUME NEW d \in Docs, NEW o \in Operations
  PROVE  /\ Put(d, o) \in Docs
         /\ Put(d, o)[o.on] = o.val
         /\ \A i \in Ids : i # o.on => Put(d, o)[i] = d[i]
  BY ValuesIs DEF Put, Docs, Operations

(* The documents on the way to LintView.                                    *)
LEMMA LintRows ==
  ASSUME NEW d \in Docs, NEW ops \in Seq(Operations)
  PROVE  \E g \in [0..Len(ops) -> Docs] :
            /\ g[0] = d /\ \A n \in 1..Len(ops) : g[n] = Put(g[n - 1], ops[n])
            /\ Merge!LintView(d, ops) = g[Len(ops)]
  <1> DEFINE N == Len(ops)
             P(f) == f = [n \in 0..N |-> IF n = 0 THEN d ELSE Put(f[n - 1], ops[n])]
             st == [n \in 1..N |-> [x \in Docs |-> Put(x, ops[n])]]
             r == Stepped(N, d, st)
             g == [n \in 0..N |-> r[n]]
  <1>1. N \in Nat /\ \A n \in 1..N : ops[n] \in Operations
    OBVIOUS
  <1>2. \A n \in 1..N : \A x \in Docs : st[n][x] = Put(x, ops[n]) /\ st[n][x] \in Docs
    BY <1>1, PutOp
  <1>3. r[0] = d /\ (\A n \in 1..N : r[n] = st[n][r[n - 1]]) /\ \A n \in 0..N : r[n] \in Docs
    <2> HIDE DEF st, N
    <2>1. QED
      BY <1>1, <1>2, SteppedIs, SteppedIn
  <1> HIDE DEF r, st
  <1>4. P(g)
    <2>1. ASSUME NEW n \in 0..N PROVE g[n] = IF n = 0 THEN d ELSE Put(g[n - 1], ops[n])
      <3>1. CASE n # 0
        <4>1. n \in 1..N /\ n - 1 \in 0..N
          BY <3>1, <1>1
        <4>2. r[n] = st[n][r[n - 1]] /\ r[n - 1] \in Docs
          BY <4>1, <1>3
        <4>3. r[n] = Put(r[n - 1], ops[n])
          BY <4>1, <4>2, <1>2
        <4>4. QED
          BY <4>1, <4>3, <3>1
      <3>2. QED
        BY <3>1, <1>3
    <2>2. QED
      BY <2>1
  <1> DEFINE U == CHOOSE f : P(f)
  <1>5. P(U)
    BY <1>4
  <1>6. Merge!LintView(d, ops) = U[N]
    BY Zenon DEF Merge!LintView, Put
  <1> HIDE DEF U, g
  <1>7. U[0] = d
    BY <1>1, <1>5
  <1>8. ASSUME NEW n \in 1..N PROVE U[n] = Put(U[n - 1], ops[n])
    <2>1. n \in 0..N /\ n # 0
      BY <1>1
    <2>2. QED
      BY <2>1, <1>5
  <1> DEFINE H == {n \in 0..N : U[n] \in Docs}
  <1>9. ASSUME NEW n \in 1..N, n - 1 \in H PROVE n \in H
    <2>1. n \in 0..N /\ U[n - 1] \in Docs /\ ops[n] \in Operations
      BY <1>1, <1>9
    <2>2. QED
      BY <2>1, <1>8, PutOp
  <1>10. \A n \in 0..N : n \in H
    <2>1. 0 \in H /\ \A n \in 1..N : n - 1 \in H => n \in H
      BY <1>1, <1>7, <1>9
    <2> HIDE DEF H
    <2>2. QED
      BY <1>1, <2>1, RowsAll
  <1>11. U \in [0..N -> Docs]
    BY <1>5, <1>10
  <1>12. QED
    BY <1>6, <1>7, <1>8, <1>11

(* What an operation does to an item, and the cascade to links, in one.     *)
LEMMA AppliedIs ==
  ASSUME NEW d \in Docs, NEW ops \in Seq(Operations)
  PROVE  /\ Merge!ApplyOps(d, ops) \in Docs
         /\ Merge!LintView(d, ops) \in Docs
         /\ \A i \in Ids :
               \/ Merge!ApplyOps(d, ops)[i] = Merge!LintView(d, ops)[i]
               \/ /\ i \in Links /\ Merge!ApplyOps(d, ops)[i] = Absent
                  /\ \E n \in 1..Len(ops) : ops[n].val = Absent /\ ops[n].on \in Cards /\ ops[n].on \in Ends[i]
         /\ \A i \in Ids :
               \/ /\ \A n \in 1..Len(ops) : ops[n].on # i
                  /\ Merge!LintView(d, ops)[i] = d[i]
               \/ \E n \in 1..Len(ops) : ops[n].on = i /\ Merge!LintView(d, ops)[i] = ops[n].val
  <1> DEFINE N == Len(ops)
  <1>1. N \in Nat /\ \A n \in 1..N : ops[n] \in Operations
    OBVIOUS
  <1>2. PICK a \in [0..N -> Docs] :
            /\ a[0] = d /\ \A n \in 1..N : a[n] = Merge!ApplyOp(a[n - 1], ops[n])
            /\ Merge!ApplyOps(d, ops) = a[N]
    BY ApplyRows
  <1>3. PICK v \in [0..N -> Docs] :
            /\ v[0] = d /\ \A n \in 1..N : v[n] = Put(v[n - 1], ops[n])
            /\ Merge!LintView(d, ops) = v[N]
    BY LintRows
  <1>4. a[N] \in Docs /\ v[N] \in Docs
    BY <1>1, <1>2, <1>3
  <1>5. ASSUME NEW i \in Ids
        PROVE  \/ a[N][i] = v[N][i]
               \/ /\ i \in Links /\ a[N][i] = Absent
                  /\ \E n \in 1..N : ops[n].val = Absent /\ ops[n].on \in Cards /\ ops[n].on \in Ends[i]
    <2> DEFINE Taken == \E n \in 1..N : ops[n].val = Absent /\ ops[n].on \in Cards /\ ops[n].on \in Ends[i]
               G == {n \in 0..N : a[n][i] = v[n][i] \/ (i \in Links /\ a[n][i] = Absent /\ Taken)}
    <2>1. 0 \in G
      BY <1>1, <1>2, <1>3
    <2>2. ASSUME NEW n \in 1..N, n - 1 \in G PROVE n \in G
      <3>1. n \in 0..N /\ a[n - 1] \in Docs /\ v[n - 1] \in Docs /\ ops[n] \in Operations
        BY <1>1, <1>2, <1>3
      <3>a. a[n] = Merge!ApplyOp(a[n - 1], ops[n])
        BY <1>2
      <3>v. v[n] = Put(v[n - 1], ops[n])
        BY <1>3
      <3>o. ops[n] \in Operations /\ a[n - 1] \in Docs /\ v[n - 1] \in Docs
        BY <3>1
      <3>2. a[n][ops[n].on] = ops[n].val /\ v[n][ops[n].on] = ops[n].val
        <4>a. Merge!ApplyOp(a[n - 1], ops[n])[ops[n].on] = ops[n].val
          BY <3>o, AppliedOp
        <4>1. a[n][ops[n].on] = ops[n].val
          BY <3>a, <4>a
        <4>v. Put(v[n - 1], ops[n])[ops[n].on] = ops[n].val
          BY <3>o, PutOp
        <4>2. v[n][ops[n].on] = ops[n].val
          BY <3>v, <4>v
        <4>3. QED
          BY <4>1, <4>2
      <3>3. CASE ops[n].on = i
        BY <3>1, <3>2, <3>3
      <3>4. CASE ops[n].on # i
        <4>1. v[n][i] = v[n - 1][i]
          <5>1. Put(v[n - 1], ops[n])[i] = v[n - 1][i]
            BY <3>o, <3>4, PutOp
          <5>2. QED
            BY <3>v, <5>1
        <4>2. \/ a[n][i] = a[n - 1][i]
              \/ /\ i \in Links /\ ops[n].val = Absent /\ ops[n].on \in Cards /\ ops[n].on \in Ends[i]
                 /\ a[n][i] = Absent
          <5>1. \/ Merge!ApplyOp(a[n - 1], ops[n])[i] = a[n - 1][i]
                \/ /\ i \in Links /\ ops[n].val = Absent /\ ops[n].on \in Cards /\ ops[n].on \in Ends[i]
                   /\ Merge!ApplyOp(a[n - 1], ops[n])[i] = Absent
            BY <3>o, <3>4, AppliedOp
          <5>2. QED
            BY <3>a, <5>1
        <4>3. QED
          BY <4>1, <4>2, <3>1, <2>2
      <3>5. QED
        BY <3>3, <3>4
    <2>3. \A n \in 0..N : n \in G
      <3>1. \A n \in 1..N : n - 1 \in G => n \in G
        BY <2>2
      <3> HIDE DEF G
      <3>2. QED
        BY <1>1, <2>1, <3>1, RowsAll
    <2>4. QED
      BY <2>3, <1>1
  <1>6. ASSUME NEW i \in Ids
        PROVE  \/ (\A n \in 1..N : ops[n].on # i) /\ v[N][i] = d[i]
               \/ \E n \in 1..N : ops[n].on = i /\ v[N][i] = ops[n].val
    <2> DEFINE G == {n \in 0..N : \/ (\A m \in 1..n : ops[m].on # i) /\ v[n][i] = d[i]
                                  \/ \E m \in 1..n : ops[m].on = i /\ v[n][i] = ops[m].val}
    <2>1. 0 \in G
      BY <1>1, <1>3
    <2>2. ASSUME NEW n \in 1..N, n - 1 \in G PROVE n \in G
      <3>1. n \in 0..N /\ n \in 1..n /\ v[n - 1] \in Docs /\ ops[n] \in Operations
        BY <1>1, <1>3
      <3>0. v[n] = Put(v[n - 1], ops[n])
        BY <1>3
      <3>2. CASE ops[n].on = i
        <4>1. v[n][i] = ops[n].val
          <5>1. Put(v[n - 1], ops[n])[ops[n].on] = ops[n].val
            BY <3>1, PutOp
          <5>2. QED
            BY <3>0, <3>2, <5>1
        <4>2. QED
          BY <3>1, <3>2, <4>1
      <3>3. CASE ops[n].on # i
        <4>1. v[n][i] = v[n - 1][i]
          <5>1. Put(v[n - 1], ops[n])[i] = v[n - 1][i]
            BY <3>1, <3>3, PutOp
          <5>2. QED
            BY <3>0, <5>1
        <4>2. \A m \in 1..n : m = n \/ m \in 1..(n - 1)
          BY <1>1
        <4>3. \A m \in 1..(n - 1) : m \in 1..n
          BY <1>1
        <4>4. CASE (\A m \in 1..(n - 1) : ops[m].on # i) /\ v[n - 1][i] = d[i]
          BY <4>1, <4>2, <4>4, <3>1, <3>3
        <4>5. CASE \E m \in 1..(n - 1) : ops[m].on = i /\ v[n - 1][i] = ops[m].val
          BY <4>1, <4>3, <4>5, <3>1
        <4>6. QED
          BY <4>4, <4>5, <2>2
      <3>4. QED
        BY <3>2, <3>3
    <2>3. \A n \in 0..N : n \in G
      <3>1. \A n \in 1..N : n - 1 \in G => n \in G
        BY <2>2
      <3> HIDE DEF G
      <3>2. QED
        BY <1>1, <2>1, <3>1, RowsAll
    <2>4. QED
      BY <2>3, <1>1
  <1>7. QED
    BY <1>2, <1>3, <1>4, <1>5, <1>6

(* The operations of a merge are about what is merged, and put there what   *)
(* the other document has.                                                  *)
Upserts(T) == {o \in Operations : o.on \in T /\ o.id = o.on /\ o.val = incoming[o.on]}

LEMMA SameCardinality == \A S : Merge!Cardinality(S) = Cardinality(S)
  BY DEF Cardinality, Merge!Cardinality

LEMMA Listed ==
  ASSUME NEW S, IsFiniteSet(S)
  PROVE  Merge!SetToSeq(S) \in [1..Merge!Cardinality(S) -> S]
  <1> DEFINE D == 1..Merge!Cardinality(S)
  <1>1. ExistsBijection(D, S)
    BY FS_CardinalityType, SameCardinality
  <1>2. PICK f \in Bijection(D, S) : TRUE
    BY <1>1 DEF ExistsBijection
  <1> HIDE DEF D
  <1>3. f \in [D -> S] /\ DOMAIN f = D /\ \A i, j \in D : f[i] = f[j] => i = j
    BY <1>2 DEF Bijection, Injection, IsInjective
  <1>4. Merge!IsInjective(f)
    BY <1>3 DEF Merge!IsInjective
  <1>5. Merge!SetToSeq(S) = CHOOSE g \in [D -> S] : Merge!IsInjective(g)
    BY Zenon DEF D, Merge!SetToSeq
  <1>6. (CHOOSE g \in [D -> S] : Merge!IsInjective(g)) \in [D -> S]
    BY <1>3, <1>4, Zenon
  <1>7. QED
    BY <1>5, <1>6 DEF D

LEMMA OpsAre ==
  ASSUME incoming \in Docs, NEW T \in SUBSET Ids
  PROVE  Merge!Ops(T) \in Seq(Upserts(T))
  <1> DEFINE of(K, gone) == {i \in T \cap K : gone = ~Merge!Has(incoming, i)}
             list(K, gone) == [n \in 1..Merge!Cardinality(of(K, gone)) |->
                                 LET i == Merge!SetToSeq(of(K, gone))[n]
                                 IN  Merge!Op(i, i, incoming[i])]
  <1>1. ASSUME NEW K, NEW gone \in BOOLEAN PROVE list(K, gone) \in Seq(Upserts(T))
    <2> DEFINE S == of(K, gone)
               s == Merge!SetToSeq(S)
    <2>1. S \subseteq T /\ IsFiniteSet(S) /\ Merge!Cardinality(S) \in Nat
      <3>1. S \subseteq T /\ S \subseteq Ids
        OBVIOUS
      <3>2. IsFiniteSet(Ids)
        BY MergeAssumption DEF Ids
      <3> HIDE DEF S
      <3>3. QED
        BY <3>1, <3>2, FS_Subset, FS_CardinalityType, SameCardinality
    <2>2. s \in [1..Merge!Cardinality(S) -> S]
      <3> HIDE DEF S
      <3>1. QED
        BY <2>1, Listed
    <2> HIDE DEF s, S
    <2>3. ASSUME NEW n \in 1..Merge!Cardinality(S) PROVE Merge!Op(s[n], s[n], incoming[s[n]]) \in Upserts(T)
      <3>1. s[n] \in T /\ s[n] \in Ids
        BY <2>1, <2>2
      <3>2. incoming[s[n]] \in Merge!Values(s[n]) /\ incoming[s[n]] \in Vals
        BY <3>1, ValuesIs DEF Docs
      <3>3. QED
        BY <3>1, <3>2 DEF Merge!Op, Upserts, Operations
    <2>4. list(K, gone) = [n \in 1..Merge!Cardinality(S) |-> Merge!Op(s[n], s[n], incoming[s[n]])]
      BY DEF s, S
    <2>5. [n \in 1..Merge!Cardinality(S) |-> Merge!Op(s[n], s[n], incoming[s[n]])] \in Seq(Upserts(T))
      BY <2>1, <2>3
    <2>6. QED
      BY <2>4, <2>5
  <1>2. Merge!Ops(T) = list(Cards, TRUE) \o list(Edges, TRUE) \o list(Links, TRUE)
          \o list(Islands, TRUE) \o list(Cards, FALSE) \o list(Edges, FALSE)
          \o list(Links, FALSE) \o list(Islands, FALSE)
    BY Zenon DEF Merge!Ops
  <1> HIDE DEF list
  <1>3. /\ list(Cards, TRUE) \in Seq(Upserts(T)) /\ list(Edges, TRUE) \in Seq(Upserts(T))
        /\ list(Links, TRUE) \in Seq(Upserts(T)) /\ list(Islands, TRUE) \in Seq(Upserts(T))
        /\ list(Cards, FALSE) \in Seq(Upserts(T)) /\ list(Edges, FALSE) \in Seq(Upserts(T))
        /\ list(Links, FALSE) \in Seq(Upserts(T)) /\ list(Islands, FALSE) \in Seq(Upserts(T))
    BY <1>1
  <1>4. ASSUME NEW s \in Seq(Upserts(T)), NEW t \in Seq(Upserts(T)) PROVE s \o t \in Seq(Upserts(T))
    OBVIOUS
  <1>5. list(Cards, TRUE) \o list(Edges, TRUE) \in Seq(Upserts(T))
    BY <1>3, <1>4
  <1> DEFINE A == list(Cards, TRUE) \o list(Edges, TRUE)
             B == A \o list(Links, TRUE)
             C == B \o list(Islands, TRUE)
             D == C \o list(Cards, FALSE)
             E == D \o list(Edges, FALSE)
             F == E \o list(Links, FALSE)
             G == F \o list(Islands, FALSE)
  <1>6. Merge!Ops(T) = G
    BY <1>2
  <1> HIDE DEF A
  <1>7. A \in Seq(Upserts(T))
    BY <1>5 DEF A
  <1> HIDE DEF B
  <1>8. B \in Seq(Upserts(T))
    BY <1>3, <1>4, <1>7 DEF B
  <1> HIDE DEF C
  <1>9. C \in Seq(Upserts(T))
    BY <1>3, <1>4, <1>8 DEF C
  <1> HIDE DEF D
  <1>10. D \in Seq(Upserts(T))
    BY <1>3, <1>4, <1>9 DEF D
  <1> HIDE DEF E
  <1>11. E \in Seq(Upserts(T))
    BY <1>3, <1>4, <1>10 DEF E
  <1> HIDE DEF F
  <1>12. F \in Seq(Upserts(T))
    BY <1>3, <1>4, <1>11 DEF F
  <1>13. QED
    BY <1>3, <1>4, <1>6, <1>12

-----------------------------------------------------------------------------
(* Merging a comparison document.                                           *)

LEMMA SoundIs ==
  ASSUME NEW d \in Docs, Merge!Sound(d), NEW i \in Ids, Merge!Has(d, i)
  PROVE  /\ i \in Islands => \A c \in d[i] : Merge!Has(d, c)
         /\ i \in Edges \cup Links => \A e \in Ends[i] : Merge!Has(d, e)
  BY DEF Merge!Sound, Merge!DanglingIslands, Merge!DanglingJoins, Ids

(* When every operation is about an item of its own, what lint passed is    *)
(* what is applied: no link is lost to the cascade that lint thought kept.  *)
LEMMA LintSaw ==
  ASSUME NEW d \in Docs, NEW ops \in Seq(Operations),
         Merge!Sound(Merge!LintView(d, ops)),
         \A m, n \in 1..Len(ops) : m # n => ops[m].on # ops[n].on
  PROVE  Merge!ApplyOps(d, ops) = Merge!LintView(d, ops)
  <1> DEFINE A == Merge!ApplyOps(d, ops)
             V == Merge!LintView(d, ops)
  <1>1. /\ A \in Docs /\ V \in Docs
        /\ \A i \in Ids :
              \/ A[i] = V[i]
              \/ /\ i \in Links /\ A[i] = Absent
                 /\ \E n \in 1..Len(ops) : ops[n].val = Absent /\ ops[n].on \in Cards /\ ops[n].on \in Ends[i]
        /\ \A i \in Ids :
              \/ (\A n \in 1..Len(ops) : ops[n].on # i) /\ V[i] = d[i]
              \/ \E n \in 1..Len(ops) : ops[n].on = i /\ V[i] = ops[n].val
    BY AppliedIs
  <1> HIDE DEF A, V
  <1>2. ASSUME NEW i \in Ids PROVE A[i] = V[i]
    <2> SUFFICES ASSUME A[i] # V[i] PROVE FALSE
      OBVIOUS
    <2>1. i \in Links /\ A[i] = Absent /\ Merge!Has(V, i)
      BY <1>1 DEF Merge!Has
    <2>2. PICK n \in 1..Len(ops) : ops[n].val = Absent /\ ops[n].on \in Cards /\ ops[n].on \in Ends[i]
      BY <1>1
    <2>3. ops[n].on \in Ids
      BY <2>2 DEF Ids, Merge!Ids
    <2>4. PICK m \in 1..Len(ops) : ops[m].on = ops[n].on /\ V[ops[n].on] = ops[m].val
      BY <1>1, <2>3
    <2>5. m = n
      BY <2>4
    <2>6. ~Merge!Has(V, ops[n].on)
      BY <2>2, <2>4, <2>5 DEF Merge!Has
    <2>7. \A e \in Ends[i] : Merge!Has(V, e)
      <3>1. Merge!Sound(V)
        BY DEF V
      <3>2. QED
        BY <1>1, <2>1, <3>1, SoundIs
    <2>8. QED
      BY <2>2, <2>6, <2>7
  <1>3. QED
    BY <1>1, <1>2 DEF Docs, A, V

(* Everything a merge takes, what it includes by itself as well, differs    *)
(* between the two documents.                                               *)
LEMMA TakenDiffer ==
  ASSUME base \in Docs, incoming \in Docs,
         NEW S \in SUBSET Merge!Items, ~Merge!Refused(S),
         NEW i \in S \cup Merge!Included(S)
  PROVE  i \in Ids /\ base[i] # incoming[i]
  <1>1. CASE i \in S
    BY <1>1 DEF Merge!Items, Ids
  <1>2. CASE i \in Merge!Included(S)
    <2>1. PICK s \in S : i \in Merge!Needs(s)
      BY <1>2 DEF Merge!Included
    <2>2. ~(i \in Cards /\ ~Merge!Has(incoming, i)) /\ ~(i \in Links /\ Merge!Has(incoming, i))
      BY <1>2 DEF Merge!Refused
    <2>3. CASE s \in Links /\ Merge!Has(incoming, s)
      <3>1. i \in Ends[s] /\ ~Merge!Has(base, i)
        BY <2>1, <2>3 DEF Merge!Needs
      <3>2. i \in Cards
        BY <3>1, <2>3, MergeAssumption
      <3>3. QED
        BY <3>1, <3>2, <2>2 DEF Merge!Has, Ids, Merge!Ids
    <2>4. CASE ~(s \in Links /\ Merge!Has(incoming, s))
      <3>1. i \in Links /\ Merge!Has(base, i)
        BY <2>1, <2>4 DEF Merge!Needs
      <3>2. QED
        BY <3>1, <2>2 DEF Merge!Has, Ids, Merge!Ids
    <2>5. QED
      BY <2>3, <2>4
  <1>3. QED
    BY <1>1, <1>2

(* A merge that goes through puts in place the document lint looked at: an  *)
(* item has what it had, or what the other document says and the one that   *)
(* was compared did not.                                                    *)
LEMMA MergedIs ==
  ASSUME doc \in Docs, base \in Docs, incoming \in Docs,
         NEW S \in SUBSET Merge!Items, ~Merge!Refused(S), Merge!Mergeable(S),
         NEW d, d = Merge!ApplyOps(doc, Merge!Ops(S \cup Merge!Included(S)))
  PROVE  /\ d \in Docs /\ Merge!Sound(d)
         /\ \A i \in Ids : \/ d[i] = doc[i]
                           \/ d[i] = incoming[i] /\ doc[i] \in {base[i], incoming[i]}
  <1> DEFINE T == S \cup Merge!Included(S)
             ops == Merge!Ops(T)
  <1>1. T \in SUBSET Ids /\ \A i \in T : base[i] # incoming[i]
    BY TakenDiffer
  <1>2. ops \in Seq(Upserts(T))
    <2> HIDE DEF T
    <2>1. QED
      BY <1>1, OpsAre
  <1>3. /\ \A n \in DOMAIN ops : ~Merge!Conflicts(base, doc, ops[n])
        /\ ~Merge!LintErrors(doc, ops)
    BY DEF Merge!Mergeable
  <1>4. d = Merge!ApplyOps(doc, ops)
    OBVIOUS
  <1> HIDE DEF T, ops
  <1>5. /\ ops \in Seq(Operations) /\ DOMAIN ops = 1..Len(ops)
        /\ \A n \in 1..Len(ops) : ops[n].on \in T /\ ops[n].id = ops[n].on /\ ops[n].val = incoming[ops[n].on]
    <2>1. ASSUME NEW s \in Seq(Upserts(T))
          PROVE  /\ s \in Seq(Operations) /\ DOMAIN s = 1..Len(s)
                 /\ \A n \in 1..Len(s) : s[n] \in Upserts(T)
      BY DEF Upserts
    <2>2. QED
      BY <1>2, <2>1 DEF Upserts
  <1>6. Merge!Sound(Merge!LintView(doc, ops))
    BY <1>3 DEF Merge!LintErrors
  <1>7. \A m, n \in 1..Len(ops) : m # n => ops[m].on # ops[n].on
    <2>1. \A m, n \in 1..Len(ops) : m # n => ops[m].id # ops[n].id
      BY <1>3, <1>5 DEF Merge!LintErrors
    <2>2. QED
      BY <2>1, <1>5
  <1>8. d = Merge!LintView(doc, ops)
    BY <1>4, <1>5, <1>6, <1>7, LintSaw
  <1>9. /\ d \in Docs
        /\ \A i \in Ids : \/ d[i] = doc[i]
                          \/ \E n \in 1..Len(ops) : ops[n].on = i /\ d[i] = ops[n].val
    <2> DEFINE V == Merge!LintView(doc, ops)
    <2>1. /\ V \in Docs
          /\ \A i \in Ids : \/ V[i] = doc[i]
                            \/ \E n \in 1..Len(ops) : ops[n].on = i /\ V[i] = ops[n].val
      BY <1>5, AppliedIs
    <2>2. d = V
      BY <1>8
    <2> HIDE DEF V
    <2>3. d \in Docs
      BY <2>1, <2>2
    <2>4. ASSUME NEW i \in Ids
          PROVE  d[i] = doc[i] \/ \E n \in 1..Len(ops) : ops[n].on = i /\ d[i] = ops[n].val
      <3>1. V[i] = doc[i] \/ \E n \in 1..Len(ops) : ops[n].on = i /\ V[i] = ops[n].val
        BY <2>1
      <3>2. QED
        BY <2>2, <3>1
    <2>5. QED
      BY <2>3, <2>4
  <1>10. ASSUME NEW i \in Ids, d[i] # doc[i]
         PROVE  d[i] = incoming[i] /\ doc[i] \in {base[i], incoming[i]}
    <2>1. PICK n \in 1..Len(ops) : ops[n].on = i /\ d[i] = ops[n].val
      BY <1>9, <1>10
    <2>2. ops[n].val = incoming[i] /\ base[i] # incoming[i]
      BY <2>1, <1>1, <1>5
    <2>3. ~Merge!Conflicts(base, doc, ops[n])
      BY <1>3, <1>5
    <2>4. QED
      BY <2>1, <2>2, <2>3 DEF Merge!Conflicts
  <1>11. QED
    BY <1>6, <1>8, <1>9, <1>10

-----------------------------------------------------------------------------
(* Patch files: the operations of a patch that are kept.                    *)

KeptUpto(p, S) ==
    LET upto[n \in 0..Len(p)] ==
            IF n = 0 THEN <<>>
            ELSE IF p[n] \in S THEN Append(upto[n - 1], p[n]) ELSE upto[n - 1]
    IN  upto

LEMMA KeepingRows ==
  ASSUME NEW X, NEW p \in Seq(X), NEW S
  PROVE  /\ KeptUpto(p, S) \in [0..Len(p) -> Seq(X)]
         /\ KeptUpto(p, S)[0] = <<>>
         /\ \A n \in 1..Len(p) :
               KeptUpto(p, S)[n] = IF p[n] \in S THEN Append(KeptUpto(p, S)[n - 1], p[n])
                                   ELSE KeptUpto(p, S)[n - 1]
         /\ Merge!Keeping(p, S) = KeptUpto(p, S)[Len(p)]
  <1> DEFINE N == Len(p)
             Step(n, x) == IF p[n] \in S THEN Append(x, p[n]) ELSE x
             P(f) == f = [n \in 0..N |-> IF n = 0 THEN <<>> ELSE Step(n, f[n - 1])]
             st == [n \in 1..N |-> [x \in Seq(X) |-> Step(n, x)]]
             r == Stepped(N, <<>>, st)
             g == [n \in 0..N |-> r[n]]
  <1>1. N \in Nat /\ \A n \in 1..N : p[n] \in X
    OBVIOUS
  <1>2. \A n \in 1..N : \A x \in Seq(X) : st[n][x] = Step(n, x) /\ st[n][x] \in Seq(X)
    BY <1>1
  <1>3. r[0] = <<>> /\ (\A n \in 1..N : r[n] = st[n][r[n - 1]]) /\ \A n \in 0..N : r[n] \in Seq(X)
    <2> DEFINE Y == Seq(X)
    <2>1. <<>> \in Y /\ \A n \in 1..N : \A x \in Y : st[n][x] \in Y
      BY <1>2
    <2> HIDE DEF st, N, Y
    <2>2. r[0] = <<>> /\ (\A n \in 1..N : r[n] = st[n][r[n - 1]]) /\ \A n \in 0..N : r[n] \in Y
      BY <1>1, <2>1, SteppedIs, SteppedIn
    <2>3. QED
      BY <2>2 DEF Y
  <1>0. \A n \in 1..N : \A x \in Seq(X) : Step(n, x) \in Seq(X)
    BY <1>1
  <1> HIDE DEF r, st, Step
  <1>4. P(g)
    <2>1. ASSUME NEW n \in 0..N PROVE g[n] = IF n = 0 THEN <<>> ELSE Step(n, g[n - 1])
      <3>1. CASE n # 0
        <4>1. n \in 1..N /\ n - 1 \in 0..N
          BY <3>1, <1>1
        <4>2. r[n] = st[n][r[n - 1]] /\ r[n - 1] \in Seq(X)
          BY <4>1, <1>3
        <4>3. r[n] = Step(n, r[n - 1])
          BY <4>1, <4>2, <1>2
        <4>4. QED
          BY <4>1, <4>3, <3>1
      <3>2. QED
        BY <3>1, <1>3
    <2>2. QED
      BY <2>1
  <1> DEFINE U == CHOOSE f : P(f)
  <1>5. P(U)
    BY <1>4
  <1>6. Merge!Keeping(p, S) = U[N]
    BY Zenon DEF Merge!Keeping, Step
  <1>u. U = KeptUpto(p, S)
    BY Zenon DEF KeptUpto, Step
  <1> HIDE DEF U, g
  <1>7. U[0] = <<>>
    BY <1>1, <1>5
  <1>8. ASSUME NEW n \in 1..N PROVE U[n] = Step(n, U[n - 1])
    <2>1. n \in 0..N /\ n # 0
      BY <1>1
    <2>2. QED
      BY <2>1, <1>5
  <1> DEFINE H == {n \in 0..N : U[n] \in Seq(X)}
  <1>9. ASSUME NEW n \in 1..N, n - 1 \in H PROVE n \in H
    <2>1. n \in 0..N /\ U[n - 1] \in Seq(X) /\ p[n] \in X
      BY <1>1, <1>9
    <2>2. Step(n, U[n - 1]) \in Seq(X)
      BY <2>1, <1>0
    <2>3. U[n] \in Seq(X)
      BY <2>2, <1>8
    <2>4. QED
      BY <2>1, <2>3
  <1>10. \A n \in 0..N : n \in H
    <2>1. 0 \in H
      <3>1. 0 \in 0..N /\ <<>> \in Seq(X)
        BY <1>1
      <3>2. QED
        BY <3>1, <1>7
    <2>2. \A n \in 1..N : n - 1 \in H => n \in H
      BY <1>9
    <2> HIDE DEF H
    <2>3. QED
      BY <1>1, <2>1, <2>2, RowsAll
  <1>11. U \in [0..N -> Seq(X)]
    BY <1>5, <1>10
  <1>12. QED
    BY <1>6, <1>7, <1>8, <1>11, <1>u DEF Step

(* What is kept is of the patch and of S; everything, when S has it all.    *)
LEMMA KeptIs ==
  ASSUME NEW X, NEW p \in Seq(X), NEW S
  PROVE  /\ Merge!Keeping(p, S) \in Seq(X)
         /\ \A n \in 1..Len(Merge!Keeping(p, S)) :
               /\ Merge!Keeping(p, S)[n] \in S
               /\ \E m \in 1..Len(p) : p[m] = Merge!Keeping(p, S)[n]
         /\ (\A m \in 1..Len(p) : p[m] \in S) => Merge!Keeping(p, S) = p
  <1> DEFINE N == Len(p)
  <1>1. N \in Nat /\ \A n \in 1..N : p[n] \in X
    OBVIOUS
  <1> DEFINE g == KeptUpto(p, S)
  <1>2. /\ g \in [0..N -> Seq(X)]
        /\ g[0] = <<>>
        /\ \A n \in 1..N : g[n] = IF p[n] \in S THEN Append(g[n - 1], p[n]) ELSE g[n - 1]
        /\ Merge!Keeping(p, S) = g[N]
    BY KeepingRows
  <1> HIDE DEF g, N
  <1>0. ASSUME NEW n \in 1..N PROVE n - 1 \in 0..N /\ g[n - 1] \in Seq(X) /\ p[n] \in X
    <2>1. n - 1 \in 0..N
      BY <1>1
    <2>2. QED
      BY <2>1, <1>1, <1>2
  <1>3. \A k \in 1..Len(g[N]) : g[N][k] \in S /\ \E m \in 1..N : p[m] = g[N][k]
    <2> DEFINE Good(q) == \A k \in 1..Len(q) : q[k] \in S /\ \E m \in 1..N : p[m] = q[k]
               G == {n \in 0..N : Good(g[n])}
    <2>1. 0 \in G
      BY <1>1, <1>2
    <2>2. ASSUME NEW n \in 1..N, n - 1 \in G PROVE n \in G
      <3>1. n \in 0..N /\ n - 1 \in 0..N /\ g[n - 1] \in Seq(X) /\ p[n] \in X
        BY <1>0, <1>1
      <3>2. g[n] = IF p[n] \in S THEN Append(g[n - 1], p[n]) ELSE g[n - 1]
        BY <1>2
      <3>3. Good(g[n - 1])
        BY <2>2
      <3>4. CASE p[n] \in S
        <4> DEFINE q == g[n - 1]
        <4>1. g[n] = Append(q, p[n]) /\ q \in Seq(X) /\ Good(q)
          BY <3>1, <3>2, <3>3, <3>4
        <4> HIDE DEF q
        <4>2. Len(g[n]) = Len(q) + 1 /\ g[n][Len(q) + 1] = p[n] /\ \A k \in 1..Len(q) : g[n][k] = q[k]
          BY <4>1, <3>1
        <4>3. ASSUME NEW k \in 1..Len(g[n]) PROVE g[n][k] \in S /\ \E m \in 1..N : p[m] = g[n][k]
          <5>1. k = Len(q) + 1 \/ k \in 1..Len(q)
            BY <4>1, <4>2
          <5>2. QED
            BY <5>1, <4>1, <4>2, <3>4
        <4>4. QED
          BY <4>3, <3>1
      <3>5. CASE p[n] \notin S
        BY <3>1, <3>2, <3>3, <3>5
      <3>6. QED
        BY <3>4, <3>5
    <2>3. \A n \in 0..N : n \in G
      <3>1. \A n \in 1..N : n - 1 \in G => n \in G
        BY <2>2
      <3> HIDE DEF G
      <3>2. QED
        BY <1>1, <2>1, <3>1, RowsAll
    <2>4. QED
      BY <2>3, <1>1
  <1>4. ASSUME \A m \in 1..N : p[m] \in S PROVE g[N] = p
    <2> DEFINE Same(n) == Len(g[n]) = n /\ \A k \in 1..n : g[n][k] = p[k]
               G == {n \in 0..N : Same(n)}
    <2>1. 0 \in G
      BY <1>1, <1>2
    <2>2. ASSUME NEW n \in 1..N, n - 1 \in G PROVE n \in G
      <3> DEFINE q == g[n - 1]
      <3>1. n \in 0..N /\ n - 1 \in 0..N /\ q \in Seq(X) /\ p[n] \in X
        BY <1>0, <1>1
      <3>2. g[n] = Append(q, p[n])
        BY <1>2, <1>4
      <3>3. Len(q) = n - 1 /\ \A k \in 1..(n - 1) : q[k] = p[k]
        BY <2>2
      <3> HIDE DEF q
      <3>4. Len(g[n]) = n /\ g[n][n] = p[n] /\ \A k \in 1..(n - 1) : g[n][k] = p[k]
        BY <3>1, <3>2, <3>3
      <3>5. \A k \in 1..n : k = n \/ k \in 1..(n - 1)
        BY <1>1
      <3>6. QED
        BY <3>1, <3>4, <3>5
    <2>3. \A n \in 0..N : n \in G
      <3>1. \A n \in 1..N : n - 1 \in G => n \in G
        BY <2>2
      <3> HIDE DEF G
      <3>2. QED
        BY <1>1, <2>1, <3>1, RowsAll
    <2>4. Same(N) /\ g[N] \in Seq(X)
      BY <2>3, <1>1, <1>2
    <2>5. QED
      BY <2>4, <1>1 DEF N
  <1>5. g[N] \in Seq(X)
    BY <1>1, <1>2
  <1>6. QED
    BY <1>2, <1>3, <1>4, <1>5 DEF N

LEMMA SetsApart ==
  /\ Cards \subseteq Ids /\ Islands \subseteq Ids /\ Edges \subseteq Ids /\ Links \subseteq Ids
  /\ Cards \cap Islands = {} /\ (Cards \cup Islands) \cap (Edges \cup Links) = {}
  BY MergeAssumption DEF Ids, Merge!Ids

LEMMA IslandValue ==
  ASSUME NEW d \in Docs, NEW i \in Islands, Merge!Has(d, i)
  PROVE  d[i] \subseteq Cards
  BY SetsApart, ValuesIs DEF Docs, Merge!Has

(* A patch applied whole: only the cascade differs from what lint looked    *)
(* at, and it only takes links away.                                        *)
LEMMA WholePatchIs ==
  ASSUME NEW d \in Docs, NEW p \in Seq(Operations), ~Merge!LintErrors(d, p),
         NEW i \in Ids, Merge!Has(Merge!ApplyOps(d, p), i)
  PROVE  /\ i \in Islands =>
               \A c \in Merge!ApplyOps(d, p)[i] : Merge!Has(Merge!ApplyOps(d, p), c)
         /\ i \in Edges \cup Links =>
               \A e \in Ends[i] : Merge!Has(Merge!ApplyOps(d, p), e)
  <1> DEFINE A == Merge!ApplyOps(d, p)
             V == Merge!LintView(d, p)
  <1>1. /\ A \in Docs /\ V \in Docs
        /\ \A j \in Ids : A[j] = V[j] \/ (j \in Links /\ A[j] = Absent)
    BY AppliedIs
  <1>2. Merge!Sound(V)
    BY DEF Merge!LintErrors
  <1>3. Merge!Has(A, i)
    OBVIOUS
  <1> SUFFICES /\ i \in Islands => \A c \in A[i] : Merge!Has(A, c)
               /\ i \in Edges \cup Links => \A e \in Ends[i] : Merge!Has(A, e)
    OBVIOUS
  <1> HIDE DEF A, V
  <1>4. A[i] = V[i] /\ Merge!Has(V, i)
    BY <1>1, <1>3 DEF Merge!Has
  <1>5. /\ i \in Islands => \A c \in V[i] : Merge!Has(V, c)
        /\ i \in Edges \cup Links => \A e \in Ends[i] : Merge!Has(V, e)
    BY <1>1, <1>2, <1>4, SoundIs
  <1>6. \A c \in Cards \cup Islands : A[c] = V[c]
    BY <1>1, SetsApart
  <1>7. ASSUME i \in Islands, NEW c \in A[i] PROVE Merge!Has(A, c)
    <2>1. c \in Cards
      BY <1>1, <1>4, <1>7, IslandValue
    <2>2. QED
      BY <2>1, <1>4, <1>5, <1>6, <1>7 DEF Merge!Has
  <1>8. ASSUME i \in Edges \cup Links, NEW e \in Ends[i] PROVE Merge!Has(A, e)
    <2>1. e \in Cards \cup Islands
      BY <1>8, MergeAssumption
    <2>2. QED
      BY <2>1, <1>5, <1>6, <1>8 DEF Merge!Has
  <1>9. QED
    BY <1>7, <1>8

-----------------------------------------------------------------------------
(* Fixes: what lint proposes to rewrite does not touch cards.               *)

LEMMA ViewOfNone ==
  ASSUME NEW d \in Docs
  PROVE  Merge!LintView(d, <<>>) = d
  <1> DEFINE s == <<>>
  <1>1. s \in Seq(Operations) /\ Len(s) = 0
    OBVIOUS
  <1> HIDE DEF s
  <1>2. PICK g \in [0..Len(s) -> Docs] : g[0] = d /\ Merge!LintView(d, s) = g[Len(s)]
    BY <1>1, LintRows
  <1>3. QED
    BY <1>1, <1>2 DEF s

LEMMA ViewOfAppend ==
  ASSUME NEW d \in Docs, NEW s \in Seq(Operations), NEW o \in Operations
  PROVE  Merge!LintView(d, Append(s, o)) = Put(Merge!LintView(d, s), o)
  <1> DEFINE N == Len(s)
             t == Append(s, o)
  <1>1. /\ N \in Nat /\ t \in Seq(Operations) /\ Len(t) = N + 1 /\ t[N + 1] = o
        /\ \A n \in 1..N : t[n] = s[n]
    OBVIOUS
  <1>2. PICK g \in [0..N -> Docs] :
            /\ g[0] = d /\ \A n \in 1..N : g[n] = Put(g[n - 1], s[n])
            /\ Merge!LintView(d, s) = g[N]
    BY LintRows
  <1> HIDE DEF t
  <1>3. PICK h \in [0..Len(t) -> Docs] :
            /\ h[0] = d /\ \A n \in 1..Len(t) : h[n] = Put(h[n - 1], t[n])
            /\ Merge!LintView(d, t) = h[Len(t)]
    BY <1>1, LintRows
  <1> HIDE DEF N
  <1> DEFINE G == {n \in 0..N : h[n] = g[n]}
  <1>4. 0 \in G
    BY <1>1, <1>2, <1>3
  <1>5. ASSUME NEW n \in 1..N, n - 1 \in G PROVE n \in G
    <2>1. n \in 0..N /\ n \in 1..Len(t)
      BY <1>1
    <2>2. h[n] = Put(h[n - 1], t[n]) /\ g[n] = Put(g[n - 1], s[n]) /\ t[n] = s[n]
      BY <2>1, <1>1, <1>2, <1>3
    <2>3. QED
      BY <2>1, <2>2, <1>5
  <1>6. \A n \in 0..N : n \in G
    <2>1. \A n \in 1..N : n - 1 \in G => n \in G
      BY <1>5
    <2> HIDE DEF G
    <2>2. QED
      BY <1>1, <1>4, <2>1, RowsAll
  <1>7. h[N] = g[N]
    BY <1>1, <1>6
  <1>8. h[N + 1] = Put(h[N], o)
    <2>1. N + 1 \in 1..Len(t) /\ (N + 1) - 1 = N
      BY <1>1
    <2>2. h[N + 1] = Put(h[(N + 1) - 1], t[N + 1])
      BY <2>1, <1>3
    <2>3. QED
      BY <2>1, <2>2, <1>1
  <1>9. Merge!LintView(d, t) = Put(Merge!LintView(d, s), o)
    <2>1. Merge!LintView(d, t) = h[N + 1]
      BY <1>1, <1>3
    <2>2. QED
      BY <2>1, <1>2, <1>7, <1>8
  <1>10. QED
    BY <1>9 DEF t

LEMMA PrunedIs ==
  ASSUME NEW d \in Docs, NEW o \in Operations
  PROVE  /\ Merge!Prune(d, o) \in Operations
         /\ Merge!Prune(d, o).on = o.on
         /\ o.on \in Cards => Merge!Prune(d, o) = o
         /\ Merge!Prune(d, o) # o =>
               /\ o.on \in Islands /\ o.val \subseteq Cards
               /\ Merge!Prune(d, o).val = {c \in o.val : Merge!Has(d, c)}
  <1>1. CASE o.on \in Islands /\ o.val # Absent
    <2> DEFINE val == {c \in o.val : Merge!Has(d, c)}
    <2>1. o.val \in SUBSET Cards /\ o.on \notin Cards
      BY <1>1, ValuesIs, SetsApart DEF Operations
    <2>2. val \in SUBSET Cards
      BY <2>1
    <2>3. val \in Merge!Values(o.on) /\ val \in Vals
      BY <2>1, <2>2, <1>1 DEF Merge!Values, Vals
    <2>4. Merge!Prune(d, o) = [o EXCEPT !.val = val]
      BY <1>1 DEF Merge!Prune
    <2> HIDE DEF val
    <2>5. [o EXCEPT !.val = val] \in Operations /\ [o EXCEPT !.val = val].on = o.on
          /\ [o EXCEPT !.val = val].val = val
      BY <2>3 DEF Operations
    <2>6. QED
      BY <2>1, <2>4, <2>5, <1>1 DEF val
  <1>2. CASE ~(o.on \in Islands /\ o.val # Absent)
    BY <1>2 DEF Merge!Prune
  <1>3. QED
    BY <1>1, <1>2

(* The fixed patch: what is dropped is about edges, what is rewritten about *)
(* islands, so every card reads as in the patch before it was fixed.        *)
LEMMA FixedIs ==
  ASSUME NEW d \in Docs, NEW p \in Seq(Operations), NEW S
  PROVE  /\ Merge!Fixed(d, p, S) \in Seq(Operations)
         /\ \A c \in Cards : Merge!LintView(d, Merge!Fixed(d, p, S))[c] = Merge!LintView(d, p)[c]
         /\ \A n \in 1..Len(Merge!Fixed(d, p, S)) :
               \/ \E m \in 1..Len(p) : p[m] = Merge!Fixed(d, p, S)[n]
               \/ /\ Merge!Fixed(d, p, S)[n].val \subseteq Cards
                  /\ \A c \in Merge!Fixed(d, p, S)[n].val : Merge!Has(Merge!LintView(d, p), c)
  <1> DEFINE after == Merge!LintView(d, p)
             K == Merge!Range(p) \ {op \in S : Merge!Unjoinable(after, op)}
             F(o) == IF o \in S THEN Merge!Prune(after, o) ELSE o
             Of(s) == [n \in DOMAIN s |-> F(s[n])]
             N == Len(p)
             g == KeptUpto(p, K)
  <1>1. Merge!Fixed(d, p, S) = Of(Merge!Keeping(p, K))
    BY DEF Merge!Fixed
  <1>2. after \in Docs
    BY AppliedIs
  <1>3. \A n \in 1..N : p[n] \in Merge!Range(p) /\ p[n] \in Operations
    BY DEF Merge!Range
  <1>4. ASSUME NEW n \in 1..N, p[n] \notin K PROVE p[n].on \notin Cards
    BY <1>3, <1>4, SetsApart DEF Merge!Unjoinable
  <1> HIDE DEF after, K
  <1>5. N \in Nat
    OBVIOUS
  <1>6. /\ g \in [0..N -> Seq(Operations)]
        /\ g[0] = <<>>
        /\ \A n \in 1..N : g[n] = IF p[n] \in K THEN Append(g[n - 1], p[n]) ELSE g[n - 1]
        /\ Merge!Keeping(p, K) = g[N]
    BY KeepingRows
  <1>7. ASSUME NEW o \in Operations
        PROVE  /\ F(o) \in Operations /\ F(o).on = o.on
               /\ o.on \in Cards => F(o) = o
               /\ F(o) # o => F(o).val \subseteq Cards /\ \A c \in F(o).val : Merge!Has(after, c)
    BY <1>2, PrunedIs
  <1>8. PICK v \in [0..N -> Docs] :
            /\ v[0] = d /\ \A n \in 1..N : v[n] = Put(v[n - 1], p[n])
            /\ after = v[N]
    BY LintRows DEF after
  <1> HIDE DEF F, g
  <1>9. ASSUME NEW s \in Seq(Operations)
        PROVE  /\ Of(s) \in Seq(Operations) /\ Len(Of(s)) = Len(s)
               /\ \A n \in 1..Len(s) : Of(s)[n] = F(s[n]) /\ s[n] \in Operations
    BY <1>7
  <1>10. ASSUME NEW s \in Seq(Operations), NEW o \in Operations
         PROVE  Of(Append(s, o)) = Append(Of(s), F(o))
    <2> DEFINE t == Append(s, o)
    <2>1. t \in Seq(Operations) /\ Len(t) = Len(s) + 1 /\ t[Len(s) + 1] = o /\ \A n \in 1..Len(s) : t[n] = s[n]
      OBVIOUS
    <2>2. Of(s) \in Seq(Operations) /\ Of(t) \in Seq(Operations) /\ F(o) \in Operations
      BY <2>1, <1>7, <1>9
    <2>3. Len(Of(t)) = Len(s) + 1 /\ Len(Of(s)) = Len(s) /\ Len(s) \in Nat
      BY <2>1, <1>9
    <2>4. \A n \in 1..Len(s) : Of(t)[n] = Of(s)[n]
      BY <2>1, <1>9
    <2>5. Of(t)[Len(s) + 1] = F(o)
      BY <2>1, <1>9
    <2> HIDE DEF Of, t
    <2> DEFINE x == Of(t)
               y == Of(s)
               z == F(o)
    <2>6. x \in Seq(Operations) /\ y \in Seq(Operations) /\ z \in Operations
      BY <2>2
    <2>7. Len(x) = Len(y) + 1 /\ x[Len(y) + 1] = z /\ \A n \in 1..Len(y) : x[n] = y[n]
      BY <2>3, <2>4, <2>5
    <2> HIDE DEF x, y, z
    <2>8. x = Append(y, z)
      BY <2>6, <2>7
    <2>9. QED
      BY <2>8 DEF x, y, z, t
  <1> HIDE DEF Of
  <1>11. ASSUME NEW c \in Cards PROVE Merge!LintView(d, Of(g[N]))[c] = after[c]
    <2> DEFINE G == {n \in 0..N : Merge!LintView(d, Of(g[n]))[c] = v[n][c]}
    <2>0. c \in Ids
      BY SetsApart
    <2>1. 0 \in G
      <3>1. Of(g[0]) = <<>>
        BY <1>6 DEF Of
      <3>2. QED
        BY <3>1, <1>5, <1>8, ViewOfNone
    <2>2. ASSUME NEW n \in 1..N, n - 1 \in G PROVE n \in G
      <3> DEFINE q == g[n - 1]
                 o == p[n]
                 w == Merge!LintView(d, Of(q))
      <3>1. n \in 0..N /\ n - 1 \in 0..N
        BY <1>5
      <3>2. q \in Seq(Operations) /\ o \in Operations /\ v[n - 1] \in Docs /\ Of(q) \in Seq(Operations)
        BY <3>1, <1>3, <1>6, <1>8, <1>9
      <3>3. w \in Docs
        <4> HIDE DEF q
        <4>1. QED
          BY <3>2, AppliedIs
      <3>4. w[c] = v[n - 1][c]
        BY <2>2
      <3>5. v[n] = Put(v[n - 1], o) /\ g[n] = IF o \in K THEN Append(q, o) ELSE q
        BY <1>6, <1>8
      <3> DEFINE u == v[n - 1]
      <3>u. Put(u, o)[o.on] = o.val /\ (c # o.on => Put(u, o)[c] = u[c]) /\ u \in Docs
        <4>1. u \in Docs
          BY <3>2
        <4> HIDE DEF u, o
        <4>2. QED
          BY <4>1, <3>2, <2>0, PutOp
      <3>6. CASE o \in K
        <4>1. Of(g[n]) = Append(Of(q), F(o))
          BY <3>2, <3>5, <3>6, <1>10
        <4>2. F(o) \in Operations /\ F(o).on = o.on /\ (o.on \in Cards => F(o) = o)
          BY <3>2, <1>7
        <4>3. Merge!LintView(d, Append(Of(q), F(o))) = Put(w, F(o))
          <5> HIDE DEF q, o
          <5>1. QED
            BY <3>2, <4>2, ViewOfAppend
        <4>4. Put(w, F(o))[F(o).on] = F(o).val /\ (c # F(o).on => Put(w, F(o))[c] = w[c])
          <5> HIDE DEF w, o
          <5>1. QED
            BY <3>3, <4>2, <2>0, PutOp
        <4>5. Put(w, F(o))[c] = Put(u, o)[c]
          <5>1. CASE c = o.on
            BY <5>1, <4>2, <4>4, <3>u
          <5>2. CASE c # o.on
            BY <5>2, <4>2, <4>4, <3>u, <3>4
          <5>3. QED
            BY <5>1, <5>2
        <4>6. QED
          BY <4>1, <4>3, <4>5, <3>1, <3>5
      <3>7. CASE o \notin K
        <4>1. o.on # c
          BY <3>7, <1>4
        <4>2. g[n] = q
          BY <3>5, <3>7
        <4>3. v[n][c] = u[c]
          BY <4>1, <3>5, <3>u
        <4>4. QED
          BY <4>2, <4>3, <3>1, <3>4
      <3>8. QED
        BY <3>6, <3>7
    <2>3. \A n \in 0..N : n \in G
      <3>1. \A n \in 1..N : n - 1 \in G => n \in G
        BY <2>2
      <3> HIDE DEF G
      <3>2. QED
        BY <1>5, <2>1, <3>1, RowsAll
    <2>4. QED
      BY <2>3, <1>5, <1>8
  <1> DEFINE kept == g[N]
  <1>12. kept \in Seq(Operations) /\ Merge!Keeping(p, K) = kept
    BY <1>5, <1>6
  <1>13. \A n \in 1..Len(kept) : \E m \in 1..Len(p) : p[m] = kept[n]
    <2>1. \A n \in 1..Len(Merge!Keeping(p, K)) : \E m \in 1..Len(p) : p[m] = Merge!Keeping(p, K)[n]
      BY KeptIs
    <2>2. QED
      BY <2>1, <1>12
  <1> HIDE DEF kept
  <1>14. /\ Of(kept) \in Seq(Operations) /\ Len(Of(kept)) = Len(kept)
         /\ \A n \in 1..Len(kept) : Of(kept)[n] = F(kept[n]) /\ kept[n] \in Operations
    BY <1>9, <1>12
  <1>15. ASSUME NEW n \in 1..Len(Of(kept))
         PROVE  \/ \E m \in 1..Len(p) : p[m] = Of(kept)[n]
                \/ /\ Of(kept)[n].val \subseteq Cards
                   /\ \A c \in Of(kept)[n].val : Merge!Has(after, c)
    <2>1. Of(kept)[n] = F(kept[n]) /\ kept[n] \in Operations /\ \E m \in 1..Len(p) : p[m] = kept[n]
      BY <1>13, <1>14
    <2>2. CASE F(kept[n]) = kept[n]
      BY <2>1, <2>2
    <2>3. CASE F(kept[n]) # kept[n]
      <3>1. F(kept[n]).val \subseteq Cards /\ \A c \in F(kept[n]).val : Merge!Has(after, c)
        BY <2>1, <2>3, <1>7
      <3>2. QED
        BY <2>1, <3>1
    <2>4. QED
      BY <2>2, <2>3
  <1>16. Merge!Fixed(d, p, S) = Of(kept)
    BY <1>1, <1>12
  <1>17. \A c \in Cards : Merge!LintView(d, Of(kept))[c] = after[c]
    BY <1>11 DEF kept
  <1>18. QED
    BY <1>14, <1>15, <1>16, <1>17 DEF after

-----------------------------------------------------------------------------
(* The inductive invariant: documents are documents, patches are patches.   *)

DocsOK ==
    /\ doc \in Docs
    /\ base \in Docs \cup {Merge!NoDoc}
    /\ base # Merge!NoDoc => incoming \in Docs
    /\ premerge \in Docs \cup {Merge!NoDoc}
    /\ baseline \in Docs \cup {Merge!NoDoc}

PatchOK == original \in Seq(Operations) /\ patch \in Seq(Operations)

MergeInv == DocsOK /\ PatchOK

LEMMA DocumentsIs == \A d : Merge!IsDoc(d) => d \in Docs
  <1> SUFFICES ASSUME NEW d, Merge!IsDoc(d) PROVE d \in Docs
    OBVIOUS
  <1>1. d = [i \in Ids |-> d[i]] /\ \A i \in Ids : d[i] \in Merge!Values(i)
    BY DEF Merge!IsDoc, Ids
  <1>2. \A i \in Ids : d[i] \in Vals
    BY <1>1, ValuesIs
  <1>3. QED
    BY <1>1, <1>2 DEF Docs

LEMMA OperationIs ==
  ASSUME NEW n \in {0, 1, 2}, NEW i \in Ids, NEW v \in Merge!Values(i)
  PROVE  Merge!Op(n, i, v) \in Operations /\ Merge!Op(n, i, v).on = i
  BY ValuesIs DEF Merge!Op, Operations

LEMMA PatchesAre == \A p \in Merge!Patches : p \in Seq(Operations)
  <1>1. \A o \in Merge!OneOps(1) \cup Merge!OneOps(2) : o \in Operations
    BY OperationIs DEF Merge!OneOps, Ids
  <1>2. ASSUME NEW o \in Operations, NEW q \in Operations PROVE <<o, q>> \in Seq(Operations)
    OBVIOUS
  <1>3. ASSUME NEW p \in Merge!Patches PROVE p \in Seq(Operations)
    <2>1. CASE \E o \in Merge!OneOps(1), q \in Merge!OneOps(2) : p = <<o, q>>
      BY <2>1, <1>1, <1>2
    <2>2. CASE \E o \in Merge!OneOps(1) : p = <<o, o>>
      BY <2>2, <1>1, <1>2
    <2>3. QED
      BY <2>1, <2>2 DEF Merge!Patches
  <1>4. QED
    BY <1>3

LEMMA MergeStarts == WorkspaceInit => MergeInv
  <1> SUFFICES ASSUME Merge!Init PROVE MergeInv
    BY DEF WorkspaceInit
  <1>1. doc \in Docs
    BY DocumentsIs, MergeAssumption DEF Merge!Init
  <1>2. <<>> \in Seq(Operations)
    OBVIOUS
  <1>3. QED
    BY <1>1, <1>2 DEF Merge!Init, MergeInv, DocsOK, PatchOK

LEMMA MergeStep == MergeInv /\ [WorkspaceNext]_<<explored, vars, mergeVars>> => MergeInv'
  <1> SUFFICES ASSUME MergeInv, [WorkspaceNext]_<<explored, vars, mergeVars>> PROVE MergeInv'
    OBVIOUS
  <1>1. CASE UNCHANGED mergeVars
    BY <1>1 DEF mergeVars, MergeInv, DocsOK, PatchOK
  <1>2. CASE Merge!Next
    <2> USE DEF MergeInv
    <2>1. ASSUME NEW i \in Merge!Ids, NEW v \in Merge!Values(i), Merge!Edit(i, v) PROVE MergeInv'
      <3>1. Merge!Op(0, i, v) \in Operations
        BY OperationIs DEF Ids
      <3>2. Merge!ApplyOp(doc, Merge!Op(0, i, v)) \in Docs
        BY <3>1, AppliedOp DEF DocsOK
      <3>3. QED
        BY <2>1, <3>2 DEF Merge!Edit, Merge!Merging, Merge!Patching, DocsOK, PatchOK
    <2>2. ASSUME NEW d \in Others, Merge!LoadComparison(d) PROVE MergeInv'
      <3>1. d \in Docs
        BY DocumentsIs, MergeAssumption
      <3>2. QED
        BY <2>2, <3>1 DEF Merge!LoadComparison, Merge!Patching, DocsOK, PatchOK
    <2>3. ASSUME NEW S \in SUBSET Merge!Items, NEW auto \in BOOLEAN, Merge!ApplyMerge(S, auto)
          PROVE  MergeInv'
      <3> DEFINE sel == Merge!WithPrerequisites(S, auto)
                 T == sel \cup Merge!Included(sel)
      <3>1. base \in Docs /\ incoming \in Docs /\ doc \in Docs
        BY <2>3 DEF Merge!ApplyMerge, DocsOK
      <3>2. sel \in SUBSET Merge!Items /\ ~Merge!Refused(sel)
        BY <2>3 DEF Merge!ApplyMerge, Merge!Preflight, Merge!WithPrerequisites
      <3>3. T \in SUBSET Ids
        <4> HIDE DEF sel
        <4>1. QED
          BY <3>1, <3>2, TakenDiffer
      <3>4. Merge!ApplyOps(doc, Merge!Ops(T)) \in Docs
        <4> HIDE DEF T
        <4>1. Merge!Ops(T) \in Seq(Upserts(T))
          BY <3>1, <3>3, OpsAre
        <4>2. Merge!Ops(T) \in Seq(Operations)
          BY <4>1 DEF Upserts
        <4>3. QED
          BY <4>2, <3>1, AppliedIs
      <3>5. \/ doc' = doc /\ premerge' = premerge
            \/ doc' = Merge!ApplyOps(doc, Merge!Ops(T)) /\ premerge' = doc
        BY <2>3 DEF Merge!ApplyMerge
      <3>6. UNCHANGED <<base, incoming, baseline, original, patch>>
        BY <2>3 DEF Merge!ApplyMerge, Merge!Patching
      <3> HIDE DEF T
      <3>7. QED
        BY <3>1, <3>4, <3>5, <3>6 DEF DocsOK, PatchOK
    <2>4. CASE Merge!UndoLastMerge
      BY <2>4 DEF Merge!UndoLastMerge, Merge!Patching, DocsOK, PatchOK
    <2>5. ASSUME NEW p \in Merge!Patches, Merge!LoadPatch(p) PROVE MergeInv'
      BY <2>5, PatchesAre DEF Merge!LoadPatch, Merge!Merging, DocsOK, PatchOK
    <2>6. CASE Merge!LoadBaseline(doc)
      BY <2>6 DEF Merge!LoadBaseline, Merge!Merging, DocsOK, PatchOK
    <2>7. ASSUME NEW n, Merge!ToggleOp(n) \/ Merge!Resolve(n) PROVE MergeInv'
      BY <2>7 DEF Merge!ToggleOp, Merge!Resolve, Merge!Merging, DocsOK, PatchOK
    <2>8. ASSUME NEW S, Merge!ApplyFixes(S) PROVE MergeInv'
      <3>1. Merge!Fixed(doc, patch, S) \in Seq(Operations)
        BY FixedIs DEF DocsOK, PatchOK
      <3>2. QED
        BY <2>8, <3>1 DEF Merge!ApplyFixes, Merge!Merging, DocsOK, PatchOK
    <2>9. CASE Merge!ResetPatch
      BY <2>9 DEF Merge!ResetPatch, Merge!Merging, DocsOK, PatchOK
    <2>10. CASE Merge!ApplyPatch
      <3>1. Merge!Taken \in Seq(Operations)
        BY KeptIs DEF Merge!Taken, PatchOK
      <3>2. Merge!ApplyOps(doc, Merge!Taken) \in Docs
        BY <3>1, AppliedIs DEF DocsOK
      <3>3. QED
        BY <2>10, <3>2 DEF Merge!ApplyPatch, Merge!Merging, Merge!Patching, DocsOK, PatchOK
    <2>11. QED
      BY <1>2, <2>1, <2>2, <2>3, <2>4, <2>5, <2>6, <2>7, <2>8, <2>9, <2>10
      DEF Merge!Next, Merge!Merge, Merge!Patch
  <1>3. QED
    BY <1>1, <1>2 DEF WorkspaceNext

LEMMA AlwaysMergeInv == WorkspaceSpec => []MergeInv
  BY MergeStarts, MergeStep, PTL DEF WorkspaceSpec

(* What did' says, the step did.                                            *)
LEMMA MergeStepIs ==
  ASSUME [WorkspaceNext]_<<explored, vars, mergeVars>>, did' = "merge"
  PROVE  \/ UNCHANGED Merge!vars
         \/ \E S \in SUBSET Merge!Items, auto \in BOOLEAN :
               LET sel == Merge!WithPrerequisites(S, auto)
               IN  /\ base # Merge!NoDoc
                   /\ Merge!Preflight(sel) /\ Merge!Mergeable(sel)
                   /\ doc' = Merge!ApplyOps(doc, Merge!Ops(sel \cup Merge!Included(sel)))
                   /\ UNCHANGED <<base, incoming>>
  <1>1. CASE UNCHANGED mergeVars
    BY <1>1 DEF mergeVars, Merge!vars
  <1>2. CASE Merge!Next
    <2>1. PICK S \in SUBSET Merge!Items, auto \in BOOLEAN : Merge!ApplyMerge(S, auto)
      BY <1>2 DEF Merge!Next, Merge!Merge, Merge!Patch, Merge!Edit, Merge!LoadComparison,
           Merge!UndoLastMerge, Merge!LoadPatch, Merge!LoadBaseline, Merge!ToggleOp, Merge!Resolve,
           Merge!ApplyFixes, Merge!ResetPatch, Merge!ApplyPatch
    <2>2. QED
      BY <2>1 DEF Merge!ApplyMerge
  <1>3. QED
    BY <1>1, <1>2 DEF WorkspaceNext

LEMMA PatchStepIs ==
  ASSUME [WorkspaceNext]_<<explored, vars, mergeVars>>, did' = "patch"
  PROVE  \/ UNCHANGED Merge!vars
         \/ Merge!ApplyPatch
  <1>1. CASE UNCHANGED mergeVars
    BY <1>1 DEF mergeVars, Merge!vars
  <1>2. CASE Merge!Next
    BY <1>2 DEF Merge!Next, Merge!Merge, Merge!Patch, Merge!Edit, Merge!LoadComparison, Merge!ApplyMerge,
         Merge!UndoLastMerge, Merge!LoadPatch, Merge!LoadBaseline, Merge!ToggleOp, Merge!Resolve,
         Merge!ApplyFixes, Merge!ResetPatch
  <1>3. QED
    BY <1>1, <1>2 DEF WorkspaceNext

LEMMA FixStepIs ==
  ASSUME [WorkspaceNext]_<<explored, vars, mergeVars>>, did' = "fix"
  PROVE  \/ UNCHANGED Merge!vars
         \/ \E S \in SUBSET Merge!Fixable(doc, patch) : Merge!ApplyFixes(S)
  <1>1. CASE UNCHANGED mergeVars
    BY <1>1 DEF mergeVars, Merge!vars
  <1>2. CASE Merge!Next
    BY <1>2 DEF Merge!Next, Merge!Merge, Merge!Patch, Merge!Edit, Merge!LoadComparison, Merge!ApplyMerge,
         Merge!UndoLastMerge, Merge!LoadPatch, Merge!LoadBaseline, Merge!ToggleOp, Merge!Resolve,
         Merge!ResetPatch, Merge!ApplyPatch
  <1>3. QED
    BY <1>1, <1>2 DEF WorkspaceNext

LEMMA MergedSo ==
  ASSUME MergeInv, [WorkspaceNext]_<<explored, vars, mergeVars>>, did' = "merge"
  PROVE  \/ UNCHANGED Merge!vars
         \/ /\ doc' \in Docs /\ Merge!Sound(doc')
            /\ \A i \in Ids : \/ doc'[i] = doc[i]
                              \/ doc'[i] = incoming[i] /\ doc[i] \in {base[i], incoming[i]}
  <1> SUFFICES ASSUME ~UNCHANGED Merge!vars
               PROVE  /\ doc' \in Docs /\ Merge!Sound(doc')
                      /\ \A i \in Ids : \/ doc'[i] = doc[i]
                                        \/ doc'[i] = incoming[i] /\ doc[i] \in {base[i], incoming[i]}
    OBVIOUS
  <1>1. PICK S \in SUBSET Merge!Items, auto \in BOOLEAN :
              LET sel == Merge!WithPrerequisites(S, auto)
              IN  /\ base # Merge!NoDoc
                  /\ Merge!Preflight(sel) /\ Merge!Mergeable(sel)
                  /\ doc' = Merge!ApplyOps(doc, Merge!Ops(sel \cup Merge!Included(sel)))
                  /\ UNCHANGED <<base, incoming>>
    BY MergeStepIs
  <1> DEFINE sel == Merge!WithPrerequisites(S, auto)
  <1>2. /\ base # Merge!NoDoc /\ ~Merge!Refused(sel) /\ Merge!Mergeable(sel)
        /\ doc' = Merge!ApplyOps(doc, Merge!Ops(sel \cup Merge!Included(sel)))
    BY <1>1 DEF Merge!Preflight
  <1>3. sel \in SUBSET Merge!Items
    BY DEF Merge!WithPrerequisites
  <1>4. base \in Docs /\ incoming \in Docs /\ doc \in Docs
    BY <1>2 DEF MergeInv, DocsOK
  <1> HIDE DEF sel
  <1>5. QED
    BY <1>2, <1>3, <1>4, MergedIs

(* A merge and a patch keep local work, for every set of cards, islands,    *)
(* edges and links and every document compared with: what was edited after  *)
(* the comparison was loaded stays, and so does the user's side of an       *)
(* unresolved conflict.                                                     *)
THEOREM LocalWorkHolds == WorkspaceSpec => LocalWorkKept
  <1> DEFINE Own == did' = "merge" =>
               \A i \in Merge!Ids :
                  /\ doc[i] \notin {base[i], incoming[i]} => doc'[i] = doc[i]
                  /\ doc'[i] # doc[i] => doc'[i] = incoming[i]
             Yours == did' = "patch" /\ baseline # Merge!NoDoc =>
               \A i \in Merge!Ids \ Links :
                  /\ doc[i] # baseline[i]
                  /\ \A n \in DOMAIN patch : patch[n].on = i =>
                        /\ patch[n].val \notin {doc[i], baseline[i]}
                        /\ patch[n].id \notin theirs
                  => doc'[i] = doc[i]
  <1>1. MergeInv /\ [WorkspaceNext]_<<explored, vars, mergeVars>> => [Own]_Merge!vars
    BY MergedSo DEF Ids
  <1>2. MergeInv /\ [WorkspaceNext]_<<explored, vars, mergeVars>> => [Yours]_Merge!vars
    <2> SUFFICES ASSUME MergeInv, [WorkspaceNext]_<<explored, vars, mergeVars>>,
                        ~UNCHANGED Merge!vars, did' = "patch", baseline # Merge!NoDoc,
                        NEW i \in Merge!Ids \ Links, doc[i] # baseline[i],
                        \A n \in DOMAIN patch : patch[n].on = i =>
                           /\ patch[n].val \notin {doc[i], baseline[i]}
                           /\ patch[n].id \notin theirs
                 PROVE  doc'[i] = doc[i]
      OBVIOUS
    <2> DEFINE K == {op \in Merge!Range(patch) :
                        /\ op.id \in chosen
                        /\ \/ baseline = Merge!NoDoc
                           \/ ~Merge!Conflicts(baseline, doc, op)
                           \/ op.id \in theirs}
               s == Merge!Keeping(patch, K)
    <2>1. doc' = Merge!ApplyOps(doc, s)
      BY PatchStepIs DEF Merge!ApplyPatch, Merge!Taken
    <2>2. doc \in Docs /\ patch \in Seq(Operations)
      BY DEF MergeInv, DocsOK, PatchOK
    <2>3. ASSUME NEW op \in K, op.on = i PROVE FALSE
      <3>1. PICK n \in DOMAIN patch : op = patch[n]
        BY DEF Merge!Range
      <3>2. Merge!Conflicts(baseline, doc, op)
        BY <3>1, <2>3 DEF Merge!Conflicts
      <3>3. QED
        BY <3>1, <3>2, <2>3
    <2> HIDE DEF K
    <2>4. s \in Seq(Operations) /\ \A n \in 1..Len(s) : s[n] \in K
      BY <2>2, KeptIs
    <2> HIDE DEF s
    <2>5. \A n \in 1..Len(s) : s[n].on # i
      BY <2>3, <2>4
    <2>6. Merge!ApplyOps(doc, s)[i] = Merge!LintView(doc, s)[i] /\ Merge!LintView(doc, s)[i] = doc[i]
      <3>1. i \in Ids /\ i \notin Links
        BY DEF Ids
      <3>2. Merge!ApplyOps(doc, s)[i] = Merge!LintView(doc, s)[i]
        BY <2>2, <2>4, <3>1, AppliedIs
      <3>3. \/ Merge!LintView(doc, s)[i] = doc[i]
            \/ \E n \in 1..Len(s) : s[n].on = i /\ Merge!LintView(doc, s)[i] = s[n].val
        BY <2>2, <2>4, <3>1, AppliedIs
      <3>4. QED
        BY <2>5, <3>2, <3>3
    <2>7. QED
      BY <2>1, <2>6
  <1>3. WorkspaceSpec => [][Own]_Merge!vars
    BY <1>1, AlwaysMergeInv, PTL DEF WorkspaceSpec
  <1>4. WorkspaceSpec => [][Yours]_Merge!vars
    BY <1>2, AlwaysMergeInv, PTL DEF WorkspaceSpec
  <1>5. QED
    BY <1>3, <1>4, PTL DEF LocalWorkKept, Merge!MergeKeepsLocalWork, Merge!ConflictsStayYours

(* A merge, and a patch applied whole, leave no reference without its end,  *)
(* and the fixes lint proposes remove the errors they were proposed for:    *)
(* for every document, comparison file and patch.                           *)
THEOREM ReferencesHold == WorkspaceSpec => ReferencesKept
  <1> DEFINE Merged == did' = "merge" =>
               \A i \in Merge!Ids : Merge!Has(doc', i) =>
                  /\ i \in Islands => \A c \in doc'[i] : Merge!Has(doc', c)
                  /\ i \in Edges \cup Links => \A e \in Ends[i] : Merge!Has(doc', e)
             Patched == did' = "patch" /\ chosen = Merge!OpIds(patch)
                          /\ (baseline = Merge!NoDoc \/ theirs = Merge!OpIds(patch)) =>
               \A i \in Merge!Ids : Merge!Has(doc', i) =>
                  /\ i \in Islands => \A c \in doc'[i] : Merge!Has(doc', c)
                  /\ i \in Edges \cup Links => \A e \in Ends[i] : Merge!Has(doc', e)
             Resolved == did' = "fix" =>
               \A n \in DOMAIN patch' :
                  LET op == patch'[n]
                  IN  op \notin Merge!Range(patch) =>
                        \A c \in op.val : Merge!Has(Merge!ApplyOps(doc, patch'), c)
  <1>1. MergeInv /\ [WorkspaceNext]_<<explored, vars, mergeVars>> => [Merged]_Merge!vars
    <2> SUFFICES ASSUME MergeInv, [WorkspaceNext]_<<explored, vars, mergeVars>>,
                        ~UNCHANGED Merge!vars, did' = "merge",
                        NEW i \in Merge!Ids, Merge!Has(doc', i)
                 PROVE  /\ i \in Islands => \A c \in doc'[i] : Merge!Has(doc', c)
                        /\ i \in Edges \cup Links => \A e \in Ends[i] : Merge!Has(doc', e)
      OBVIOUS
    <2>1. doc' \in Docs /\ Merge!Sound(doc')
      BY MergedSo
    <2>2. QED
      BY <2>1, SoundIs DEF Ids
  <1>2. MergeInv /\ [WorkspaceNext]_<<explored, vars, mergeVars>> => [Patched]_Merge!vars
    <2> SUFFICES ASSUME MergeInv, [WorkspaceNext]_<<explored, vars, mergeVars>>,
                        ~UNCHANGED Merge!vars, did' = "patch", chosen = Merge!OpIds(patch),
                        baseline = Merge!NoDoc \/ theirs = Merge!OpIds(patch),
                        NEW i \in Merge!Ids, Merge!Has(doc', i)
                 PROVE  /\ i \in Islands => \A c \in doc'[i] : Merge!Has(doc', c)
                        /\ i \in Edges \cup Links => \A e \in Ends[i] : Merge!Has(doc', e)
      OBVIOUS
    <2> DEFINE K == {op \in Merge!Range(patch) :
                        /\ op.id \in chosen
                        /\ \/ baseline = Merge!NoDoc
                           \/ ~Merge!Conflicts(baseline, doc, op)
                           \/ op.id \in theirs}
    <2>1. ~Merge!LintErrors(doc, patch) /\ doc' = Merge!ApplyOps(doc, Merge!Keeping(patch, K))
      BY PatchStepIs DEF Merge!ApplyPatch, Merge!Taken
    <2>2. doc \in Docs /\ patch \in Seq(Operations)
      BY DEF MergeInv, DocsOK, PatchOK
    <2>3. \A m \in 1..Len(patch) : patch[m] \in K
      BY <2>2 DEF Merge!Range, Merge!OpIds
    <2> HIDE DEF K
    <2>4. Merge!Keeping(patch, K) = patch
      BY <2>2, <2>3, KeptIs
    <2>5. doc' = Merge!ApplyOps(doc, patch)
      BY <2>1, <2>4
    <2>6. Merge!Has(Merge!ApplyOps(doc, patch), i)
      BY <2>5
    <2>7. /\ i \in Islands =>
                \A c \in Merge!ApplyOps(doc, patch)[i] : Merge!Has(Merge!ApplyOps(doc, patch), c)
          /\ i \in Edges \cup Links =>
                \A e \in Ends[i] : Merge!Has(Merge!ApplyOps(doc, patch), e)
      BY <2>1, <2>2, <2>6, WholePatchIs DEF Ids
    <2>8. QED
      BY <2>5, <2>7
  <1>3. MergeInv /\ [WorkspaceNext]_<<explored, vars, mergeVars>> => [Resolved]_Merge!vars
    <2> SUFFICES ASSUME MergeInv, [WorkspaceNext]_<<explored, vars, mergeVars>>,
                        ~UNCHANGED Merge!vars, did' = "fix",
                        NEW n \in DOMAIN patch', patch'[n] \notin Merge!Range(patch),
                        NEW c \in patch'[n].val
                 PROVE  Merge!Has(Merge!ApplyOps(doc, patch'), c)
      OBVIOUS
    <2>1. PICK S : patch' = Merge!Fixed(doc, patch, S)
      BY FixStepIs DEF Merge!ApplyFixes
    <2>2. doc \in Docs /\ patch \in Seq(Operations)
      BY DEF MergeInv, DocsOK, PatchOK
    <2> DEFINE q == Merge!Fixed(doc, patch, S)
    <2>3. /\ q \in Seq(Operations)
          /\ \A e \in Cards : Merge!LintView(doc, q)[e] = Merge!LintView(doc, patch)[e]
          /\ \A m \in 1..Len(q) :
                \/ \E k \in 1..Len(patch) : patch[k] = q[m]
                \/ /\ q[m].val \subseteq Cards
                   /\ \A e \in q[m].val : Merge!Has(Merge!LintView(doc, patch), e)
      BY <2>2, FixedIs
    <2>4. patch' = q
      BY <2>1
    <2> HIDE DEF q
    <2>5. n \in 1..Len(q) /\ q[n] \notin Merge!Range(patch) /\ c \in q[n].val
      BY <2>3, <2>4
    <2>6. ~\E k \in 1..Len(patch) : patch[k] = q[n]
      BY <2>2, <2>5 DEF Merge!Range
    <2>7. c \in Cards /\ Merge!Has(Merge!LintView(doc, patch), c)
      BY <2>3, <2>5, <2>6
    <2>8. c \in Ids /\ c \notin Links
      BY <2>7, SetsApart
    <2>9. Merge!ApplyOps(doc, q)[c] = Merge!LintView(doc, q)[c]
      BY <2>2, <2>3, <2>8, AppliedIs
    <2>10. Merge!Has(Merge!ApplyOps(doc, q), c)
      BY <2>3, <2>7, <2>9 DEF Merge!Has
    <2>11. QED
      BY <2>4, <2>10
  <1>4. WorkspaceSpec => [][Merged]_Merge!vars
    BY <1>1, AlwaysMergeInv, PTL DEF WorkspaceSpec
  <1>5. WorkspaceSpec => [][Patched]_Merge!vars
    BY <1>2, AlwaysMergeInv, PTL DEF WorkspaceSpec
  <1>6. WorkspaceSpec => [][Resolved]_Merge!vars
    BY <1>3, AlwaysMergeInv, PTL DEF WorkspaceSpec
  <1>7. QED
    BY <1>4, <1>5, <1>6, PTL
    DEF ReferencesKept, Merge!MergeKeepsReferences, Merge!WholePatchKeepsReferences, Merge!FixesResolve
=============================================================================
