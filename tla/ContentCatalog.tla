--------------------------- MODULE ContentCatalog ---------------------------
(***************************************************************************)
(* Tenants and sites: the use cases of application/use_cases/{tenant,site} *)
(* .go over the repositories of infrastructure/persistence/repositories    *)
(* /{tenant,site}.go and the mappers of infrastructure/persistence/mappers *)
(* /{tenant,site}.go, run by concurrent request goroutines inside the      *)
(* DbTrx middleware.                                                       *)
(*                                                                         *)
(* The repositories run every statement on the common.Database connection *)
(* (autocommit), not on the request's transaction, so each SELECT, INSERT, *)
(* UPDATE or DELETE is one atomic step, and the steps of a use case        *)
(* interleave with those of other requests.  A statement can fail (the     *)
(* connection, the server): the use case then returns the error.           *)
(*                                                                         *)
(* Data is abstracted to what the checks and the SQL tell apart: names are *)
(* left out (only their emptiness is checked, before any statement); a     *)
(* site keeps its domain, tenant, enabled flag, template and description;  *)
(* a tenant its description.  Nil stands for NULL, a zero id, or an        *)
(* argument the caller left empty.                                         *)
(***************************************************************************)
EXTENDS DbTrx, Naturals, Functions

CONSTANTS
    Domains,    \* valid, normalised domain names (value_objects.DomainName)
    Templates,  \* template ids other than 0
    Descs,      \* descriptions
    Nil,        \* NULL / 0 / "" / nil
    MaxSites,   \* bound on the sites table's AUTO_INCREMENT
    MaxTenants  \* bound on the tenants table's AUTO_INCREMENT

ASSUME CatalogAssumption ==
    /\ MaxSites \in Nat /\ MaxTenants \in Nat
    /\ Nil \notin Domains \cup Templates \cup Descs

SiteIds == 1..MaxSites
TenantIds == 1..MaxTenants

VARIABLES
    tenantRows,     \* the tenants table: id -> [desc]
    siteRows,       \* the sites table: id -> [domain, tenant, enabled, tmpl, desc]
    nextTenant,     \* AUTO_INCREMENT of tenants
    nextSite,       \* AUTO_INCREMENT of sites
    wpc,            \* wpc[w]: the use case request w runs, its step and entity
    returned,       \* history: entity returned by w's last successful write
    deletedSites    \* history: ids of the rows DeleteSite removed

catalogVars ==
    <<tenantRows, siteRows, nextTenant, nextSite, wpc, returned, deletedSites>>
vars == <<trxVars, catalogVars>>

Requests ==
    [op : {"CreateSite"}, tenant : TenantIds, domain : Domains,
     tmpl : Templates, desc : Descs \cup {Nil}]
    \cup [op : {"UpdateSite"}, id : SiteIds, domain : Domains \cup {Nil},
          tmpl : Templates \cup {Nil}, desc : Descs \cup {Nil}]
    \cup [op : {"DeleteSite", "EnableSite", "DisableSite"}, id : SiteIds]
    \cup [op : {"CreateTenant"}, desc : Descs \cup {Nil}]
    \cup [op : {"UpdateTenant"}, id : TenantIds, desc : Descs \cup {Nil}]
    \cup [op : {"DeleteTenant"}, id : TenantIds]

SiteRow == [domain : Domains, tenant : TenantIds, enabled : BOOLEAN,
            tmpl : Templates \cup {Nil}, desc : Descs \cup {Nil}]
SiteEntity == [id : SiteIds \cup {0}, domain : Domains, tenant : TenantIds,
               enabled : BOOLEAN, tmpl : Templates \cup {Nil},
               desc : Descs \cup {Nil}]
TenantEntity == [id : TenantIds \cup {0}, desc : Descs \cup {Nil}]

Idle == [pc |-> "idle"]

-----------------------------------------------------------------------------
(* Entities and mappers.                                                   *)

\* entities.NewSite: a new site is enabled and has no id yet.
NewSite(r) == [id |-> 0, domain |-> r.domain, tenant |-> r.tenant,
               enabled |-> TRUE, tmpl |-> r.tmpl, desc |-> r.desc]

\* FindByID: SELECT * and SiteMapper.ToDomain, which copies every column.
SiteToDomain(id) ==
    [id |-> id, domain |-> siteRows[id].domain, tenant |-> siteRows[id].tenant,
     enabled |-> siteRows[id].enabled, tmpl |-> siteRows[id].tmpl,
     desc |-> siteRows[id].desc]

\* SiteRepositoryImpl.Save, model.ID == 0: the INSERT lists domain, name,
\* tenant_id, enabled and the timestamps; template_id and description
\* take the column defaults.
InsertedSiteRow(e) == [domain |-> e.domain, tenant |-> e.tenant,
                       enabled |-> e.enabled, tmpl |-> Nil, desc |-> Nil]

\* Save with an id: UPDATE ... SET the same columns WHERE id = ?; a row that
\* is gone is not touched, and the call succeeds.
UpdateSiteRow(e) ==
    IF e.id \in DOMAIN siteRows
    THEN [siteRows EXCEPT ![e.id] = [@ EXCEPT !.domain = e.domain,
                                       !.tenant = e.tenant, !.enabled = e.enabled]]
    ELSE siteRows

\* A table with the row k added (an INSERT of a fresh AUTO_INCREMENT id).
AddRow(f, k, v) == [i \in DOMAIN f \cup {k} |-> IF i = k THEN v ELSE f[i]]

\* FindByDomain: db.Get returns one of the rows with that domain, if any.
SitesWithDomain(d) == {id \in DOMAIN siteRows : siteRows[id].domain = d}

-----------------------------------------------------------------------------
(* The request lifecycle: the middleware around the use case.              *)

FirstStep == [CreateSite |-> "cs_tenant", UpdateSite |-> "us_find",
              DeleteSite |-> "ds_find", EnableSite |-> "en_find",
              DisableSite |-> "en_find", CreateTenant |-> "ct_insert",
              UpdateTenant |-> "ut_find", DeleteTenant |-> "dt_find"]

\* Begin succeeds and the handler calls the use case.
Dispatch(w, r) ==
    /\ wpc[w] = Idle
    /\ TrxBegin(w)
    /\ wpc' = [wpc EXCEPT ![w] = [pc |-> FirstStep[r.op], req |-> r, ent |-> Nil]]
    /\ returned' = [returned EXCEPT ![w] = Nil]
    /\ UNCHANGED <<tenantRows, siteRows, nextTenant, nextSite, deletedSites>>

\* The handler has answered; the middleware commits or rolls back.
Complete(w) ==
    /\ wpc[w].pc = "done"
    /\ TrxEnd(w, wpc[w].status)
    /\ wpc' = [wpc EXCEPT ![w] = Idle]
    /\ UNCHANGED <<tenantRows, siteRows, nextTenant, nextSite, returned, deletedSites>>

\* w's use case returns: 200/201 on success, an error status otherwise.
Finish(w, status) == wpc' = [wpc EXCEPT ![w] = [pc |-> "done", status |-> status]]

\* w moves to step pc with entity e.
Goto(w, pc, e) == wpc' = [wpc EXCEPT ![w] = [pc |-> pc, req |-> wpc[w].req, ent |-> e]]

DbSteps == {"cs_tenant", "cs_exists", "cs_insert", "us_find", "us_domain",
            "us_save", "ds_find", "ds_delete", "en_find", "en_save",
            "ct_insert", "ut_find", "ut_save", "dt_find", "dt_delete"}

\* The statement of w's current step fails: the error is returned, 500.
StatementFails(w) ==
    /\ wpc[w].pc \in DbSteps
    /\ Finish(w, 500)
    /\ UNCHANGED <<trxVars, tenantRows, siteRows, nextTenant, nextSite, returned, deletedSites>>

-----------------------------------------------------------------------------
(* SiteUseCase.CreateSite: FindByID of the tenant, ExistsByDomain, Save.   *)

CsTenantFound(w) ==
    /\ wpc[w].pc = "cs_tenant"
    /\ wpc[w].req.tenant \in DOMAIN tenantRows
    /\ Goto(w, "cs_exists", NewSite(wpc[w].req))
    /\ UNCHANGED <<trxVars, tenantRows, siteRows, nextTenant, nextSite, returned, deletedSites>>

CsTenantMissing(w) ==
    /\ wpc[w].pc = "cs_tenant"
    /\ wpc[w].req.tenant \notin DOMAIN tenantRows
    /\ Finish(w, 500)
    /\ UNCHANGED <<trxVars, tenantRows, siteRows, nextTenant, nextSite, returned, deletedSites>>

\* Mutant: no ExistsByDomain check before the insert.
CsDomainCheckSkipped(w) ==
    /\ wpc[w].pc = "cs_exists"
    /\ Goto(w, "cs_insert", wpc[w].ent)
    /\ UNCHANGED <<trxVars, tenantRows, siteRows, nextTenant, nextSite, returned, deletedSites>>

\* SELECT COUNT(*) ... WHERE domain = ?  is 0.
CsDomainFree(w) ==
    /\ wpc[w].pc = "cs_exists"
    /\ SitesWithDomain(wpc[w].ent.domain) = {}
    /\ Goto(w, "cs_insert", wpc[w].ent)
    /\ UNCHANGED <<trxVars, tenantRows, siteRows, nextTenant, nextSite, returned, deletedSites>>

CsDomainTaken(w) ==
    /\ wpc[w].pc = "cs_exists"
    /\ SitesWithDomain(wpc[w].ent.domain) # {}
    /\ Finish(w, 500)
    /\ UNCHANGED <<trxVars, tenantRows, siteRows, nextTenant, nextSite, returned, deletedSites>>

\* Mutant: the id from LastInsertId is not set on the entity.
CsInsertNoSetID(w) ==
    LET e == wpc[w].ent IN
    /\ wpc[w].pc = "cs_insert"
    /\ nextSite \in SiteIds
    /\ siteRows' = AddRow(siteRows, nextSite, InsertedSiteRow(e))
    /\ nextSite' = nextSite + 1
    /\ returned' = [returned EXCEPT ![w] = e]
    /\ Finish(w, 201)
    /\ UNCHANGED <<trxVars, tenantRows, nextTenant, deletedSites>>

\* Save of a new site: INSERT, then site.SetID(LastInsertId()).
CsInsert(w) ==
    LET e == [wpc[w].ent EXCEPT !.id = nextSite] IN
    /\ wpc[w].pc = "cs_insert"
    /\ nextSite \in SiteIds
    /\ siteRows' = AddRow(siteRows, nextSite, InsertedSiteRow(e))
    /\ nextSite' = nextSite + 1
    /\ returned' = [returned EXCEPT ![w] = e]
    /\ Finish(w, 201)
    /\ UNCHANGED <<trxVars, tenantRows, nextTenant, deletedSites>>

-----------------------------------------------------------------------------
(* SiteUseCase.UpdateSite: FindByID, the entity updates, FindByDomain when *)
(* a domain is given, Save.                                                *)

\* The loaded site with the request applied: the description always
\* (UpdateDescription accepts nil), the template when it is not 0.
UpdatedEntity(e, r) ==
    [e EXCEPT !.desc = r.desc, !.tmpl = IF r.tmpl = Nil THEN @ ELSE r.tmpl]

UsFound(w) ==
    LET r == wpc[w].req IN
    /\ wpc[w].pc = "us_find"
    /\ r.id \in DOMAIN siteRows
    /\ Goto(w, IF r.domain = Nil THEN "us_save" ELSE "us_domain",
            UpdatedEntity(SiteToDomain(r.id), r))
    /\ UNCHANGED <<trxVars, tenantRows, siteRows, nextTenant, nextSite, returned, deletedSites>>

UsNotFound(w) ==
    /\ wpc[w].pc = "us_find"
    /\ wpc[w].req.id \notin DOMAIN siteRows
    /\ Finish(w, 500)
    /\ UNCHANGED <<trxVars, tenantRows, siteRows, nextTenant, nextSite, returned, deletedSites>>

\* FindByDomain finds no site, or finds this very site.
UsDomainFree(w) ==
    LET e == wpc[w].ent
        d == wpc[w].req.domain IN
    /\ wpc[w].pc = "us_domain"
    /\ \/ SitesWithDomain(d) = {}
       \/ e.id \in SitesWithDomain(d)
    /\ Goto(w, "us_save", [e EXCEPT !.domain = d])
    /\ UNCHANGED <<trxVars, tenantRows, siteRows, nextTenant, nextSite, returned, deletedSites>>

\* FindByDomain returns another site.
UsDomainTaken(w) ==
    /\ wpc[w].pc = "us_domain"
    /\ SitesWithDomain(wpc[w].req.domain) \ {wpc[w].ent.id} # {}
    /\ Finish(w, 500)
    /\ UNCHANGED <<trxVars, tenantRows, siteRows, nextTenant, nextSite, returned, deletedSites>>

\* Mutant: Save with an id as an upsert (REPLACE INTO): a row deleted in
\* the meantime is written back.
UsSaveUpsert(w) ==
    LET e == wpc[w].ent IN
    /\ wpc[w].pc = "us_save"
    /\ siteRows' = IF e.id \in DOMAIN siteRows THEN UpdateSiteRow(e)
                   ELSE AddRow(siteRows, e.id, InsertedSiteRow(e))
    /\ returned' = [returned EXCEPT ![w] = e]
    /\ Finish(w, 200)
    /\ UNCHANGED <<trxVars, tenantRows, nextTenant, nextSite, deletedSites>>

UsSave(w) ==
    LET e == wpc[w].ent IN
    /\ wpc[w].pc = "us_save"
    /\ siteRows' = UpdateSiteRow(e)
    /\ returned' = [returned EXCEPT ![w] = e]
    /\ Finish(w, 200)
    /\ UNCHANGED <<trxVars, tenantRows, nextTenant, nextSite, deletedSites>>

-----------------------------------------------------------------------------
(* DeleteSite, EnableSite, DisableSite: FindByID, then one statement.      *)

\* FindByID finds the site: DeleteSite goes on to Delete; Enable and
\* Disable flip the flag on the entity they loaded.
SiteFound(w) ==
    LET r == wpc[w].req IN
    /\ wpc[w].pc \in {"ds_find", "en_find"}
    /\ r.id \in DOMAIN siteRows
    /\ IF wpc[w].pc = "ds_find"
         THEN Goto(w, "ds_delete", Nil)
         ELSE Goto(w, "en_save", [SiteToDomain(r.id) EXCEPT
                                   !.enabled = (r.op = "EnableSite")])
    /\ UNCHANGED <<trxVars, tenantRows, siteRows, nextTenant, nextSite, returned, deletedSites>>

SiteNotFound(w) ==
    /\ wpc[w].pc \in {"ds_find", "en_find"}
    /\ wpc[w].req.id \notin DOMAIN siteRows
    /\ Finish(w, 500)
    /\ UNCHANGED <<trxVars, tenantRows, siteRows, nextTenant, nextSite, returned, deletedSites>>

\* DELETE FROM sites WHERE id = ?
DsDelete(w) ==
    LET id == wpc[w].req.id IN
    /\ wpc[w].pc = "ds_delete"
    /\ siteRows' = [i \in DOMAIN siteRows \ {id} |-> siteRows[i]]
    /\ deletedSites' = deletedSites \cup ({id} \cap DOMAIN siteRows)
    /\ Finish(w, 200)
    /\ UNCHANGED <<trxVars, tenantRows, nextTenant, nextSite, returned>>

\* Save of the whole loaded entity: every column it read is written back.
EnSave(w) ==
    /\ wpc[w].pc = "en_save"
    /\ siteRows' = UpdateSiteRow(wpc[w].ent)
    /\ Finish(w, 200)
    /\ UNCHANGED <<trxVars, tenantRows, nextTenant, nextSite, returned, deletedSites>>

-----------------------------------------------------------------------------
(* TenantUseCase: CreateTenant, UpdateTenant, DeleteTenant.                *)

\* Save of a new tenant: the INSERT lists name and the timestamps only, so
\* the description is not stored; then tenant.SetID(LastInsertId()).
CtInsert(w) ==
    /\ wpc[w].pc = "ct_insert"
    /\ nextTenant \in TenantIds
    /\ tenantRows' = AddRow(tenantRows, nextTenant, [desc |-> Nil])
    /\ nextTenant' = nextTenant + 1
    /\ returned' = [returned EXCEPT ![w] = [id |-> nextTenant, desc |-> wpc[w].req.desc]]
    /\ Finish(w, 201)
    /\ UNCHANGED <<trxVars, siteRows, nextSite, deletedSites>>

\* FindByID finds the tenant.  UpdateTenant sets the description when one
\* is given; DeleteTenant goes on to Delete.
TenantFound(w) ==
    LET r == wpc[w].req IN
    /\ wpc[w].pc \in {"ut_find", "dt_find"}
    /\ r.id \in DOMAIN tenantRows
    /\ IF wpc[w].pc = "ut_find"
         THEN Goto(w, "ut_save",
                   [id |-> r.id,
                    desc |-> IF r.desc = Nil THEN tenantRows[r.id].desc ELSE r.desc])
         ELSE Goto(w, "dt_delete", Nil)
    /\ UNCHANGED <<trxVars, tenantRows, siteRows, nextTenant, nextSite, returned, deletedSites>>

TenantNotFound(w) ==
    /\ wpc[w].pc \in {"ut_find", "dt_find"}
    /\ wpc[w].req.id \notin DOMAIN tenantRows
    /\ Finish(w, 500)
    /\ UNCHANGED <<trxVars, tenantRows, siteRows, nextTenant, nextSite, returned, deletedSites>>

\* UPDATE tenants SET name, created_at, updated_at WHERE id = ?: none of
\* the columns the model keeps changes.
UtSave(w) ==
    /\ wpc[w].pc = "ut_save"
    /\ returned' = [returned EXCEPT ![w] = wpc[w].ent]
    /\ Finish(w, 200)
    /\ UNCHANGED <<trxVars, tenantRows, siteRows, nextTenant, nextSite, deletedSites>>

\* DELETE FROM tenants WHERE id = ?; the tenant's sites are not looked at.
DtDelete(w) ==
    LET id == wpc[w].req.id IN
    /\ wpc[w].pc = "dt_delete"
    /\ tenantRows' = [i \in DOMAIN tenantRows \ {id} |-> tenantRows[i]]
    /\ Finish(w, 200)
    /\ UNCHANGED <<trxVars, siteRows, nextTenant, nextSite, returned, deletedSites>>

-----------------------------------------------------------------------------
CatalogInit ==
    /\ TrxInit
    /\ tenantRows = [i \in {} |-> [desc |-> Nil]]
    /\ siteRows = [i \in {} |-> [domain |-> Nil]]
    /\ nextTenant = 1
    /\ nextSite = 1
    /\ wpc = [w \in Workers |-> Idle]
    /\ returned = [w \in Workers |-> Nil]
    /\ deletedSites = {}

CatalogNext ==
    \E w \in Workers :
        \/ \E r \in Requests : Dispatch(w, r)
        \/ Complete(w)
        \/ StatementFails(w)
        \/ CsTenantFound(w) \/ CsTenantMissing(w)
        \/ CsDomainFree(w) \/ CsDomainTaken(w) \/ CsInsert(w)
        \/ UsFound(w) \/ UsNotFound(w) \/ UsDomainFree(w) \/ UsDomainTaken(w)
        \/ UsSave(w)
        \/ SiteFound(w) \/ SiteNotFound(w) \/ DsDelete(w) \/ EnSave(w)
        \/ CtInsert(w) \/ TenantFound(w) \/ TenantNotFound(w)
        \/ UtSave(w) \/ DtDelete(w)

CatalogSpec == CatalogInit /\ [][CatalogNext]_vars

-----------------------------------------------------------------------------
(* Properties.                                                             *)

WorkerState ==
    {Idle}
    \cup [pc : DbSteps, req : Requests, ent : SiteEntity \cup TenantEntity \cup {Nil}]
    \cup [pc : {"done"}, status : {200, 201, 500}]

CatalogTypeOK ==
    /\ tx \in [Workers -> TxState]
    /\ \E S \in SUBSET SiteIds : siteRows \in [S -> SiteRow]
    /\ \E T \in SUBSET TenantIds : tenantRows \in [T -> [desc : Descs \cup {Nil}]]
    /\ nextSite \in 1..MaxSites + 1 /\ nextTenant \in 1..MaxTenants + 1
    /\ wpc \in [Workers -> WorkerState]
    /\ returned \in [Workers -> {e \in SiteEntity : e.id # 0}
                              \cup [id : TenantIds, desc : Descs \cup {Nil}]
                              \cup {Nil}]
    /\ deletedSites \subseteq SiteIds

\* No two sites share a domain: the intent of CreateSite's ExistsByDomain
\* and UpdateSite's FindByDomain checks ("site with this domain already
\* exists", use_cases/site.go 48-55 and 133-140) made before they write.
DomainsUnique ==
    \A i, j \in DOMAIN siteRows :
        i # j => siteRows[i].domain # siteRows[j].domain

\* A site DeleteSite removed never reappears, even when an UpdateSite,
\* EnableSite or DisableSite that loaded it before the delete saves its
\* stale copy afterwards.
DeletedSitesStayDeleted ==
    \A id \in deletedSites : id \notin DOMAIN siteRows

\* The entity a create or update returns is what is stored: reading the
\* row back (with no other request in between) gives the same template
\* and description for a site, the same description for a tenant.
WriteReadBack ==
    \A w \in Workers :
        LET e == returned[w] IN
        /\ e # Nil /\ "domain" \in DOMAIN e /\ e.id \in DOMAIN siteRows
             => siteRows[e.id] = [domain |-> e.domain, tenant |-> e.tenant,
                                  enabled |-> e.enabled, tmpl |-> e.tmpl,
                                  desc |-> e.desc]
        /\ e # Nil /\ "domain" \notin DOMAIN e /\ e.id \in DOMAIN tenantRows
             => tenantRows[e.id].desc = e.desc

=============================================================================
