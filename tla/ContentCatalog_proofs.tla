----------------------- MODULE ContentCatalog_proofs -----------------------
(***************************************************************************)
(* Proofs, for any number of concurrent requests and any bounds, that a    *)
(* deleted site never reappears and that the catalog stays well typed, and *)
(* for one request at a time that domains stay unique.                     *)
(*                                                                         *)
(* DeletedSitesStayDeleted is not inductive alone: an INSERT adds the row  *)
(* nextSite, and nothing in the property says nextSite was never deleted.  *)
(* The strengthening IdsIssued says every id in the table or in the        *)
(* deleted history was issued by the AUTO_INCREMENT before, i.e. lies      *)
(* below nextSite; an UPDATE never adds a row, whichever stale entity it   *)
(* writes.                                                                 *)
(***************************************************************************)
EXTENDS ContentCatalog, TLAPS

IdsIssued ==
    /\ nextSite \in Nat \ {0}
    /\ DOMAIN siteRows \subseteq 1..(nextSite - 1)
    /\ deletedSites \subseteq 1..(nextSite - 1)

DeleteInv == IdsIssued /\ DeletedSitesStayDeleted

-----------------------------------------------------------------------------
(* Type correctness.  CatalogTypeOK lets a busy goroutine hold any request *)
(* and any entity; it is not inductive, since e.g. UsSave returns its      *)
(* entity and needs its id to be a real one.  WorkerShape says what each   *)
(* step of a use case holds: the request of that use case, and the entity  *)
(* it has loaded or built by then.                                         *)

CsReqs == [op : {"CreateSite"}, tenant : TenantIds, domain : Domains,
           tmpl : Templates, desc : Descs \cup {Nil}]
UsReqs == [op : {"UpdateSite"}, id : SiteIds, domain : Domains \cup {Nil},
           tmpl : Templates \cup {Nil}, desc : Descs \cup {Nil}]
IdReqs == [op : {"DeleteSite", "EnableSite", "DisableSite"}, id : SiteIds]
CtReqs == [op : {"CreateTenant"}, desc : Descs \cup {Nil}]
UtReqs == [op : {"UpdateTenant"}, id : TenantIds, desc : Descs \cup {Nil}]
DtReqs == [op : {"DeleteTenant"}, id : TenantIds]

StoredSite == {e \in SiteEntity : e.id \in SiteIds}
StoredTenant == [id : TenantIds, desc : Descs \cup {Nil}]

WorkerShape ==
    {Idle}
    \cup [pc : {"done"}, status : {200, 201, 500}]
    \cup [pc : {"cs_tenant"}, req : CsReqs, ent : {Nil}]
    \cup [pc : {"cs_exists", "cs_insert"}, req : CsReqs, ent : SiteEntity]
    \cup [pc : {"us_find"}, req : UsReqs, ent : {Nil}]
    \cup [pc : {"us_domain"}, req : {r \in UsReqs : r.domain # Nil}, ent : StoredSite]
    \cup [pc : {"us_save", "en_save"}, req : UsReqs \cup IdReqs, ent : StoredSite]
    \cup [pc : {"ds_find", "en_find", "ds_delete"}, req : IdReqs, ent : {Nil}]
    \cup [pc : {"ct_insert"}, req : CtReqs, ent : {Nil}]
    \cup [pc : {"ut_find"}, req : UtReqs, ent : {Nil}]
    \cup [pc : {"ut_save"}, req : UtReqs, ent : StoredTenant]
    \cup [pc : {"dt_find", "dt_delete"}, req : DtReqs, ent : {Nil}]

TypeInv ==
    /\ tx \in [Workers -> TxState]
    /\ DOMAIN siteRows \subseteq SiteIds
    /\ siteRows \in [DOMAIN siteRows -> SiteRow]
    /\ DOMAIN tenantRows \subseteq TenantIds
    /\ tenantRows \in [DOMAIN tenantRows -> [desc : Descs \cup {Nil}]]
    /\ nextSite \in 1..MaxSites + 1 /\ nextTenant \in 1..MaxTenants + 1
    /\ wpc \in [Workers -> WorkerShape]
    /\ returned \in [Workers -> StoredSite \cup StoredTenant \cup {Nil}]
    /\ deletedSites \subseteq SiteIds

\* What a goroutine about to write a site knows of its domain: a create
\* found it free, an update or an enable/disable holds a domain that no
\* other row has.
DomainChecked ==
    \A w \in Workers :
        /\ wpc[w].pc = "cs_insert" => SitesWithDomain(wpc[w].ent.domain) = {}
        /\ wpc[w].pc \in {"us_save", "en_save"} =>
              SitesWithDomain(wpc[w].ent.domain) \subseteq {wpc[w].ent.id}

DomainInv == DomainsUnique /\ DomainChecked

-----------------------------------------------------------------------------
\* Adding the row k: the domain grows by k and the old rows are kept.
LEMMA AddRowDomain ==
    ASSUME NEW f, NEW k, NEW v
    PROVE  DOMAIN AddRow(f, k, v) = DOMAIN f \cup {k}
BY DEF AddRow

\* The UPDATE of Save changes no table's domain.
LEMMA UpdateKeepsRows ==
    ASSUME NEW e
    PROVE  DOMAIN UpdateSiteRow(e) = DOMAIN siteRows
BY DEF UpdateSiteRow

\* The steps that write no site row and issue no id.
LEMMA SiteRowsKept ==
    ASSUME NEW w \in Workers,
           \/ \E r \in Requests : Dispatch(w, r)
           \/ Complete(w) \/ StatementFails(w)
           \/ CsTenantFound(w) \/ CsTenantMissing(w)
           \/ CsDomainFree(w) \/ CsDomainTaken(w)
           \/ UsFound(w) \/ UsNotFound(w) \/ UsDomainFree(w) \/ UsDomainTaken(w)
           \/ SiteFound(w) \/ SiteNotFound(w)
           \/ CtInsert(w) \/ TenantFound(w) \/ TenantNotFound(w)
           \/ UtSave(w) \/ DtDelete(w)
    PROVE  UNCHANGED <<siteRows, nextSite, deletedSites>>
BY DEF Dispatch, Complete, StatementFails, CsTenantFound, CsTenantMissing,
   CsDomainFree, CsDomainTaken, UsFound, UsNotFound, UsDomainFree,
   UsDomainTaken, SiteFound, SiteNotFound, CtInsert, TenantFound,
   TenantNotFound, UtSave, DtDelete

-----------------------------------------------------------------------------
\* DeleteInv holds initially and is preserved by every step.
LEMMA DeleteInvInit == CatalogInit => DeleteInv
BY DEF CatalogInit, DeleteInv, IdsIssued, DeletedSitesStayDeleted

LEMMA DeleteInvStep == DeleteInv /\ [CatalogNext]_vars => DeleteInv'
<1> SUFFICES ASSUME DeleteInv, [CatalogNext]_vars
             PROVE  DeleteInv'
  OBVIOUS
<1> USE DEF DeleteInv, IdsIssued, DeletedSitesStayDeleted
<1>1. ASSUME NEW w \in Workers, CsInsert(w)
      PROVE  DeleteInv'
  <2> DEFINE e == [wpc[w].ent EXCEPT !.id = nextSite]
  <2>1. siteRows' = AddRow(siteRows, nextSite, InsertedSiteRow(e))
        /\ nextSite' = nextSite + 1 /\ deletedSites' = deletedSites
    BY <1>1 DEF CsInsert
  <2>2. DOMAIN siteRows' = DOMAIN siteRows \cup {nextSite}
    BY <2>1, AddRowDomain
  <2>3. QED
    BY <2>1, <2>2
<1>2. ASSUME NEW w \in Workers, UsSave(w)
      PROVE  DeleteInv'
  BY <1>2, UpdateKeepsRows DEF UsSave
<1>3. ASSUME NEW w \in Workers, EnSave(w)
      PROVE  DeleteInv'
  BY <1>3, UpdateKeepsRows DEF EnSave
<1>4. ASSUME NEW w \in Workers, DsDelete(w)
      PROVE  DeleteInv'
  BY <1>4 DEF DsDelete
<1>5. ASSUME NEW w \in Workers,
             \/ \E r \in Requests : Dispatch(w, r)
             \/ Complete(w) \/ StatementFails(w)
             \/ CsTenantFound(w) \/ CsTenantMissing(w)
             \/ CsDomainFree(w) \/ CsDomainTaken(w)
             \/ UsFound(w) \/ UsNotFound(w) \/ UsDomainFree(w) \/ UsDomainTaken(w)
             \/ SiteFound(w) \/ SiteNotFound(w)
             \/ CtInsert(w) \/ TenantFound(w) \/ TenantNotFound(w)
             \/ UtSave(w) \/ DtDelete(w)
      PROVE  DeleteInv'
  BY <1>5, SiteRowsKept
<1>6. CASE UNCHANGED vars
  BY <1>6 DEF vars, catalogVars
<1>7. QED
  BY <1>1, <1>2, <1>3, <1>4, <1>5, <1>6 DEF CatalogNext

\* No interleaving of create, update, enable, disable and delete requests
\* brings a deleted site back: an UPDATE of a stale entity whose row is
\* gone writes nothing, and AUTO_INCREMENT never reissues an id.
THEOREM DeletedSitesStayDeletedHolds == CatalogSpec => []DeletedSitesStayDeleted
<1>1. DeleteInv => DeletedSitesStayDeleted
  BY DEF DeleteInv
<1>2. QED
  BY <1>1, DeleteInvInit, DeleteInvStep, PTL DEF CatalogSpec

-----------------------------------------------------------------------------
\* A step that sets w's record to one of the right shape keeps wpc typed.
LEMMA SetShape ==
    ASSUME NEW w \in Workers, NEW x \in WorkerShape,
           wpc \in [Workers -> WorkerShape],
           wpc' = [wpc EXCEPT ![w] = x]
    PROVE  wpc' \in [Workers -> WorkerShape]
OBVIOUS

\* Finish: the use case of w has answered.
LEMMA FinishShape ==
    ASSUME NEW w \in Workers, NEW st \in {200, 201, 500},
           wpc \in [Workers -> WorkerShape], Finish(w, st)
    PROVE  wpc' \in [Workers -> WorkerShape]
BY SetShape DEF Finish, WorkerShape

\* UPDATE with a typed entity keeps the sites table typed.
LEMMA UpdateRowType ==
    ASSUME NEW e \in SiteEntity, siteRows \in [DOMAIN siteRows -> SiteRow]
    PROVE  UpdateSiteRow(e) \in [DOMAIN siteRows -> SiteRow]
BY DEF UpdateSiteRow, SiteEntity, SiteRow

\* The row FindByID maps to an entity.
LEMMA LoadedType ==
    ASSUME NEW id \in DOMAIN siteRows, DOMAIN siteRows \subseteq SiteIds,
           siteRows \in [DOMAIN siteRows -> SiteRow]
    PROVE  SiteToDomain(id) \in StoredSite
BY DEF SiteToDomain, StoredSite, SiteEntity, SiteRow

LEMMA TypeInvInit == CatalogInit => TypeInv
BY CatalogAssumption DEF CatalogInit, TrxInit, TypeInv, TxState, WorkerShape, Idle

LEMMA TypeInvStep == TypeInv /\ [CatalogNext]_vars => TypeInv'
<1> SUFFICES ASSUME TypeInv, [CatalogNext]_vars
             PROVE  TypeInv'
  OBVIOUS
<1> USE CatalogAssumption DEF TypeInv
<1>1. ASSUME NEW w \in Workers, NEW r \in Requests, Dispatch(w, r)
      PROVE  TypeInv'
  <2>1. [pc |-> FirstStep[r.op], req |-> r, ent |-> Nil] \in WorkerShape
    BY DEF Requests, FirstStep, WorkerShape, CsReqs, UsReqs, IdReqs, CtReqs,
           UtReqs, DtReqs
  <2>2. QED
    BY <1>1, <2>1, SetShape DEF Dispatch, TrxBegin, TxState
<1>2. ASSUME NEW w \in Workers, Complete(w)
      PROVE  TypeInv'
  <2>1. Idle \in WorkerShape
    BY DEF WorkerShape
  <2>2. QED
    BY <1>2, <2>1, SetShape DEF Complete, TrxEnd, TxState
<1>3. ASSUME NEW w \in Workers,
             \/ StatementFails(w) \/ CsTenantMissing(w) \/ CsDomainTaken(w)
             \/ UsNotFound(w) \/ UsDomainTaken(w) \/ SiteNotFound(w)
             \/ TenantNotFound(w)
      PROVE  TypeInv'
  BY <1>3, FinishShape
     DEF StatementFails, CsTenantMissing, CsDomainTaken, UsNotFound,
         UsDomainTaken, SiteNotFound, TenantNotFound, trxVars
<1>4. ASSUME NEW w \in Workers, CsTenantFound(w)
      PROVE  TypeInv'
  <2>1. [pc |-> "cs_exists", req |-> wpc[w].req, ent |-> NewSite(wpc[w].req)]
          \in WorkerShape
    BY <1>4 DEF CsTenantFound, WorkerShape, CsReqs, NewSite, SiteEntity, Idle
  <2>2. QED
    BY <1>4, <2>1, SetShape DEF CsTenantFound, Goto, trxVars
<1>5. ASSUME NEW w \in Workers, CsDomainFree(w)
      PROVE  TypeInv'
  <2>1. [pc |-> "cs_insert", req |-> wpc[w].req, ent |-> wpc[w].ent]
          \in WorkerShape
    BY <1>5 DEF CsDomainFree, WorkerShape, Idle
  <2>2. QED
    BY <1>5, <2>1, SetShape DEF CsDomainFree, Goto, trxVars
<1>6. ASSUME NEW w \in Workers, CsInsert(w)
      PROVE  TypeInv'
  <2> DEFINE e == [wpc[w].ent EXCEPT !.id = nextSite]
  <2>1. wpc[w].ent \in SiteEntity /\ nextSite \in SiteIds
    BY <1>6 DEF CsInsert, WorkerShape, Idle
  <2>2. e \in StoredSite
    BY <2>1 DEF StoredSite, SiteEntity
  <2>3. InsertedSiteRow(e) \in SiteRow
    BY <2>2 DEF InsertedSiteRow, StoredSite, SiteEntity, SiteRow
  <2>4. /\ DOMAIN siteRows' = DOMAIN siteRows \cup {nextSite}
        /\ siteRows' \in [DOMAIN siteRows' -> SiteRow]
    BY <1>6, <2>3 DEF CsInsert, AddRow
  <2>5. returned' \in [Workers -> StoredSite \cup StoredTenant \cup {Nil}]
    BY <1>6, <2>2 DEF CsInsert
  <2>6. nextSite' \in 1..MaxSites + 1
    BY <1>6, <2>1 DEF CsInsert, SiteIds
  <2>7. QED
    BY <1>6, <2>4, <2>5, <2>6, FinishShape DEF CsInsert, trxVars
<1>7. ASSUME NEW w \in Workers, UsFound(w)
      PROVE  TypeInv'
  <2> DEFINE r == wpc[w].req
             e == UpdatedEntity(SiteToDomain(r.id), r)
  <2>1. r \in UsReqs /\ r.id \in DOMAIN siteRows
    BY <1>7 DEF UsFound, WorkerShape, Idle
  <2>2. e \in StoredSite
    <3>1. SiteToDomain(r.id) \in StoredSite
      BY <2>1, LoadedType
    <3>2. QED
      BY <2>1, <3>1 DEF UpdatedEntity, StoredSite, SiteEntity, UsReqs
  <2>3. [pc |-> IF r.domain = Nil THEN "us_save" ELSE "us_domain",
         req |-> r, ent |-> e] \in WorkerShape
    BY <2>1, <2>2 DEF WorkerShape
  <2>4. QED
    BY <1>7, <2>3, SetShape DEF UsFound, Goto, trxVars
<1>8. ASSUME NEW w \in Workers, UsDomainFree(w)
      PROVE  TypeInv'
  <2>1. wpc[w].req \in UsReqs /\ wpc[w].req.domain \in Domains
        /\ wpc[w].ent \in StoredSite
    BY <1>8 DEF UsDomainFree, WorkerShape, Idle, UsReqs
  <2>2. [pc |-> "us_save", req |-> wpc[w].req,
         ent |-> [wpc[w].ent EXCEPT !.domain = wpc[w].req.domain]] \in WorkerShape
    BY <2>1 DEF WorkerShape, StoredSite, SiteEntity
  <2>3. QED
    BY <1>8, <2>2, SetShape DEF UsDomainFree, Goto, trxVars
<1>9. ASSUME NEW w \in Workers, UsSave(w) \/ EnSave(w)
      PROVE  TypeInv'
  <2>1. wpc[w].ent \in StoredSite
    BY <1>9 DEF UsSave, EnSave, WorkerShape, Idle
  <2>2. UpdateSiteRow(wpc[w].ent) \in [DOMAIN siteRows -> SiteRow]
        /\ DOMAIN UpdateSiteRow(wpc[w].ent) = DOMAIN siteRows
    BY <2>1, UpdateRowType, UpdateKeepsRows DEF StoredSite
  <2>3. QED
    BY <1>9, <2>1, <2>2, FinishShape DEF UsSave, EnSave, trxVars
<1>10. ASSUME NEW w \in Workers, SiteFound(w)
       PROVE  TypeInv'
  <2> DEFINE r == wpc[w].req
  <2>1. r \in IdReqs /\ r.id \in DOMAIN siteRows
        /\ wpc[w].pc \in {"ds_find", "en_find"}
    BY <1>10 DEF SiteFound, WorkerShape, Idle
  <2>2. [SiteToDomain(r.id) EXCEPT !.enabled = (r.op = "EnableSite")]
          \in StoredSite
    BY <2>1, LoadedType DEF StoredSite, SiteEntity
  <2>3. [pc |-> "ds_delete", req |-> r, ent |-> Nil] \in WorkerShape
        /\ [pc |-> "en_save", req |-> r,
            ent |-> [SiteToDomain(r.id) EXCEPT !.enabled = (r.op = "EnableSite")]]
             \in WorkerShape
    BY <2>1, <2>2 DEF WorkerShape
  <2>4. QED
    BY <1>10, <2>3, SetShape DEF SiteFound, Goto, trxVars
<1>11. ASSUME NEW w \in Workers, DsDelete(w)
       PROVE  TypeInv'
  <2>1. wpc[w].req \in IdReqs
    BY <1>11 DEF DsDelete, WorkerShape, Idle
  <2>2. QED
    BY <1>11, <2>1, FinishShape DEF DsDelete, trxVars, IdReqs
<1>12. ASSUME NEW w \in Workers, CtInsert(w)
       PROVE  TypeInv'
  <2>1. wpc[w].req \in CtReqs /\ nextTenant \in TenantIds
    BY <1>12 DEF CtInsert, WorkerShape, Idle
  <2>2. /\ DOMAIN tenantRows' = DOMAIN tenantRows \cup {nextTenant}
        /\ tenantRows' \in [DOMAIN tenantRows' -> [desc : Descs \cup {Nil}]]
    BY <1>12 DEF CtInsert, AddRow
  <2>3. returned'[w] \in StoredTenant
    BY <1>12, <2>1 DEF CtInsert, StoredTenant, CtReqs
  <2>4. returned' \in [Workers -> StoredSite \cup StoredTenant \cup {Nil}]
    BY <1>12, <2>3 DEF CtInsert
  <2>5. nextTenant' \in 1..MaxTenants + 1
    BY <1>12, <2>1 DEF CtInsert, TenantIds
  <2>6. QED
    BY <1>12, <2>2, <2>4, <2>5, FinishShape DEF CtInsert, trxVars
<1>13. ASSUME NEW w \in Workers, TenantFound(w)
       PROVE  TypeInv'
  <2> DEFINE r == wpc[w].req
  <2>1. \/ wpc[w].pc = "ut_find" /\ r \in UtReqs
        \/ wpc[w].pc = "dt_find" /\ r \in DtReqs
    BY <1>13 DEF TenantFound, WorkerShape, Idle
  <2>2. r.id \in DOMAIN tenantRows
    BY <1>13 DEF TenantFound
  <2>3. CASE wpc[w].pc = "ut_find" /\ r \in UtReqs
    <3>1. [pc |-> "ut_save", req |-> r,
           ent |-> [id |-> r.id,
                    desc |-> IF r.desc = Nil THEN tenantRows[r.id].desc ELSE r.desc]]
            \in WorkerShape
      BY <2>2, <2>3 DEF WorkerShape, StoredTenant, UtReqs
    <3>2. QED
      BY <1>13, <2>3, <3>1, SetShape DEF TenantFound, Goto, trxVars
  <2>4. CASE wpc[w].pc = "dt_find" /\ r \in DtReqs
    <3>1. [pc |-> "dt_delete", req |-> r, ent |-> Nil] \in WorkerShape
      BY <2>4 DEF WorkerShape
    <3>2. QED
      BY <1>13, <2>4, <3>1, SetShape DEF TenantFound, Goto, trxVars
  <2>5. QED
    BY <2>1, <2>3, <2>4
<1>14. ASSUME NEW w \in Workers, UtSave(w)
       PROVE  TypeInv'
  <2>1. wpc[w].ent \in StoredTenant
    BY <1>14 DEF UtSave, WorkerShape, Idle
  <2>2. QED
    BY <1>14, <2>1, FinishShape DEF UtSave, trxVars
<1>15. ASSUME NEW w \in Workers, DtDelete(w)
       PROVE  TypeInv'
  BY <1>15, FinishShape DEF DtDelete, trxVars
<1>16. CASE UNCHANGED vars
  BY <1>16 DEF vars, catalogVars, trxVars
<1>17. QED
  BY <1>1, <1>2, <1>3, <1>4, <1>5, <1>6, <1>7, <1>8, <1>9, <1>10, <1>11,
     <1>12, <1>13, <1>14, <1>15, <1>16 DEF CatalogNext

\* TypeInv is what CatalogTypeOK says, and more.
LEMMA TypeInvTypeOK == TypeInv => CatalogTypeOK
<1> SUFFICES ASSUME TypeInv PROVE CatalogTypeOK
  OBVIOUS
<1>1. \E S \in SUBSET SiteIds : siteRows \in [S -> SiteRow]
  BY DEF TypeInv
<1>2. \E T \in SUBSET TenantIds : tenantRows \in [T -> [desc : Descs \cup {Nil}]]
  BY DEF TypeInv
<1>3. wpc \in [Workers -> WorkerState]
  BY DEF TypeInv, WorkerShape, WorkerState, DbSteps, Requests, CsReqs, UsReqs,
         IdReqs, CtReqs, UtReqs, DtReqs, StoredSite, StoredTenant, TenantEntity
<1>4. returned \in [Workers -> {e \in SiteEntity : e.id # 0}
                              \cup [id : TenantIds, desc : Descs \cup {Nil}]
                              \cup {Nil}]
  BY DEF TypeInv, StoredSite, StoredTenant, SiteIds
<1>5. QED
  BY <1>1, <1>2, <1>3, <1>4 DEF TypeInv, CatalogTypeOK

\* Every reachable state is well typed, for any number of concurrent
\* requests and any bounds: in particular every entity a create or update
\* returns carries the id of a real row (never the 0 of an unsaved one).
THEOREM CatalogTypeCorrect == CatalogSpec => []CatalogTypeOK
BY TypeInvInit, TypeInvStep, TypeInvTypeOK, PTL DEF CatalogSpec


-----------------------------------------------------------------------------
(* Domains are unique when requests run one at a time: the ExistsByDomain  *)
(* and FindByDomain checks are enough without concurrency.  (With two      *)
(* goroutines they are not: run catalog_domain_race.)                      *)

\* What SitesWithDomain says of a typed, duplicate-free table.
LEMMA OwnDomain ==
    ASSUME DomainsUnique, NEW id \in DOMAIN siteRows
    PROVE  SitesWithDomain(siteRows[id].domain) \subseteq {id}
BY DEF DomainsUnique, SitesWithDomain

\* The steps that write no site and bring w to no step that writes one.
LEMMA NoSiteWrite ==
    ASSUME NEW w \in Workers, TypeInv,
           \/ \E r \in Requests : Dispatch(w, r)
           \/ Complete(w) \/ StatementFails(w)
           \/ CsTenantFound(w) \/ CsTenantMissing(w) \/ CsDomainTaken(w)
           \/ UsNotFound(w) \/ UsDomainTaken(w) \/ SiteNotFound(w)
           \/ CtInsert(w) \/ TenantFound(w) \/ TenantNotFound(w)
           \/ UtSave(w) \/ DtDelete(w)
    PROVE  /\ siteRows' = siteRows
           /\ wpc'[w].pc \notin {"cs_insert", "us_save", "en_save"}
<1>1. CASE \E r \in Requests : Dispatch(w, r)
  <2>1. PICK r \in Requests : Dispatch(w, r)
    BY <1>1
  <2>2. FirstStep[r.op] \notin {"cs_insert", "us_save", "en_save"}
    BY DEF Requests, FirstStep
  <2>3. QED
    BY <2>1, <2>2 DEF Dispatch, TypeInv
<1>2. CASE ~\E r \in Requests : Dispatch(w, r)
  BY <1>2 DEF Complete, StatementFails, CsTenantFound, CsTenantMissing,
     CsDomainTaken, UsNotFound, UsDomainTaken, SiteNotFound, CtInsert,
     TenantFound, TenantNotFound, UtSave, DtDelete, Finish, Goto, TypeInv, Idle
<1>3. QED
  BY <1>1, <1>2

LEMMA DomainInvStep ==
    ASSUME NEW w0, Workers = {w0},
           TypeInv, IdsIssued, DomainInv, [CatalogNext]_vars
    PROVE  DomainInv'
<1> USE DEF TypeInv
<1>1. ASSUME NEW w \in Workers,
             \/ \E r \in Requests : Dispatch(w, r)
             \/ Complete(w) \/ StatementFails(w)
             \/ CsTenantFound(w) \/ CsTenantMissing(w) \/ CsDomainTaken(w)
             \/ UsNotFound(w) \/ UsDomainTaken(w) \/ SiteNotFound(w)
             \/ CtInsert(w) \/ TenantFound(w) \/ TenantNotFound(w)
             \/ UtSave(w) \/ DtDelete(w)
      PROVE  DomainInv'
  <2>1. siteRows' = siteRows /\ wpc'[w].pc \notin {"cs_insert", "us_save", "en_save"}
    BY <1>1, NoSiteWrite
  <2>2. QED
    BY <2>1 DEF DomainInv, DomainsUnique, DomainChecked, SitesWithDomain
<1>2. ASSUME NEW w \in Workers, CsDomainFree(w)
      PROVE  DomainInv'
  <2>1. /\ siteRows' = siteRows /\ wpc'[w].pc = "cs_insert"
        /\ wpc'[w].ent = wpc[w].ent
        /\ SitesWithDomain(wpc[w].ent.domain) = {}
    BY <1>2 DEF CsDomainFree, Goto
  <2>2. QED
    BY <2>1 DEF DomainInv, DomainsUnique, DomainChecked, SitesWithDomain
<1>3. ASSUME NEW w \in Workers, UsFound(w)
      PROVE  DomainInv'
  <2> DEFINE r == wpc[w].req
  <2>1. r.id \in DOMAIN siteRows /\ siteRows' = siteRows
        /\ wpc'[w].ent = UpdatedEntity(SiteToDomain(r.id), r)
        /\ wpc'[w].pc \in {"us_save", "us_domain"}
    BY <1>3 DEF UsFound, Goto
  <2>2. wpc'[w].ent.domain = siteRows[r.id].domain /\ wpc'[w].ent.id = r.id
    BY <2>1 DEF UpdatedEntity, SiteToDomain
  <2>3. SitesWithDomain(wpc'[w].ent.domain) \subseteq {wpc'[w].ent.id}
    BY <2>1, <2>2, OwnDomain DEF DomainInv
  <2>4. QED
    BY <2>1, <2>3 DEF DomainInv, DomainsUnique, DomainChecked, SitesWithDomain
<1>4. ASSUME NEW w \in Workers, UsDomainFree(w)
      PROVE  DomainInv'
  <2> DEFINE e == wpc[w].ent
             d == wpc[w].req.domain
  <2>1. /\ siteRows' = siteRows /\ wpc'[w].pc = "us_save"
        /\ wpc'[w].ent = [e EXCEPT !.domain = d]
        /\ SitesWithDomain(d) = {} \/ e.id \in SitesWithDomain(d)
        /\ wpc[w].pc = "us_domain"
    BY <1>4 DEF UsDomainFree, Goto
  <2>2. e \in StoredSite
    BY <2>1 DEF WorkerShape, Idle
  <2>3. wpc'[w].ent.domain = d /\ wpc'[w].ent.id = e.id
    BY <2>1, <2>2 DEF StoredSite, SiteEntity
  <2>4. SitesWithDomain(d) \subseteq {e.id}
    BY <2>1 DEF DomainInv, DomainsUnique, SitesWithDomain
  <2>5. \A i \in DOMAIN siteRows' : siteRows'[i].domain = wpc'[w].ent.domain
                                    => i = wpc'[w].ent.id
    BY <2>1, <2>3, <2>4 DEF SitesWithDomain
  <2>6. DomainsUnique'
    BY <2>1 DEF DomainInv, DomainsUnique
  <2>7. \A u \in Workers : u = w
    OBVIOUS
  <2>8. QED
    BY <2>1, <2>5, <2>6, <2>7 DEF DomainInv, DomainChecked, SitesWithDomain
<1>5. ASSUME NEW w \in Workers, SiteFound(w)
      PROVE  DomainInv'
  <2> DEFINE r == wpc[w].req
  <2>1. r.id \in DOMAIN siteRows /\ siteRows' = siteRows
    BY <1>5 DEF SiteFound
  <2>2. CASE wpc[w].pc = "ds_find"
    <3>1. wpc'[w].pc = "ds_delete"
      BY <1>5, <2>2 DEF SiteFound, Goto
    <3>2. QED
      BY <2>1, <3>1 DEF DomainInv, DomainsUnique, DomainChecked, SitesWithDomain
  <2>3. CASE wpc[w].pc # "ds_find"
    <3>1. wpc'[w] = [pc |-> "en_save", req |-> r,
                     ent |-> [SiteToDomain(r.id) EXCEPT !.enabled = (r.op = "EnableSite")]]
      BY <1>5, <2>3 DEF SiteFound, Goto
    <3>2. wpc'[w].ent.domain = siteRows[r.id].domain /\ wpc'[w].ent.id = r.id
      BY <3>1 DEF SiteToDomain
    <3>3. SitesWithDomain(wpc'[w].ent.domain) \subseteq {wpc'[w].ent.id}
      BY <2>1, <3>2, OwnDomain DEF DomainInv
    <3>4. QED
      BY <2>1, <3>1, <3>3 DEF DomainInv, DomainsUnique, DomainChecked, SitesWithDomain
  <2>4. QED
    BY <2>2, <2>3
<1>6. ASSUME NEW w \in Workers, CsInsert(w)
      PROVE  DomainInv'
  <2> DEFINE e == [wpc[w].ent EXCEPT !.id = nextSite]
  <2>1. /\ siteRows' = AddRow(siteRows, nextSite, InsertedSiteRow(e))
        /\ wpc'[w].pc = "done" /\ wpc[w].pc = "cs_insert"
    BY <1>6 DEF CsInsert, Finish
  <2>2. wpc[w].ent \in SiteEntity
    BY <2>1 DEF WorkerShape, Idle
  <2>3. InsertedSiteRow(e).domain = wpc[w].ent.domain
    BY <2>2 DEF InsertedSiteRow, SiteEntity
  <2>4. nextSite \notin DOMAIN siteRows
    BY DEF IdsIssued
  <2>5. SitesWithDomain(wpc[w].ent.domain) = {}
    BY <2>1 DEF DomainInv, DomainChecked
  <2>6. DomainsUnique'
    BY <2>1, <2>3, <2>4, <2>5 DEF DomainInv, DomainsUnique, SitesWithDomain, AddRow
  <2>7. QED
    BY <2>1, <2>6 DEF DomainInv, DomainChecked
<1>7. ASSUME NEW w \in Workers, UsSave(w) \/ EnSave(w)
      PROVE  DomainInv'
  <2> DEFINE e == wpc[w].ent
  <2>1. /\ siteRows' = UpdateSiteRow(e)
        /\ wpc'[w].pc = "done" /\ wpc[w].pc \in {"us_save", "en_save"}
    BY <1>7 DEF UsSave, EnSave, Finish
  <2>2. SitesWithDomain(e.domain) \subseteq {e.id}
    BY <2>1 DEF DomainInv, DomainChecked
  <2>3. DomainsUnique'
    BY <2>1, <2>2 DEF DomainInv, DomainsUnique, SitesWithDomain, UpdateSiteRow
  <2>4. QED
    BY <2>1, <2>3 DEF DomainInv, DomainChecked
<1>8. ASSUME NEW w \in Workers, DsDelete(w)
      PROVE  DomainInv'
  <2>1. /\ siteRows' = [i \in DOMAIN siteRows \ {wpc[w].req.id} |-> siteRows[i]]
        /\ wpc'[w].pc = "done"
    BY <1>8 DEF DsDelete, Finish
  <2>2. QED
    BY <2>1 DEF DomainInv, DomainsUnique, DomainChecked, SitesWithDomain
<1>9. CASE UNCHANGED vars
  BY <1>9 DEF vars, catalogVars, DomainInv, DomainsUnique, DomainChecked,
              SitesWithDomain
<1>10. QED
  BY <1>1, <1>2, <1>3, <1>4, <1>5, <1>6, <1>7, <1>8, <1>9 DEF CatalogNext

\* With one request at a time (a single request goroutine, as in the run
\* catalog_sequential), CreateSite's ExistsByDomain and UpdateSite's
\* FindByDomain keep every site's domain unique, through any sequence of
\* creates, updates, enables, disables, deletes and failed statements.
THEOREM DomainsUniqueSequential ==
    ASSUME NEW w0, Workers = {w0}
    PROVE  CatalogSpec => []DomainsUnique
<1> DEFINE Inv == TypeInv /\ DeleteInv /\ DomainInv
<1>1. CatalogInit => Inv
  BY TypeInvInit, DeleteInvInit
     DEF CatalogInit, DomainInv, DomainsUnique, DomainChecked, TrxInit, Idle
<1>2. Inv /\ [CatalogNext]_vars => Inv'
  BY TypeInvStep, DeleteInvStep, DomainInvStep DEF DeleteInv
<1>3. Inv => DomainsUnique
  BY DEF DomainInv
<1>4. QED
  BY <1>1, <1>2, <1>3, PTL DEF CatalogSpec

=============================================================================
