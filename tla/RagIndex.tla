-------------------------------- MODULE RagIndex --------------------------------
(***************************************************************************)
(* DiskRagIndex (rag_index.py) and the provider that answers from it       *)
(* (providers/rag.py): passages, the full-text rows over them and their    *)
(* readers are three tables of one SQLite file that several processes      *)
(* write.  set_acl and purge_expired SELECT before the transaction of      *)
(* their writes begins, so another process may commit in between.          *)
(***************************************************************************)
EXTENDS Naturals, Sequences, FiniteSets, SequencesExt

CONSTANTS
  Corpora,     \* tenants, told apart by their digests
  Curators,    \* processes that maintain the index
  Readers, Anyone, \* principals, and the public one
  Batches,     \* passages of a replace: [id, text, readers, until]
  Dotted,      \* identifiers with a dot in them
  LastDay      \* bound of the clock

VARIABLES
  passages,    \* rag_passages: tenant -> rows
  fts,         \* rag_fts: tenant -> passage id -> rows
  acl,         \* rag_acl: tenant -> <<passage id, principal>>
  published,   \* history: tenant -> passage id -> readers of the last publisher
  curator,     \* what each curator selected and is about to write
  day,         \* the clock
  shown        \* the passage each reader was given last, with its handle

ragIndex == <<passages, fts, acl, published, curator, day, shown>>

PassageIds == UNION {{b[i].id : i \in DOMAIN b} : b \in Batches}
ASSUME BatchesAssumption ==
  \A b \in Batches :
    /\ b \in Seq(ToSet(b))
    /\ \A i \in DOMAIN b : b[i].readers \subseteq Readers \cup {Anyone}

NoJob == [job |-> "none"]
NoHit == [id |-> 0]

RagInit ==
  /\ passages = [t \in Corpora |-> {}]
  /\ fts = [t \in Corpora |-> [id \in PassageIds |-> 0]]
  /\ acl = [t \in Corpora |-> {}]
  /\ published = [t \in Corpora |-> [id \in PassageIds |-> {}]]
  /\ curator = [c \in Curators |-> NoJob]
  /\ day = 0
  /\ shown = [r \in Readers |-> NoHit]

-----------------------------------------------------------------------------
(* INSERT OR IGNORE, in the order of the batch: a passage is stored unless *)
(* one stored before has its id, or its text by another id.                *)
Clash(p, q) == p # q /\ (p.id = q.id \/ p.text = q.text)
Ingested(batch, rows) ==
  \A i \in DOMAIN batch :
    batch[i] \in rows <=> \A j \in 1 .. i - 1 : batch[j] \in rows => ~Clash(batch[j], batch[i])

AclOf(batch) == UNION {{batch[i].id} \X batch[i].readers : i \in DOMAIN batch}
RowsPerId(rows) == [id \in PassageIds |-> Cardinality({p \in rows : p.id = id})]
(* Whom a publication names for an id: where it names the id twice, all of *)
(* them, though only the first passage is stored.                          *)
ReadersOf(batch) == [id \in PassageIds |->
  UNION {batch[i].readers : i \in {j \in DOMAIN batch : batch[j].id = id}}]

(* replace: everything of the tenant goes, then the batches come.          *)
AclKept(t) == acl[t]   \* faulty: the deletion is forgotten
Cleared(t) == {}
ReplaceCorpus(t, batch) ==
  /\ \E rows \in SUBSET ToSet(batch) :
       /\ Ingested(batch, rows)
       /\ passages' = [passages EXCEPT ![t] = rows]
       /\ fts' = [fts EXCEPT ![t] = RowsPerId(rows)]
       /\ published' = [published EXCEPT ![t] = ReadersOf(batch)]
  /\ acl' = [acl EXCEPT ![t] = Cleared(t) \cup AclOf(batch)]
  /\ UNCHANGED <<curator, day, shown>>

-----------------------------------------------------------------------------
SelectPassage(c, t, id, readers) ==
  /\ curator[c] = NoJob /\ \E p \in passages[t] : p.id = id
  /\ curator' = [curator EXCEPT ![c] = [job |-> "acl", of |-> t, id |-> id, readers |-> readers]]
  /\ UNCHANGED <<passages, fts, acl, published, day, shown>>

RemoveAcl(t, ids) == {a \in acl[t] : a[1] \notin ids}

WriteAcl(c) ==
  LET w == curator[c] IN
  /\ w.job = "acl"
  /\ acl' = [acl EXCEPT ![w.of] = RemoveAcl(w.of, {w.id}) \cup ({w.id} \X w.readers)]
  /\ published' = [published EXCEPT ![w.of][w.id] = w.readers]
  /\ curator' = [curator EXCEPT ![c] = NoJob]
  /\ UNCHANGED <<passages, fts, day, shown>>

ExpiredIds(t) == {p.id : p \in {q \in passages[t] : q.until <= day}}

SelectExpired(c, t) ==
  /\ curator[c] = NoJob /\ ExpiredIds(t) # {}
  /\ curator' = [curator EXCEPT ![c] = [job |-> "purge", of |-> t, ids |-> ExpiredIds(t)]]
  /\ UNCHANGED <<passages, fts, acl, published, day, shown>>

PurgeSelected(c) ==
  LET w == curator[c]
      kept == {p \in passages[w.of] : p.id \notin w.ids}
  IN
  /\ w.job = "purge"
  /\ passages' = [passages EXCEPT ![w.of] = kept]
  /\ fts' = [fts EXCEPT ![w.of] = [id \in PassageIds |-> IF id \in w.ids THEN 0 ELSE @[id]]]
  /\ acl' = [acl EXCEPT ![w.of] = RemoveAcl(w.of, w.ids)]
  /\ curator' = [curator EXCEPT ![c] = NoJob]
  /\ UNCHANGED <<published, day, shown>>

-----------------------------------------------------------------------------
Permits(t, p, r) == p.until > day /\ \E s \in {Anyone, r} : <<p.id, s>> \in acl[t]
SearchHits(t, r) == {p \in passages[t] : fts[t][p.id] > 0 /\ Permits(t, p, r)}
Behind(t, id, r) == {p \in passages[t] : p.id = id /\ Permits(t, p, r)}

(* retrieve with a query: some of the hits, within the reader's bounds.    *)
RetrievePassage(t, r) ==
  /\ \E p \in SearchHits(t, r) :
       shown' = [shown EXCEPT ![r] = [id |-> p.id, of |-> t, text |-> p.text]]
  /\ UNCHANGED <<passages, fts, acl, published, curator, day>>

(* A handle is the signed text of its tenant and its id, and is read again *)
(* by splitting it at dots: an id that has one is cut short, and what is   *)
(* left of it has another signature.                                       *)
HandleOf(t, p) == [of |-> t, id |-> p.id]
VerifiesFor(handle, t) == handle.of = t /\ handle.id \notin Dotted

(* retrieve with the handle of an earlier hit, in a scope of its tenant:   *)
(* the row is whatever is stored under the id by now.                      *)
ExpandHandle(t, r) ==
  /\ shown[r] # NoHit
  /\ VerifiesFor([of |-> shown[r].of, id |-> shown[r].id], t)
  /\ \E p \in Behind(t, shown[r].id, r) : shown' = [shown EXCEPT ![r].text = p.text]
  /\ UNCHANGED <<passages, fts, acl, published, curator, day>>

DayPasses ==
  /\ day < LastDay /\ day' = day + 1
  /\ UNCHANGED <<passages, fts, acl, published, curator, shown>>

AnyGrant(c) == \E t \in Corpora, id \in PassageIds, r \in Readers : SelectPassage(c, t, id, {r})
RagNext ==
  \/ \E t \in Corpora, b \in Batches : ReplaceCorpus(t, b)
  \/ \E c \in Curators : AnyGrant(c) \/ WriteAcl(c) \/ PurgeSelected(c)
  \/ \E c \in Curators, t \in Corpora : SelectExpired(c, t)
  \/ \E t \in Corpora, r \in Readers : RetrievePassage(t, r) \/ ExpandHandle(t, r)
  \/ DayPasses
RagSpec == RagInit /\ [][RagNext]_ragIndex

-----------------------------------------------------------------------------
Expandable(t, r) ==
  {p \in passages[t] : VerifiesFor(HandleOf(t, p), t) /\ p \in Behind(t, p.id, r)}

(* The three tables agree however the curators' reads and writes fall: a   *)
(* passage is stored once and found once, a passage can be read by exactly *)
(* the principals its last publisher named, and what a search shows can be *)
(* expanded, and nothing else can, but for the passages whose id has a     *)
(* dot: these are found and refused (_verify_handle, 353-361).             *)
RagIsExact ==
  \A t \in Corpora :
    /\ fts[t] = RowsPerId(passages[t])
    /\ \A p, q \in passages[t] : p.text = q.text => p = q
    /\ \A p \in passages[t] : {r \in Readers \cup {Anyone} : <<p.id, r>> \in acl[t]}
                                = published[t][p.id]
    /\ \A r \in Readers : Expandable(t, r) = {p \in SearchHits(t, r) : p.id \notin Dotted}

(* purge_expired deletes content whose retention has ended (182-213), and  *)
(* no other.                                                               *)
PurgeTakesExpired ==
  [][\A c \in Curators, t \in Corpora : PurgeSelected(c) =>
       \A p \in passages[t] \ passages'[t] : p.until <= day]_ragIndex
================================================================================
