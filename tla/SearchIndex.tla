---------------------------- MODULE SearchIndex ----------------------------
(* The vector index (Qdrant) that a document's chunks are written to and      *)
(* searched in: LegalEmbedder.index_document and store.search_hybrid.         *)
(*                                                                            *)
(* A point has the id hash(filename + number of the chunk), and Python salts  *)
(* hash anew in every interpreter.  So a document that is indexed twice       *)
(* replaces its points in the interpreter that made them and doubles them in  *)
(* another one, and two documents with one filename replace each other's.     *)
EXTENDS Naturals, Sequences, FiniteSets

CONSTANTS
    Docs,
    Interpreters,  \* every start of a worker is another one
    NameOf,        \* NameOf[d]: the filename
    HomeOf,        \* HomeOf[d]: the workspace; all are of one organisation
    Chunks,        \* Chunks[d]: how many there are
    TopK,
    MaxJobs        \* bound: documents being indexed at a time; they meet in
                   \* the upsert only, which is one step

ASSUME SearchIndexAssumption ==
    /\ Chunks \in [Docs -> Nat \ {0}]
    /\ DOMAIN NameOf = Docs /\ DOMAIN HomeOf = Docs
    /\ TopK \in Nat \ {0}

VARIABLES
    job,         \* job[d]: the run of index_document for d
    points,      \* what Qdrant holds
    indexed      \* history: the interpreters in which d was indexed

indexVars == <<job, points, indexed>>

(* Otherwise batch is the next group of texts, and vectors says of which      *)
(* chunks those so far are.                                                   *)
NoJob == [at |-> "idle"]

IndexInit ==
    /\ job = [d \in Docs |-> NoJob]
    /\ points = {}
    /\ indexed = [d \in Docs |-> {}]

-----------------------------------------------------------------------------
(* Writing: upload, retry, redelivery or reprocessing run it any number of    *)
(* times.                                                                     *)

IndexDocument(d, s) ==
    /\ job[d] = NoJob
    /\ Cardinality({e \in Docs : job[e] # NoJob}) < MaxJobs
    /\ job' = [job EXCEPT ![d] = [at |-> "embed", on |-> s, batch |-> 1, vectors |-> <<>>]]
    /\ UNCHANGED <<points, indexed>>

(* _embed_voyage sends the texts in groups (here of one).  A group that is    *)
(* refused or times out five times is passed over without an exception.       *)
EmbedBatch(d) ==
    /\ job[d].at = "embed"
    /\ job[d].batch <= Chunks[d]
    /\ \E got \in {<<job[d].batch>>, <<>>} :
        job' = [job EXCEPT ![d].batch = @ + 1, ![d].vectors = @ \o got]
    /\ UNCHANGED <<points, indexed>>

(* Any other error five times, or a lost worker: nothing was written yet.     *)
IndexingFails(d) ==
    /\ job[d] # NoJob
    /\ job' = [job EXCEPT ![d] = NoJob]
    /\ UNCHANGED <<points, indexed>>

(* Mutant: the id is new in every run.                                        *)
PointIdFresh(d, s, i) == <<s, NameOf[d], i + Cardinality(points)>>

PointId(d, s, i) == <<s, NameOf[d], i>>

PointsOf(d, s, vectors) ==
    {[id |-> PointId(d, s, i), doc |-> d, chunk |-> i, vector |-> vectors[i]] :
        i \in DOMAIN vectors}

(* Mutant: a document with no vector missing, and one with some, are written. *)
AllEmbeddedBug(d) == TRUE

(* len(all_embeddings) = len(texts), else RuntimeError.                       *)
AllEmbedded(d) == Len(job[d].vectors) = Chunks[d]

(* One upsert of all points.                                                  *)
Upsert(d) ==
    LET new == PointsOf(d, job[d].on, job[d].vectors) IN
    /\ job[d].at = "embed"
    /\ job[d].batch > Chunks[d]
    /\ job' = [job EXCEPT ![d] = NoJob]
    /\ IF AllEmbedded(d)
       THEN /\ points' = {p \in points : \A q \in new : q.id # p.id} \cup new
            /\ indexed' = [indexed EXCEPT ![d] = @ \cup {job[d].on}]
       ELSE UNCHANGED <<points, indexed>>

IndexNext ==
    \E d \in Docs :
        \/ \E s \in Interpreters : IndexDocument(d, s)
        \/ EmbedBatch(d) \/ IndexingFails(d) \/ Upsert(d)

IndexSpec == IndexInit /\ [][IndexNext]_indexVars

-----------------------------------------------------------------------------
(* Searching.  Which hits score best is any choice.                           *)

Lesser(m, n) == IF m <= n THEN m ELSE n
Best(S, k) == {R \in SUBSET S : Cardinality(R) = Lesser(k, Cardinality(S))}

(* The filter: the organisation always, a workspace and a filename if given.  *)
Matching(w, n) ==
    {p \in points : HomeOf[p.doc] \in w /\ NameOf[p.doc] \in n}

(* search_hybrid without a contract, and with contracts: the hits of all,     *)
(* each id once; reranked, and cut to TopK.  A contract whose query fails     *)
(* three times adds none.  The budget of 12000 characters never cuts deeper,  *)
(* as a chunk has 2000 at most and TopK is 5.                                 *)
SearchAll(w) == Best(Matching(w, {NameOf[d] : d \in Docs}), TopK)
SearchHybrid(w, names) ==
    UNION {Best(Matching(w, heard), TopK) : heard \in SUBSET names}

(* search_tool: a search_hybrid per contract; each text once; TopK of those.  *)
TextOf(p) == <<p.doc, p.chunk>>
OncePerText(S) ==
    {R \in SUBSET S :
        /\ {TextOf(p) : p \in R} = {TextOf(p) : p \in S}
        /\ \A p, q \in R : TextOf(p) = TextOf(q) => p = q}

SearchTool(w, names) ==
    LET found == {f \in [names -> SUBSET points] :
                      \A n \in names : f[n] \in SearchHybrid(w, {n})}
    IN  UNION {UNION {Best(R, TopK) : R \in OncePerText(UNION {f[n] : n \in names})} :
                 f \in found}

-----------------------------------------------------------------------------
(* Properties.                                                                *)

(* Every variable has its type.                                               *)
IndexTypeOK ==
    /\ job \in [Docs -> {NoJob} \cup [at : {"embed"}, on : Interpreters, batch : Nat,
                                      vectors : Seq(Nat)]]
    /\ points \subseteq [id : Interpreters \X {NameOf[d] : d \in Docs} \X Nat,
                         doc : Docs, chunk : Nat, vector : Nat]
    /\ indexed \in [Docs -> {S \in SUBSET Interpreters : IsFiniteSet(S)}]

(* A document whose filename no other document has, in any workspace, keeps   *)
(* all its chunks in the index, each under its own vector, whatever else is   *)
(* indexed, fails or is passed over (the len check of _embed_voyage, and the  *)
(* ids).                                                                      *)
OwnName(d) == \A e \in Docs \ {d} : NameOf[e] # NameOf[d]
IndexedIsFound ==
    \A d \in Docs :
        OwnName(d) /\ indexed[d] # {} =>
            {p.chunk : p \in {q \in points : q.doc = d /\ q.vector = q.chunk}} = 1..Chunks[d]

(* A retry or a reprocessing adds no copy of a chunk unless it runs in an     *)
(* interpreter that had not indexed the document before.                      *)
CopiesBounded ==
    \A d \in Docs : \A i \in 1..Chunks[d] :
        Cardinality({p \in points : p.doc = d /\ p.chunk = i}) <= Cardinality(indexed[d])

-----------------------------------------------------------------------------
(* Strengthening of IndexedIsFound and CopiesBounded.                         *)

(* A run has no more vectors than it has sent texts; if it has as many, the   *)
(* vectors are in the order of the texts.                                     *)
VectorsInOrder ==
    \A d \in Docs : job[d] # NoJob =>
        /\ job[d].batch <= Chunks[d] + 1
        /\ Len(job[d].vectors) < job[d].batch
        /\ Len(job[d].vectors) = job[d].batch - 1 =>
            \A i \in 1..Len(job[d].vectors) : job[d].vectors[i] = i

(* A point is a chunk under its own vector, and the id, which no other point  *)
(* has, tells an interpreter in which the document was indexed.               *)
PointsAreChunks ==
    /\ \A p \in points :
        /\ p.chunk \in 1..Chunks[p.doc] /\ p.vector = p.chunk
        /\ \E s \in indexed[p.doc] : p.id = PointId(p.doc, s, p.chunk)
    /\ \A p, q \in points : p.id = q.id => p = q

(* Of a document that was indexed and shares its name with none no chunk      *)
(* is missing.                                                                *)
NoChunkMissing ==
    \A d \in Docs : OwnName(d) /\ indexed[d] # {} =>
        \A i \in 1..Chunks[d] : \E p \in points : p.doc = d /\ p.chunk = i

IndexInv == VectorsInOrder /\ PointsAreChunks /\ NoChunkMissing
=============================================================================
