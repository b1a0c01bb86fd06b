------------------------------ MODULE Knowledge ------------------------------
(***************************************************************************)
(* The knowledge corpus: the ingestion script that chunks a checkout of    *)
(* the documents, embeds the chunks in batches and upserts them in one     *)
(* transaction, and the queries that search what was ingested and fall     *)
(* back to the corpus bundled with the API.                                *)
(*                                                                         *)
(* A text is its set of words and a vector is the text it embeds; how near *)
(* two vectors are is how many words they share.  A chunk's id is          *)
(* 10 * document + place (docId#place).  The chunks of a removed or        *)
(* shortened document stay in the index: the upsert deletes nothing.       *)
(***************************************************************************)
EXTENDS Naturals, FiniteSets, SequencesExt

CONSTANTS Checkouts,    \* versions of the documents: [doc, texts] in file order
          Bundled,      \* the version of corpus.generated.ts
          Ingestions,   \* runs of the script that can overlap
          Questions,    \* queries, as sets of words
          Stopwords,    \* SWEDISH_QUERY_STOPWORDS
          EmbedBatchSize, RetrievalTopK,
          MinSimilarity \* ADVISOR_VECTOR_MIN_SIMILARITY, in shared words

ASSUME KnowledgeConstants ==
    /\ Bundled \in DOMAIN Checkouts
    /\ EmbedBatchSize \in Nat \ {0} /\ RetrievalTopK \in Nat \ {0} /\ MinSimilarity \in Nat

VARIABLES index,     \* knowledge.documents: chunk id -> text and embedding
          ingestion, \* the running scripts
          landed,    \* the version the last committed upsert wrote, 0 for none
          question   \* the query being answered

knowledgeVars == <<index, ingestion, landed, question>>

NotIngesting == [phase |-> "idle", version |-> 0, start |-> 0, vectors |-> <<>>]
NotAsked == [stage |-> "none", words |-> {}, via |-> "none", mode |-> "none", passages |-> {}]
Channels == {"chat", "route"}

-----------------------------------------------------------------------------
(* Chunking and ranking.                                                   *)

ChunkDoc(document) ==
    [n \in DOMAIN document.texts |-> [id |-> 10 * document.doc + n, text |-> document.texts[n]]]

CorpusChunks(version) == FlattenSeq([d \in DOMAIN Checkouts[version] |-> ChunkDoc(Checkouts[version][d])])

\* docId#place occurs once in a version of the documents.
ASSUME ChunkIdsAreUnique ==
    \A v \in DOMAIN Checkouts :
        /\ CorpusChunks(v) \in Seq(ToSet(CorpusChunks(v)))
        /\ \A m, n \in DOMAIN CorpusChunks(v) : CorpusChunks(v)[m].id = CorpusChunks(v)[n].id => m = n

Shared(a, b) == Cardinality(a \cap b)

\* The topK of a corpus by shared words, ties by id.
Ranked(corpus, words) ==
    LET Ahead(other, id) ==
            \/ Shared(corpus[other], words) > Shared(corpus[id], words)
            \/ Shared(corpus[other], words) = Shared(corpus[id], words) /\ other < id
    IN  {id \in DOMAIN corpus : Cardinality({o \in DOMAIN corpus : Ahead(o, id)}) < RetrievalTopK}

HasRetrievableContent(words) == words \ Stopwords # {}

\* BM25 over the bundled corpus: a chunk with no term of the query is not returned.
RetrieveKnowledge(words) ==
    LET chunks == CorpusChunks(Bundled)
        matching == {c \in ToSet(chunks) : Shared(c.text, words \ Stopwords) > 0}
        corpus == [id \in {c.id : c \in matching} |-> (CHOOSE c \in matching : c.id = id).text]
    IN  Ranked(corpus, words \ Stopwords)

-----------------------------------------------------------------------------
(* Ingestion.                                                              *)

StartIngestion(i) ==
    /\ ingestion[i].phase = "idle"
    /\ \E v \in DOMAIN Checkouts :
           ingestion' = [ingestion EXCEPT ![i] = [NotIngesting EXCEPT !.phase = "embedding", !.version = v]]
    /\ UNCHANGED <<index, landed, question>>

AtMost(chunks, last) == IF last < Len(chunks) THEN last ELSE Len(chunks)

Batch(chunks, start) == SubSeq(chunks, start + 1, AtMost(chunks, start + EmbedBatchSize))

EmbedChunks(i) ==
    LET script == ingestion[i]
        chunks == CorpusChunks(script.version)
        batch == Batch(chunks, script.start)
    IN  /\ script.phase = "embedding"
        /\ script.start < Len(chunks)
        /\ ingestion' =
             [ingestion EXCEPT ![i] =
                 [phase |-> "embedding", version |-> script.version,
                  start |-> script.start + EmbedBatchSize,
                  vectors |-> script.vectors \o [n \in DOMAIN batch |-> batch[n].text]]]
        /\ UNCHANGED <<index, landed, question>>

\* The first rows of an ingestion.
Rows(i, upTo) ==
    LET chunks == CorpusChunks(ingestion[i].version)
        written == 1..upTo
        At(id) == CHOOSE n \in written : chunks[n].id = id
    IN  [id \in {chunks[n].id : n \in written} |->
            [text |-> chunks[At(id)].text, vector |-> ingestion[i].vectors[At(id)]]]

UpsertedIndex(rows) ==
    [id \in DOMAIN index \cup DOMAIN rows |-> IF id \in DOMAIN rows THEN rows[id] ELSE index[id]]

\* upsertKnowledgeDocuments without its transaction: each row stays when a later one fails.
UpsertRowByRow(i) ==
    LET all == Len(CorpusChunks(ingestion[i].version))
    IN  /\ ingestion[i].phase = "embedding" /\ ingestion[i].start >= all
        /\ \E n \in 0..all :
               /\ index' = UpsertedIndex(Rows(i, n))
               /\ landed' = IF n = all THEN ingestion[i].version ELSE landed
        /\ ingestion' = [ingestion EXCEPT ![i] = NotIngesting]
        /\ UNCHANGED question

\* Two ingestions write their common rows in the same order, so the second waits for the
\* first's commit and overwrites them all: an upsert takes effect when it commits.
UpsertKnowledgeDocuments(i) ==
    LET all == Len(CorpusChunks(ingestion[i].version))
    IN  /\ ingestion[i].phase = "embedding" /\ ingestion[i].start >= all
        /\ index' = UpsertedIndex(Rows(i, all))
        /\ landed' = ingestion[i].version
        /\ ingestion' = [ingestion EXCEPT ![i] = NotIngesting]
        /\ UNCHANGED question

\* The embedding call or the transaction fails, or the script is interrupted.
FailIngestion(i) ==
    /\ ingestion[i].phase = "embedding"
    /\ ingestion' = [ingestion EXCEPT ![i] = NotIngesting]
    /\ UNCHANGED <<index, landed, question>>

-----------------------------------------------------------------------------
(* Queries.                                                                *)

GiveAnswer(mode, passages) ==
    question' = [question EXCEPT !.stage = "answered", !.mode = mode, !.passages = passages]

\* The advisor asks nothing for smalltalk; the query route has no such gate.
AskKnowledge(words, via) ==
    /\ question.stage \in {"none", "answered"}
    /\ question' = IF via = "chat" /\ ~HasRetrievableContent(words)
                   THEN [NotAsked EXCEPT !.stage = "answered", !.words = words, !.via = via, !.mode = "keyword"]
                   ELSE [NotAsked EXCEPT !.stage = "embedding", !.words = words, !.via = via]
    /\ UNCHANGED <<index, ingestion, landed>>

\* Vector mode is off, or the embedding or the search fails.
FallBack ==
    /\ question.stage \in {"embedding", "searching"}
    /\ GiveAnswer("keyword", RetrieveKnowledge(question.words))
    /\ UNCHANGED <<index, ingestion, landed>>

EmbedQuery ==
    /\ question.stage = "embedding"
    /\ question' = [question EXCEPT !.stage = "searching"]
    /\ UNCHANGED <<index, ingestion, landed>>

\* selectChatPassages drops neighbours below the similarity floor.
SelectPassages(found) ==
    IF question.via = "route" THEN found
    ELSE {id \in found : Shared(index[id].vector, question.words) >= MinSimilarity}

Nearest == Ranked([id \in DOMAIN index |-> index[id].vector], question.words)

SearchIndex ==
    /\ question.stage = "searching"
    /\ IF Nearest = {} THEN GiveAnswer("keyword", RetrieveKnowledge(question.words))
                       ELSE GiveAnswer("vector", SelectPassages(Nearest))
    /\ UNCHANGED <<index, ingestion, landed>>

-----------------------------------------------------------------------------
KnowledgeInit ==
    /\ index = [id \in {} |-> 0]
    /\ ingestion = [i \in Ingestions |-> NotIngesting]
    /\ landed = 0
    /\ question = NotAsked

KnowledgeNext ==
    \/ \E i \in Ingestions :
           StartIngestion(i) \/ EmbedChunks(i) \/ UpsertKnowledgeDocuments(i) \/ FailIngestion(i)
    \/ \E words \in Questions, via \in Channels : AskKnowledge(words, via)
    \/ EmbedQuery \/ SearchIndex \/ FallBack

KnowledgeSpec == KnowledgeInit /\ [][KnowledgeNext]_knowledgeVars

-----------------------------------------------------------------------------
(* The chunks of the corpus that was ingested last are all in the index    *)
(* with that version's texts, whatever other ingestions failed half-way or *)
(* overlapped: "a failed ingest never leaves a half-written corpus".       *)
CorpusIsWhole ==
    landed # 0 =>
        \A c \in ToSet(CorpusChunks(landed)) : c.id \in DOMAIN index /\ index[c.id].text = c.text

(* The embedding a chunk is found by is the embedding of its own text: the *)
(* batches are put together again in the order they were cut.              *)
VectorsAreOfTheirText == \A id \in DOMAIN index : index[id].vector = index[id].text

(* A question to the query route that the bundled corpus can answer is     *)
(* answered with at least one passage, whatever was ingested and whatever  *)
(* fails: vector mode never answers with less than keyword mode would.     *)
AnsweredWhenKnown ==
    question.stage = "answered" /\ question.via = "route" /\ RetrieveKnowledge(question.words) # {} =>
        question.passages # {}

\* The index holds one corpus whole with the vectors of its texts, and a question
\* that some corpus can answer is answered.
CorpusAnswers ==
  /\ CorpusIsWhole
  /\ VectorsAreOfTheirText
  /\ AnsweredWhenKnown
=============================================================================
