------------------------------ MODULE Knowledge -------------------------------
(***************************************************************************)
(* The API's side of an instance directory: Instance loads the manifest    *)
(* and the index that the knowledge tools leave there, once, when the      *)
(* process starts, and Knowledge ranks the documents for a query.          *)
(*                                                                         *)
(* The directory and the commands that change it are KnowledgeIndex; they  *)
(* know nothing of an API that reads in between. The search engine is      *)
(* external: it finds any documents, with any scores, in any order.        *)
(***************************************************************************)
EXTENDS KnowledgeIndex, SequencesExt

CONSTANTS
  DisplayName, \* the field of the manifest that the API needs
  Scores,      \* what the search engine may think of a document
  TopK         \* bound on the number of documents that are asked for

ASSUME RetrievalAssumption ==
  DisplayName \in Fields /\ Scores \subseteq Int /\ TopK \in Nat

(* _load_manifest and display_name: a manifest is there and has a name.    *)
ManifestLoads == manifest # None /\ manifest[DisplayName] \notin {"missing", "blank"}

(* _load_records: an index is there.                                       *)
RecordsLoad == index # None

(* _load_documents: every record has an id, a subject and a body and no    *)
(* field besides but a url, no text is blank and no id occurs twice.       *)
DocumentsLoad(records) ==
  /\ \A r \in records :
       /\ {"id", "subject", "body"} \subseteq DOMAIN r
       /\ DOMAIN r \subseteq {"id", "subject", "body", "url"}
       /\ r.id # None /\ r.subject # Blank /\ r.body # "blank"
  /\ \A r, q \in records : r.id = q.id => r = q

Servable == ManifestLoads /\ RecordsLoad /\ DocumentsLoad(index)

------------------------------------------------------------------------------
(* Retrieval over documents, a sequence in the order of the file.          *)

\* What the engine finds: a score for some of the documents, by their ids.
Findings(documents) ==
  UNION {[found -> Scores] : found \in SUBSET {documents[i].id : i \in DOMAIN documents}}

\* The hits that report a finding, in some order.
Hits(finding) == SetToSeqs({[id |-> id, score |-> finding[id]] : id \in DOMAIN finding})

\* _documents_by_id and _document_order.
Order(documents, id) == CHOOSE i \in DOMAIN documents : documents[i].id = id
ById(documents, id)  == documents[Order(documents, id)]

\* Fault: the hits are sorted by their scores only.
Precedes_ByScore(documents, a, b) == a.score > b.score

(* The sort key (-score, _document_order).                                 *)
Precedes(documents, a, b) ==
  \/ a.score > b.score
  \/ a.score = b.score /\ Order(documents, a.id) < Order(documents, b.id)

(* ranked.sort: no hit comes after one that it precedes.                   *)
Ranked(documents, hits) ==
  LET order == CHOOSE p \in Bijection(DOMAIN hits, DOMAIN hits) :
                 \A i, j \in DOMAIN hits :
                   i < j => ~Precedes(documents, hits[p[j]], hits[p[i]])
  IN  [i \in DOMAIN hits |-> hits[order[i]]]

(* retrieve(query, top_k=k).                                               *)
Retrieve(documents, blank, hits, k) ==
  IF blank \/ documents = <<>> THEN <<>>
  ELSE LET ranked == Ranked(documents, hits)
       IN  [i \in 1 .. (IF k < Len(ranked) THEN k ELSE Len(ranked)) |->
              ById(documents, ranked[i].id)]

------------------------------------------------------------------------------
(***************************************************************************)
(* The tools and the API agree on what an instance is: when an init or an  *)
(* import reports success the API can load the directory, and from then on *)
(* no command, finished, killed or overlapping another, takes that away.   *)
(* So the API may read the two files at any two moments.                   *)
(***************************************************************************)
ServableForGood ==
  [][/\ Servable => Servable'
     /\ \A s \in Shells :
          job[s].command \in {"init", "import"} /\ Running(s) /\ job'[s].at = "ok"
            => Servable']_vars

(***************************************************************************)
(* Retrieval depends on what the engine finds and not on the order of its  *)
(* hits: it answers the k best documents, by score and then by their     *)
(* place in the file, best first, and no other document is better.  The    *)
(* index is all that it depends on, so it is enough to look between        *)
(* commands.                                                               *)
(***************************************************************************)
Better(documents, finding, d, e) ==
  \/ finding[d.id] > finding[e.id]
  \/ finding[d.id] = finding[e.id] /\ \E i, j \in DOMAIN documents :
       i < j /\ documents[i] = d /\ documents[j] = e

RetrievalRanked ==
  Servable /\ (\A s \in Shells : ~Running(s)) =>
    \A documents \in SetToSeqs(index) : \A finding \in Findings(documents), k \in 1 .. TopK :
      \A hits \in Hits(finding) :
        LET answer == Retrieve(documents, FALSE, hits, k)
            found  == {ById(documents, id) : id \in DOMAIN finding}
            taken  == {answer[i] : i \in DOMAIN answer}
        IN  /\ taken \subseteq found
            /\ Len(answer) = k \/ taken = found
            /\ \A i, j \in DOMAIN answer :
                 i < j => Better(documents, finding, answer[i], answer[j])
            /\ \A d \in taken, e \in found \ taken : Better(documents, finding, d, e)
==============================================================================
