--------------------------- MODULE MCKnowledgeIndex ---------------------------
(* Knowledge over an index with a few subjects, one in two spellings, and a *)
(* page whose URL comes with and without tracking parameters.              *)
EXTENDS Knowledge, TLC

CONSTANTS career, beacon, Beacon, blank, page, page_utm

MCCasefold  == career :> career @@ beacon :> beacon @@ Beacon :> beacon @@ blank :> blank
MCNormalUrl == page :> page @@ page_utm :> page

Interchangeable == Permutations(Shells) \union Permutations(Resumes)
==============================================================================
