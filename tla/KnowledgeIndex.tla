---------------------------- MODULE KnowledgeIndex ----------------------------
(***************************************************************************)
(* The instance directory that tools/knowledge-cli works on: the manifest, *)
(* the three files of the imported resume, and index/records.json, the     *)
(* live retrieval index.                                                   *)
(*                                                                         *)
(* Commands are processes of their own, started by the owner or by the     *)
(* initialization skill. A command reads the files it depends on, decides, *)
(* and replaces files one by one; atomic_write renames a finished          *)
(* temporary file, so a file is seen old or new and never in between.  A   *)
(* command can end with an error or be killed before any of its writes,    *)
(* and no lock keeps two of them apart.  Texts are left out: a resume, a   *)
(* subject and a URL are values, of a record's body it only matters        *)
(* whether it is blank, and the order of a file does not matter at all.    *)
(***************************************************************************)
EXTENDS Naturals

CONSTANTS
  Shells,      \* where commands run, one at a time in each
  Resumes,     \* resume files, told apart by their metadata
  Subjects,    \* subjects as they are spelled, stripped
  Blank,       \* the subject of which stripping leaves nothing
  Casefold,    \* the spelling that decides whether two subjects are equal
  Urls,        \* URLs as they are spelled
  NormalUrl,   \* normalize_url
  CustomIds,   \* record ids that owners make up
  Fields,      \* fields of the manifest
  None,        \* no file, no URL, no id
  MaxDrafts    \* bound on the records of one proposal

ASSUME KnowledgeAssumption ==
  /\ Blank \in Subjects
  /\ Casefold \in [Subjects -> Subjects]
  /\ \A s \in Subjects : Casefold[Casefold[s]] = Casefold[s]
  /\ NormalUrl \in [Urls -> Urls]
  /\ \A u \in Urls : NormalUrl[NormalUrl[u]] = NormalUrl[u]
  /\ None \notin Resumes \union Subjects \union Urls \union CustomIds
  /\ CustomIds \intersect Subjects = {}
  /\ MaxDrafts \in Nat \ {0}

VARIABLES
  manifest,    \* instance.yaml: None, or what each field holds
  index,       \* records.json: None, or its records
  original,    \* inputs/resume/original
  normalized,  \* inputs/resume/normalized.md
  metadata,    \* inputs/resume/metadata.json
  job,         \* the command of each shell
  torn         \* observer: imports overlapped or stopped between their writes

resumeFiles == <<original, normalized, metadata>>
vars == <<manifest, index, resumeFiles, job, torn>>

\* stable_id hashes the casefolded subject: the hash stands for the subject.
StableId(subject) == Casefold[subject]

Ids     == {StableId(s) : s \in Subjects \ {Blank}} \union CustomIds
Bodies  == {"text", "blank"}
Record  == [id : Ids, subject : Subjects, body : Bodies, url : Urls \union {None}]
Draft   == [id : Ids \union {None}, subject : Subjects, body : Bodies,
            url : Urls \union {None}]

\* What a field of the manifest holds: nothing, something that the schema
\* rejects, the default that init gives it, or what the owner has written.
Value == {"missing", "blank", "default", "curated"}

\* What command a shell runs and where it stands; what it will write next,
\* and whether it has been alone so far.
Idle == [command |-> "none", at |-> "idle", resume |-> None, next |-> None,
         alone |-> TRUE]

Running(s) == job[s].at \notin {"idle", "ok"}

\* The command has ended and reported success; after a failure, or before its
\* first command, a shell is idle.
Done == [Idle EXCEPT !.at = "ok"]

Init ==
  /\ manifest \in {None} \union [Fields -> Value]
  /\ index = None
  /\ original = None
  /\ normalized = None
  /\ metadata = None
  /\ job = [s \in Shells |-> Idle]
  /\ torn = FALSE

------------------------------------------------------------------------------
(* Records.                                                                *)

\* normalize_url, of a record that may have no URL.
Normalized(url) == IF url = None THEN None ELSE NormalUrl[url]

\* No two records of an index may agree in one of these.
Clash(r, q) ==
  \/ r.id = q.id
  \/ Casefold[r.subject] = Casefold[q.subject]
  \/ r.url # None /\ q.url # None /\ Normalized(r.url) = Normalized(q.url)

\* _validate_records.
ValidRecords(records) == \A r, q \in records : Clash(r, q) => r = q

\* Fault: white space counts as text.
Filled_Unstripped(draft) == TRUE

\* RetrievalRecord rejects a stripped text that is empty.
Filled(draft) == draft.subject # Blank /\ draft.body # "blank"

\* The record that _materialize makes of a draft.
Materialized(draft) ==
  [id |-> IF draft.id # None THEN draft.id ELSE StableId(draft.subject),
   subject |-> draft.subject,
   body |-> draft.body,
   url |-> Normalized(draft.url)]

\* A proposal is a list of drafts; these are its records.
Drafts  == {d \in Draft : Filled(d)}
Lists   == UNION {[1 .. n -> Drafts] : n \in 1 .. MaxDrafts}
Records(list) == {Materialized(list[i]) : i \in DOMAIN list}

\* The proposals that _materialize does not reject.
Proposals ==
  {list \in Lists :
     /\ \A i, j \in DOMAIN list :
          Materialized(list[i]).id = Materialized(list[j]).id => i = j
     /\ ValidRecords(Records(list))}

------------------------------------------------------------------------------
(* A command begins and ends.                                              *)

Others(s) == \E o \in Shells \ {s} : Running(o)

\* Start a command; whoever runs beside it is no longer alone either.
Start(s, started) ==
  job' = [o \in Shells |->
            IF o = s THEN [started EXCEPT !.alone = ~Others(s)]
            ELSE IF Running(o) THEN [job[o] EXCEPT !.alone = FALSE]
            ELSE job[o]]

Continue(s, at) ==
  job' = [job EXCEPT ![s] = IF at = "ok" THEN Done ELSE [@ EXCEPT !.at = at]]

\* The first and the last write of an import: a stop in between leaves files
\* of two resumes, and so may two imports at once.
BetweenWrites(s) == job[s].at \in {"normalized", "metadata"}

\* The command raises, or its process is killed.
Fail(s) ==
  /\ Running(s)
  /\ job' = [job EXCEPT ![s] = Idle]
  /\ torn' = (torn \/ BetweenWrites(s))
  /\ UNCHANGED <<manifest, index, resumeFiles>>

------------------------------------------------------------------------------
(* init, and import-resume, which begins with it.                          *)

BeginInit(s) ==
  /\ ~Running(s)
  /\ Start(s, [Idle EXCEPT !.command = "init", !.at = "manifest"])
  /\ UNCHANGED <<manifest, index, resumeFiles, torn>>

BeginImport(s) ==
  /\ ~Running(s)
  /\ \E r \in Resumes :
       Start(s, [Idle EXCEPT !.command = "import", !.at = "manifest", !.resume = r])
  /\ UNCHANGED <<manifest, index, resumeFiles, torn>>

\* _ensure_manifest: the defaults, or what is there and defaults for the rest;
\* what the schema rejects is left as it is, and the command fails.
Backfilled ==
  [f \in Fields |-> IF manifest = None \/ manifest[f] = "missing" THEN "default"
                    ELSE manifest[f]]

ReadManifest(s) ==
  /\ job[s].at = "manifest"
  /\ \A f \in Fields : Backfilled[f] # "blank"
  /\ IF manifest = Backfilled
     THEN Continue(s, "index")
     ELSE job' = [job EXCEPT ![s].at = "write manifest", ![s].next = Backfilled]
  /\ UNCHANGED <<manifest, index, resumeFiles, torn>>

WriteManifest(s) ==
  /\ job[s].at = "write manifest"
  /\ manifest' = job[s].next
  /\ job' = [job EXCEPT ![s].at = "index", ![s].next = None]
  /\ UNCHANGED <<index, resumeFiles, torn>>

\* Where initialize returns to: the end of init, or the rest of the import.
AfterInit(s) == IF job[s].command = "init" THEN "ok" ELSE "compare"

\* Fault: init starts with an empty index.
CheckIndex_Always(s) ==
  /\ job[s].at = "index"
  /\ Continue(s, "create index")
  /\ UNCHANGED <<manifest, index, resumeFiles, torn>>

CheckIndex(s) ==
  /\ job[s].at = "index"
  /\ Continue(s, IF index = None THEN "create index" ELSE AfterInit(s))
  /\ UNCHANGED <<manifest, index, resumeFiles, torn>>

CreateIndex(s) ==
  /\ job[s].at = "create index"
  /\ index' = {}
  /\ Continue(s, AfterInit(s))
  /\ UNCHANGED <<manifest, resumeFiles, torn>>

\* Fault: an import returns early whenever some resume has been imported.
Compare_Exists(s) ==
  /\ job[s].at = "compare"
  /\ Continue(s, IF metadata # None THEN "ok" ELSE "original")
  /\ UNCHANGED <<manifest, index, resumeFiles, torn>>

\* The resume is read; if the metadata are those of the last import, its
\* files are taken to be in place.
Compare(s) ==
  /\ job[s].at = "compare"
  /\ Continue(s, IF metadata = job[s].resume THEN "ok" ELSE "original")
  /\ UNCHANGED <<manifest, index, resumeFiles, torn>>

WriteOriginal(s) ==
  /\ job[s].at = "original"
  /\ original' = job[s].resume
  /\ Continue(s, "normalized")
  /\ torn' = (torn \/ ~job[s].alone)
  /\ UNCHANGED <<manifest, index, normalized, metadata>>

WriteNormalized(s) ==
  /\ job[s].at = "normalized"
  /\ normalized' = job[s].resume
  /\ Continue(s, "metadata")
  /\ UNCHANGED <<manifest, index, original, metadata, torn>>

WriteMetadata(s) ==
  /\ job[s].at = "metadata"
  /\ metadata' = job[s].resume
  /\ Continue(s, "ok")
  /\ torn' = ~job[s].alone
  /\ UNCHANGED <<manifest, index, original, normalized>>

------------------------------------------------------------------------------
(* Commands that change the index: read, decide, write.                    *)

Decide(s, command, records) ==
  Start(s, [Idle EXCEPT !.command = command, !.at = "write index", !.next = records])

\* records(): the file must exist and its records be valid.
Readable == index # None /\ ValidRecords(index)

ReplaceIndex(s) ==
  /\ ~Running(s)
  /\ \E p \in Proposals : Decide(s, "replace", Records(p))
  /\ UNCHANGED <<manifest, index, resumeFiles, torn>>

Merged(updates) ==
  updates \union {r \in index : \A u \in updates : u.id # r.id}

\* Fault: the merged records are not validated again.
UpsertIndex_Unvalidated(s) ==
  /\ ~Running(s)
  /\ Readable
  /\ \E p \in Proposals :
       Decide(s, "upsert", Merged(Records(p)))
  /\ UNCHANGED <<manifest, index, resumeFiles, torn>>

UpsertIndex(s) ==
  /\ ~Running(s)
  /\ Readable
  /\ \E p \in Proposals :
       /\ ValidRecords(Merged(Records(p)))
       /\ Decide(s, "upsert", Merged(Records(p)))
  /\ UNCHANGED <<manifest, index, resumeFiles, torn>>

RemoveRecords(s) ==
  /\ ~Running(s)
  /\ Readable
  /\ \E ids \in SUBSET {r.id : r \in index} \ {{}} :
       Decide(s, "remove", {r \in index : r.id \notin ids})
  /\ UNCHANGED <<manifest, index, resumeFiles, torn>>

WriteIndex(s) ==
  /\ job[s].at = "write index"
  /\ index' = job[s].next
  /\ Continue(s, "ok")
  /\ UNCHANGED <<manifest, resumeFiles, torn>>

------------------------------------------------------------------------------
Command(s) ==
  \/ BeginInit(s) \/ BeginImport(s)
  \/ ReadManifest(s) \/ WriteManifest(s) \/ CheckIndex(s) \/ CreateIndex(s)
  \/ Compare(s) \/ WriteOriginal(s) \/ WriteNormalized(s) \/ WriteMetadata(s)
  \/ ReplaceIndex(s) \/ UpsertIndex(s) \/ RemoveRecords(s) \/ WriteIndex(s)
  \/ Fail(s)

\* The owner, or the skill, writes fields of an instance that exists, as the
\* schema has them.
Curate ==
  /\ manifest # None
  /\ \E f \in Fields : manifest' = [manifest EXCEPT ![f] = "curated"]
  /\ job' = [s \in Shells |-> IF Running(s) THEN [job[s] EXCEPT !.alone = FALSE]
                              ELSE job[s]]
  /\ UNCHANGED <<index, resumeFiles, torn>>

Next == Curate \/ \E s \in Shells : Command(s)

Spec == Init /\ [][Next]_vars

------------------------------------------------------------------------------
(* What the files promise.                                                 *)

Positions ==
  {"idle", "ok", "manifest", "write manifest", "index", "create index", "compare",
   "original", "normalized", "metadata", "write index"}

TypeOK ==
  /\ manifest \in {None} \union [Fields -> Value]
  /\ index = None \/ index \subseteq Record
  /\ original \in {None} \union Resumes
  /\ normalized \in {None} \union Resumes
  /\ metadata \in {None} \union Resumes
  /\ \A s \in Shells :
       /\ job[s].at \in Positions
       /\ job[s].at \notin {"idle", "ok", "write index"} => job[s].command \in {"init", "import"}
       /\ \/ job[s].command = "import"
          \/ job[s].at \in {"compare", "original", "normalized", "metadata"}
          => job[s].resume \in Resumes
       /\ job[s].at = "write index" => job[s].next \subseteq Record
       /\ job[s].at = "write manifest" => job[s].next \in [Fields -> {"default", "curated"}]
  /\ torn \in BOOLEAN

\* The live index, if there is one, satisfies the contract at every moment:
\* no order of commands, killed ones and two at once included, leaves equal
\* ids, equal subjects or equal URLs in it (service.py:251).
IndexValid == index # None => ValidRecords(index)

\* Alone: the command has had the directory to itself.
Works(s, command) == job[s].command \in command /\ Running(s) /\ job[s].alone

\* An init or an import that has the directory to itself keeps the index and
\* the fields that are there ("Importing or replacing a resume never clears
\* an existing index", cli-contract.md:77; service.py:41-47 and 150-188).
InitKeepsWhatIsThere ==
  [][\A s \in Shells :
       Works(s, {"init", "import"}) /\ job'[s] # job[s] /\ job'[s].alone =>
         /\ index # None => index' = index
         /\ manifest # None =>
              \A f \in Fields : manifest[f] # "missing" => manifest'[f] = manifest[f]]_vars

\* An import that has the directory to itself and reports success leaves the
\* files of its resume, also when it returns early because the metadata match,
\* unless an earlier import was stopped between its writes (service.py:83-99).
ImportHonest ==
  [][\A s \in Shells :
       Works(s, {"import"}) /\ ~torn /\ job'[s].at = "ok" =>
         original' = job[s].resume /\ normalized' = job[s].resume]_vars
==============================================================================
