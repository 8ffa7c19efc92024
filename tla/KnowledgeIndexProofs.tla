------------------------- MODULE KnowledgeIndexProofs -------------------------
(***************************************************************************)
(* The contract of the live index, for any number of shells, resumes,      *)
(* subjects, URLs and proposals of any length.                             *)
(*                                                                         *)
(* A command validates what it is about to write, keeps it in memory and   *)
(* writes it later, while others may write too.  The index is valid        *)
(* because everything that any command holds ready is valid by itself.     *)
(***************************************************************************)
EXTENDS Knowledge, FiniteSetTheorems, TLAPS

Commands == {"none", "init", "import", "replace", "upsert", "remove"}

\* What a command may hold ready: nothing, an index, or a manifest.
Ready == {None} \union (SUBSET Record) \union [Fields -> {"default", "curated"}]

Job == [command : Commands, at : Positions, resume : {None} \union Resumes,
        next : Ready, alone : BOOLEAN]

\* Stripped texts of which nothing is left do not get into an index.
AllFilled(records) == \A r \in records : Filled(r)

\* A command knows its resume when it needs it, and only init writes
\* manifests; what it holds ready for the index is valid by itself.
JobOK(j) ==
  /\ j \in Job
  /\ j.at \notin {"idle", "ok", "write index"} => j.command \in {"init", "import"}
  /\ \/ j.command = "import"
     \/ j.at \in {"compare", "original", "normalized", "metadata"}
     => j.resume \in Resumes
  /\ j.at = "write index" =>
       /\ j.command \in {"replace", "upsert", "remove"}
       /\ j.next \subseteq Record /\ ValidRecords(j.next) /\ AllFilled(j.next)
  /\ j.at = "write manifest" => j.next \in [Fields -> {"default", "curated"}]

FilesOK ==
  /\ manifest \in {None} \union [Fields -> Value]
  /\ index = None \/ (index \subseteq Record /\ AllFilled(index))
  /\ original \in {None} \union Resumes
  /\ normalized \in {None} \union Resumes
  /\ metadata \in {None} \union Resumes
  /\ torn \in BOOLEAN

JobsOK == DOMAIN job = Shells /\ job = [s \in Shells |-> job[s]] /\ \A s \in Shells : JobOK(job[s])

KnowledgeInv == FilesOK /\ IndexValid /\ JobsOK

------------------------------------------------------------------------------
LEMMA IdleJobs == JobOK(Idle) /\ JobOK(Done)
<1>1. JobOK(Idle)
  BY DEF Idle, JobOK, Job, Commands, Ready, Positions
<1>2. Idle.command = "none"
  BY DEF Idle
<1>3. JobOK(Done)
  BY <1>1, <1>2 DEF Done, JobOK, Job, Positions
<1> QED
  BY <1>1, <1>3

(* What _materialize makes of a proposal is a set of valid records.        *)
LEMMA MaterializedRecords ==
  ASSUME NEW p \in Proposals
  PROVE  /\ Records(p) \subseteq Record
         /\ ValidRecords(Records(p)) /\ AllFilled(Records(p))
<1>1. PICK n \in 1 .. MaxDrafts : p \in [1 .. n -> Drafts]
  BY DEF Proposals, Lists
<1>2. \A d \in Drafts : Materialized(d) \in Record /\ Filled(Materialized(d))
  <2> TAKE d \in Drafts
  <2> DEFINE id  == Materialized(d).id
             url == Materialized(d).url
  <2>1. /\ d.id \in Ids \union {None} /\ d.subject \in Subjects /\ d.body \in Bodies
        /\ d.url \in Urls \union {None} /\ d.subject # Blank /\ d.body # "blank"
    BY DEF Drafts, Draft, Filled
  <2>2. id \in Ids
    BY <2>1 DEF Materialized, Ids
  <2>3. url \in Urls \union {None}
    BY <2>1, KnowledgeAssumption DEF Materialized, Normalized
  <2>4. Materialized(d) = [id |-> id, subject |-> d.subject, body |-> d.body, url |-> url]
    BY DEF Materialized
  <2> HIDE DEF id, url
  <2> QED
    BY <2>1, <2>2, <2>3, <2>4 DEF Record, Filled
<1>3. Records(p) \subseteq Record /\ AllFilled(Records(p))
  BY <1>1, <1>2 DEF Records, AllFilled
<1>4. ValidRecords(Records(p))
  BY DEF Proposals
<1> QED
  BY <1>3, <1>4

LEMMA InvType == KnowledgeInv => TypeOK
  BY DEF KnowledgeInv, FilesOK, JobsOK, JobOK, Job, TypeOK

(* One job that is as it should be can take the place of another.          *)
LEMMA Replaced ==
  ASSUME JobsOK, NEW s \in Shells, NEW j, JobOK(j), job' = [job EXCEPT ![s] = j]
  PROVE  JobsOK'
  BY DEF JobsOK

(* Only whether it is alone changes in a job when another command starts.  *)
LEMMA Alone ==
  ASSUME NEW j, JobOK(j), NEW b \in BOOLEAN
  PROVE  JobOK([j EXCEPT !.alone = b])
  BY DEF JobOK, Job

LEMMA Started ==
  ASSUME JobsOK, NEW s \in Shells, NEW j, JobOK(j), Start(s, j)
  PROVE  JobsOK'
<1>1. ~Others(s) = TRUE \/ ~Others(s) = FALSE
  OBVIOUS
<1>2. \A o \in Shells : JobOK(IF o = s THEN [j EXCEPT !.alone = ~Others(s)]
                            ELSE IF Running(o) THEN [job[o] EXCEPT !.alone = FALSE]
                            ELSE job[o])
  BY <1>1, Alone DEF JobsOK
<1> QED
  BY <1>2 DEF JobsOK, Start

(* A step from one position of a command to the next.                      *)
LEMMA Continued ==
  ASSUME JobsOK, NEW s \in Shells, NEW at, Continue(s, at),
         \/ at = "ok"
         \/ /\ at \in {"index", "create index", "compare", "original", "normalized", "metadata"}
            /\ job[s].command \in {"init", "import"}
            /\ at \notin {"index", "create index"} => job[s].resume \in Resumes
  PROVE  JobsOK'
<1>1. CASE at = "ok"
  BY <1>1, IdleJobs, Replaced DEF Continue
<1>2. CASE at # "ok"
  <2> DEFINE j == job[s]
  <2>1. JobOK(j)
    BY DEF JobsOK
  <2> HIDE DEF j
  <2> DEFINE k == [j EXCEPT !.at = at]
  <2>2. k \in Job
    BY <1>2, <2>1 DEF JobOK, Job, Positions
  <2>3. k.at = at /\ k.command = j.command /\ k.resume = j.resume
    BY <2>1 DEF JobOK, Job
  <2>4. at \notin {"idle", "ok", "write index", "write manifest"} /\ k.command \in {"init", "import"}
    BY <1>2, <2>3 DEF j
  <2>5. (k.command = "import" \/ k.at \in {"compare", "original", "normalized", "metadata"})
          => k.resume \in Resumes
    BY <1>2, <2>1, <2>3 DEF JobOK, j
  <2> HIDE DEF k
  <2>6. JobOK(k)
    BY <2>2, <2>3, <2>4, <2>5 DEF JobOK
  <2> QED
    BY <1>2, <2>6, Replaced DEF Continue, j, k
<1> QED
  BY <1>1, <1>2

------------------------------------------------------------------------------
LEMMA InvInit == Init => KnowledgeInv
<1> SUFFICES ASSUME Init PROVE KnowledgeInv
  OBVIOUS
<1>1. FilesOK /\ IndexValid
  BY DEF Init, FilesOK, AllFilled, IndexValid
<1>2. JobsOK
  BY IdleJobs DEF Init, JobsOK
<1> QED
  BY <1>1, <1>2 DEF KnowledgeInv

\* Nothing but the jobs changes.
OnlyJobs == UNCHANGED <<manifest, index, resumeFiles, torn>>

LEMMA FilesStay ==
  ASSUME KnowledgeInv, OnlyJobs, JobsOK'
  PROVE  KnowledgeInv'
  BY DEF KnowledgeInv, FilesOK, IndexValid, ValidRecords, Clash, OnlyJobs, resumeFiles

Begins(s) ==
  BeginInit(s) \/ BeginImport(s) \/ ReplaceIndex(s) \/ UpsertIndex(s) \/ RemoveRecords(s)

\* The jobs that commands begin with.
Beginning == {j \in Job : JobOK(j) /\ j.at \in {"manifest", "write index"}}

(* A command begins with a job as it should be, and writes nothing yet.    *)
LEMMA BeginsStart ==
  ASSUME KnowledgeInv, NEW s \in Shells, Begins(s)
  PROVE  ~Running(s) /\ OnlyJobs /\ \E j \in Beginning : Start(s, j)
<1> USE DEF KnowledgeInv
<1>0. ~Running(s) /\ OnlyJobs
  BY DEF Begins, OnlyJobs, BeginInit, BeginImport, ReplaceIndex, UpsertIndex, RemoveRecords
<1>1. Idle \in Job /\ Idle.command = "none" /\ Idle.at = "idle"
  BY IdleJobs DEF JobOK, Idle
<1>2. CASE BeginInit(s)
  <2>1. [Idle EXCEPT !.command = "init", !.at = "manifest"] \in Beginning
    BY <1>1 DEF Beginning, JobOK, Job, Commands, Positions
  <2> QED
    BY <1>0, <1>2, <2>1 DEF BeginInit
<1>3. CASE BeginImport(s)
  <2>1. PICK r \in Resumes :
          Start(s, [Idle EXCEPT !.command = "import", !.at = "manifest", !.resume = r])
    BY <1>3 DEF BeginImport
  <2>2. [Idle EXCEPT !.command = "import", !.at = "manifest", !.resume = r] \in Beginning
    BY <1>1 DEF Beginning, JobOK, Job, Commands, Positions
  <2> QED
    BY <1>0, <2>1, <2>2
<1>4. ASSUME NEW command \in {"replace", "upsert", "remove"}, NEW records,
             records \subseteq Record, ValidRecords(records), AllFilled(records),
             Decide(s, command, records)
      PROVE  \E j \in Beginning : Start(s, j)
  <2> DEFINE j == [Idle EXCEPT !.command = command, !.at = "write index",
                               !.next = records]
  <2>1. j \in Job /\ j.at = "write index" /\ j.command = command /\ j.next = records
    BY <1>1, <1>4 DEF Job, Commands, Positions, Ready
  <2>2. j \in Beginning
    BY <1>4, <2>1 DEF Beginning, JobOK
  <2> QED
    BY <1>4, <2>2 DEF Decide
<1>5. CASE ReplaceIndex(s)
  <2>1. PICK p \in Proposals : Decide(s, "replace", Records(p))
    BY <1>5 DEF ReplaceIndex
  <2> QED
    BY <1>0, <1>4, <2>1, MaterializedRecords
<1>6. CASE UpsertIndex(s)
  <2>1. PICK p \in Proposals : /\ ValidRecords(Merged(Records(p)))
                               /\ Decide(s, "upsert", Merged(Records(p)))
    BY <1>6 DEF UpsertIndex
  <2>2. index # None
    BY <1>6 DEF UpsertIndex, Readable
  <2>3. Merged(Records(p)) \subseteq Record /\ AllFilled(Merged(Records(p)))
    BY <2>2, MaterializedRecords DEF FilesOK, Merged, AllFilled
  <2> QED
    BY <1>0, <1>4, <2>1, <2>3, MaterializedRecords
<1>7. CASE RemoveRecords(s)
  <2>1. PICK ids \in SUBSET {r.id : r \in index} :
          Decide(s, "remove", {r \in index : r.id \notin ids})
    BY <1>7 DEF RemoveRecords
  <2>2. index \subseteq Record /\ ValidRecords(index) /\ AllFilled(index)
    BY <1>7 DEF RemoveRecords, Readable, FilesOK
  <2>3. /\ ValidRecords({r \in index : r.id \notin ids})
        /\ {r \in index : r.id \notin ids} \subseteq Record
        /\ AllFilled({r \in index : r.id \notin ids})
    BY <2>2 DEF ValidRecords, AllFilled
  <2> QED
    BY <1>0, <1>4, <2>1, <2>3
<1> QED
  BY <1>2, <1>3, <1>5, <1>6, <1>7 DEF Begins

LEMMA BeginKeepsInv ==
  ASSUME KnowledgeInv, NEW s \in Shells, Begins(s)
  PROVE  KnowledgeInv'
<1>1. PICK j \in Beginning : Start(s, j)
  BY BeginsStart
<1>2. JobsOK'
  BY <1>1, Started DEF Beginning, KnowledgeInv
<1> QED
  BY <1>2, BeginsStart, FilesStay

LEMMA InitKeepsInv ==
  ASSUME KnowledgeInv, NEW s \in Shells,
         ReadManifest(s) \/ WriteManifest(s) \/ CheckIndex(s) \/ CreateIndex(s)
  PROVE  KnowledgeInv'
<1> USE DEF KnowledgeInv
<1>0. JobOK(job[s])
  BY DEF JobsOK
<1>1. Backfilled \in [Fields -> {"blank", "default", "curated"}]
  BY DEF FilesOK, Backfilled, Value
<1>2. CASE ReadManifest(s)
  <2>0. OnlyJobs /\ job[s].at = "manifest" /\ job[s].command \in {"init", "import"}
    BY <1>0, <1>2 DEF ReadManifest, OnlyJobs, JobOK
  <2>1. CASE manifest = Backfilled
    BY <1>2, <2>0, <2>1, Continued, FilesStay DEF ReadManifest
  <2>2. CASE manifest # Backfilled
    <3>0. Backfilled \in [Fields -> {"default", "curated"}]
      BY <1>1, <1>2 DEF ReadManifest
    <3>1. JobOK([job[s] EXCEPT !.at = "write manifest", !.next = Backfilled])
      BY <1>0, <2>0, <3>0 DEF JobOK, Job, Positions, Ready
    <3>2. job' = [job EXCEPT ![s] = [job[s] EXCEPT !.at = "write manifest", !.next = Backfilled]]
      BY <1>2, <2>2 DEF ReadManifest, JobsOK
    <3> QED
      BY <2>0, <3>1, <3>2, Replaced, FilesStay
  <2> QED
    BY <2>1, <2>2
<1>3. CASE WriteManifest(s)
  <2>0. job[s].at = "write manifest" /\ job[s].command \in {"init", "import"}
    BY <1>0, <1>3 DEF WriteManifest, JobOK
  <2>1. JobOK([job[s] EXCEPT !.at = "index", !.next = None])
    BY <1>0, <2>0 DEF JobOK, Job, Positions, Ready
  <2>2. job' = [job EXCEPT ![s] = [job[s] EXCEPT !.at = "index", !.next = None]]
    BY <1>3 DEF WriteManifest, JobsOK
  <2>3. JobsOK'
    BY <2>1, <2>2, Replaced
  <2>4. FilesOK'
    BY <1>0, <1>3, <2>0 DEF WriteManifest, FilesOK, JobOK, Value, resumeFiles
  <2> QED
    BY <1>3, <2>3, <2>4 DEF WriteManifest, IndexValid, ValidRecords, Clash
<1>4. \/ AfterInit(s) = "ok"
      \/ AfterInit(s) = "compare" /\ job[s].command # "init"
  BY Zenon DEF AfterInit
<1>5. CASE CheckIndex(s)
  <2>0. OnlyJobs /\ job[s].command \in {"init", "import"}
    BY <1>0, <1>5 DEF CheckIndex, OnlyJobs, JobOK
  <2>1. JobsOK'
    BY <1>0, <1>4, <1>5, <2>0, Continued DEF CheckIndex, JobOK
  <2> QED
    BY <2>0, <2>1, FilesStay
<1>6. CASE CreateIndex(s)
  <2>0. job[s].command \in {"init", "import"}
    BY <1>0, <1>6 DEF CreateIndex, JobOK
  <2>1. JobsOK'
    BY <1>0, <1>4, <1>6, <2>0, Continued DEF CreateIndex, JobOK
  <2> QED
    BY <1>6, <2>1 DEF CreateIndex, FilesOK, AllFilled, IndexValid, ValidRecords, resumeFiles
<1> QED
  BY <1>2, <1>3, <1>5, <1>6

LEMMA WritesKeepInv ==
  ASSUME KnowledgeInv, NEW s \in Shells,
         \/ Compare(s) \/ WriteOriginal(s) \/ WriteNormalized(s)
         \/ WriteMetadata(s) \/ WriteIndex(s) \/ Fail(s)
  PROVE  KnowledgeInv'
<1> USE DEF KnowledgeInv
<1>0. JobOK(job[s])
  BY DEF JobsOK
<1>1. CASE Compare(s) \/ WriteOriginal(s) \/ WriteNormalized(s) \/ WriteMetadata(s)
  <2>1. job[s].command \in {"init", "import"} /\ job[s].resume \in Resumes
    BY <1>0, <1>1 DEF Compare, WriteOriginal, WriteNormalized, WriteMetadata, JobOK
  <2>2. JobsOK'
    BY <1>1, <2>1, Continued DEF Compare, WriteOriginal, WriteNormalized, WriteMetadata
  <2>3. job[s].alone \in BOOLEAN
    BY <1>0 DEF JobOK, Job
  <2>4. FilesOK'
    BY <1>1, <2>1, <2>3
    DEF FilesOK, resumeFiles, Compare, WriteOriginal, WriteNormalized, WriteMetadata
  <2> QED
    BY <1>1, <2>2, <2>4
    DEF Compare, WriteOriginal, WriteNormalized, WriteMetadata, IndexValid, ValidRecords, Clash
<1>2. CASE WriteIndex(s)
  <2>1. JobsOK'
    BY <1>2, Continued DEF WriteIndex
  <2>2. FilesOK' /\ IndexValid'
    BY <1>0, <1>2 DEF WriteIndex, JobOK, FilesOK, IndexValid, ValidRecords, Clash, resumeFiles
  <2> QED
    BY <2>1, <2>2
<1>3. CASE Fail(s)
  <2>1. JobsOK'
    BY <1>3, IdleJobs, Replaced DEF Fail
  <2>2. FilesOK' /\ IndexValid'
    BY <1>3 DEF Fail, BetweenWrites, FilesOK, IndexValid, ValidRecords, Clash, resumeFiles
  <2> QED
    BY <2>1, <2>2
<1> QED
  BY <1>1, <1>2, <1>3

LEMMA CurateKeepsInv ==
  ASSUME KnowledgeInv, Curate
  PROVE  KnowledgeInv'
<1> USE DEF KnowledgeInv
<1>1. JobsOK'
  BY Alone DEF Curate, JobsOK
<1>2. FilesOK'
  BY DEF Curate, FilesOK, Value, resumeFiles
<1> QED
  BY <1>1, <1>2 DEF Curate, IndexValid, ValidRecords, Clash

LEMMA InvNext == KnowledgeInv /\ [Next]_vars => KnowledgeInv'
<1> SUFFICES ASSUME KnowledgeInv, [Next]_vars PROVE KnowledgeInv'
  OBVIOUS
<1>1. CASE UNCHANGED vars
  BY <1>1, FilesStay DEF vars, OnlyJobs, KnowledgeInv, JobsOK
<1>2. CASE Next
  BY <1>2, CurateKeepsInv, BeginKeepsInv, InitKeepsInv, WritesKeepInv DEF Next, Command, Begins
<1> QED
  BY <1>1, <1>2

(* The files hold what they are meant to hold.                             *)
THEOREM KnowledgeTypes == Spec => []TypeOK
<1> QED
  BY InvInit, InvNext, InvType, PTL DEF Spec

(* Whatever commands run, stop and meet, the live index satisfies its      *)
(* contract (service.py:251).                                              *)
THEOREM KnowledgeIndexValid == Spec => []IndexValid
<1>1. KnowledgeInv => IndexValid
  BY DEF KnowledgeInv
<1> QED
  BY <1>1, InvInit, InvNext, PTL DEF Spec

------------------------------------------------------------------------------
(* A command that is alone decides on what is still there when it writes.  *)

AloneInv ==
  \A s \in Shells : Running(s) /\ job[s].alone =>
    /\ \A o \in Shells \ {s} : ~Running(o)
    /\ job[s].at = "create index" => index = None
    /\ job[s].at = "write manifest" => job[s].next = Backfilled

Goes(s) ==
  \/ ReadManifest(s) \/ WriteManifest(s) \/ CheckIndex(s) \/ CreateIndex(s)
  \/ Compare(s) \/ WriteOriginal(s) \/ WriteNormalized(s) \/ WriteMetadata(s)
  \/ WriteIndex(s) \/ Fail(s)

LEMMA Commanded == \A s : Command(s) <=> Begins(s) \/ Goes(s)
  BY DEF Command, Begins, Goes

(* A command takes part in the next steps only while it runs, and the      *)
(* others stay as they are.                                                *)
LEMMA GoingAlone ==
  ASSUME JobsOK, NEW s \in Shells, Goes(s)
  PROVE  /\ Running(s)
         /\ DOMAIN job' = Shells
         /\ \A o \in Shells \ {s} : job'[o] = job[o]
<1>1. Running(s)
  BY DEF Goes, Running, ReadManifest, WriteManifest, CheckIndex, CreateIndex, Compare,
     WriteOriginal, WriteNormalized, WriteMetadata, WriteIndex, Fail
<1>2. /\ DOMAIN job' = Shells
      /\ \A o \in Shells \ {s} : job'[o] = job[o]
  BY DEF Goes, Continue, ReadManifest, WriteManifest, CheckIndex, CreateIndex, Compare,
     WriteOriginal, WriteNormalized, WriteMetadata, WriteIndex, Fail, JobsOK
<1> QED
  BY <1>1, <1>2

(* Only init decides to write a manifest or to create an index.            *)
LEMMA Decided ==
  ASSUME JobsOK, NEW s \in Shells, Goes(s)
  PROVE  \/ job'[s] \in {Idle, Done}
         \/ /\ job'[s].alone => job[s].alone
            /\ job'[s].at = "create index" => index = None /\ index' = None
            /\ job'[s].at = "write manifest" =>
                 job'[s].next = Backfilled /\ manifest' = manifest
<1>0. job[s] \in Job
  BY DEF JobsOK, JobOK
<1>1. ASSUME NEW at, Continue(s, at)
      PROVE  \/ job'[s] = Done
             \/ job'[s].at = at /\ (job'[s].alone => job[s].alone)
  BY <1>0, <1>1 DEF Continue, JobsOK, Job
<1>2. CASE ReadManifest(s)
  <2>1. CASE manifest = Backfilled
    <3>1. Continue(s, "index")
      BY <1>2, <2>1 DEF ReadManifest
    <3>2. \/ job'[s] = Done
          \/ job'[s].at = "index" /\ (job'[s].alone => job[s].alone)
      BY <1>1, <3>1
    <3> QED
      BY <3>2
  <2>2. CASE manifest # Backfilled
    <3>1. job' = [job EXCEPT ![s].at = "write manifest", ![s].next = Backfilled]
      BY <1>2, <2>2 DEF ReadManifest
    <3>2. job'[s].next = Backfilled
      BY <1>0, <3>1 DEF JobsOK, Job
    <3>3. job'[s].at = "write manifest" /\ (job'[s].alone => job[s].alone)
      BY <1>0, <3>1 DEF JobsOK, Job
    <3>4. manifest' = manifest
      BY <1>2 DEF ReadManifest
    <3> QED
      BY <3>2, <3>3, <3>4
  <2> QED
    BY <2>1, <2>2
<1>3. CASE WriteManifest(s)
  BY <1>0, <1>3 DEF WriteManifest, JobsOK, Job
<1>4. CASE CheckIndex(s)
  <2>1. CASE index = None
    <3>1. Continue(s, "create index") /\ index' = index
      BY <1>4, <2>1 DEF CheckIndex
    <3>2. \/ job'[s] = Done
          \/ job'[s].at = "create index" /\ (job'[s].alone => job[s].alone)
      BY <1>1, <3>1
    <3> QED
      BY <2>1, <3>1, <3>2
  <2>2. CASE index # None
    <3>1. Continue(s, AfterInit(s))
      BY <1>4, <2>2 DEF CheckIndex
    <3>2. AfterInit(s) \in {"ok", "compare"}
      BY DEF AfterInit
    <3> QED
      BY <1>1, <3>1, <3>2
  <2> QED
    BY <2>1, <2>2
<1>5. CASE CreateIndex(s)
  <2>1. Continue(s, AfterInit(s))
    BY <1>5 DEF CreateIndex
  <2>2. AfterInit(s) \in {"ok", "compare"}
    BY DEF AfterInit
  <2> QED
    BY <1>1, <2>1, <2>2
<1>6. CASE Compare(s) \/ WriteOriginal(s) \/ WriteNormalized(s) \/ WriteMetadata(s) \/ WriteIndex(s)
  <2>1. PICK at \in {"ok", "original", "normalized", "metadata"} : Continue(s, at)
    BY <1>6 DEF Compare, WriteOriginal, WriteNormalized, WriteMetadata, WriteIndex
  <2> QED
    BY <1>1, <2>1
<1>7. CASE Fail(s)
  BY <1>7 DEF Fail, JobsOK
<1> QED
  BY <1>2, <1>3, <1>4, <1>5, <1>6, <1>7 DEF Goes

(* Whoever runs when another command starts is no longer alone.            *)
LEMMA BeginsEndAlone ==
  ASSUME KnowledgeInv, NEW s \in Shells, Begins(s)
  PROVE  /\ \A o \in Shells \ {s} :
              IF Running(o) THEN job'[o] = [job[o] EXCEPT !.alone = FALSE]
              ELSE job'[o] = job[o]
         /\ job'[s].alone => ~Others(s)
         /\ job'[s].at \in {"manifest", "write index"}
<1>1. PICK j \in Beginning : Start(s, j)
  BY BeginsStart
<1>2. j \in Job /\ j.at \in {"manifest", "write index"}
  BY DEF Beginning
<1>3. job'[s] = [j EXCEPT !.alone = ~Others(s)]
  BY <1>1 DEF Start
<1> QED
  BY <1>1, <1>2, <1>3 DEF Start, Job

LEMMA AloneInit == Init => AloneInv
<1>1. Idle.at = "idle"
  BY DEF Idle
<1> QED
  BY <1>1 DEF Init, AloneInv, Running

LEMMA AloneNext == KnowledgeInv /\ AloneInv /\ [Next]_vars => AloneInv'
<1> SUFFICES ASSUME KnowledgeInv, AloneInv, [Next]_vars PROVE AloneInv'
  OBVIOUS
<1>0. JobsOK /\ \A s \in Shells : job[s] \in Job
  BY DEF KnowledgeInv, JobsOK, JobOK
<1>1. CASE UNCHANGED vars
  BY <1>1 DEF vars, AloneInv, Running, Backfilled
<1>2. CASE Curate
  <2>1. \A s \in Shells : /\ Running(s) => ~job'[s].alone
                          /\ ~Running(s) => job'[s] = job[s]
    BY <1>0, <1>2 DEF Curate, Job
  <2> QED
    BY <2>1 DEF AloneInv, Running
<1>3. ASSUME NEW s \in Shells, Begins(s) PROVE AloneInv'
  <2>1. ~Running(s) /\ OnlyJobs
    BY <1>3, BeginsStart
  <2>2. \A o \in Shells \ {s} :
          /\ Running(o) => ~job'[o].alone
          /\ ~Running(o) => job'[o] = job[o]
    BY <1>0, <1>3, BeginsEndAlone DEF Job
  <2>3. /\ job'[s].alone => ~Others(s)
        /\ job'[s].at \in {"manifest", "write index"}
    BY <1>3, BeginsEndAlone
  <2> QED
    BY <2>2, <2>3 DEF AloneInv, Running, Others
<1>4. ASSUME NEW s \in Shells, Goes(s) PROVE AloneInv'
  <2>1. /\ Running(s)
        /\ \A o \in Shells \ {s} : job'[o] = job[o]
    BY <1>0, <1>4, GoingAlone
  <2>2. ASSUME NEW o \in Shells \ {s}, Running(o)', job'[o].alone PROVE FALSE
    BY <2>1, <2>2 DEF AloneInv, Running
  <2>3. ASSUME Running(s)', job'[s].alone
        PROVE  /\ \A o \in Shells \ {s} : ~Running(o)'
               /\ job'[s].at = "create index" => index' = None
               /\ job'[s].at = "write manifest" => job'[s].next = Backfilled'
    <3>1. job'[s] \notin {Idle, Done}
      BY <2>3 DEF Running, Idle, Done
    <3>2. \A o \in Shells \ {s} : ~Running(o)'
      BY <1>0, <1>4, <2>1, <2>3, <3>1, Decided DEF AloneInv, Running
    <3> QED
      BY <1>0, <1>4, <3>1, <3>2, Decided DEF Backfilled
  <2> QED
    BY <2>2, <2>3 DEF AloneInv, Running
<1> QED
  BY <1>1, <1>2, <1>3, <1>4, Commanded DEF Next

(* Neither the index nor what is written in the manifest is touched.       *)
Kept ==
  /\ index # None => index' = index
  /\ manifest # None =>
       \A f \in Fields : manifest[f] # "missing" => manifest'[f] = manifest[f]

LEMMA InitKeeps ==
  ASSUME KnowledgeInv, AloneInv, NEW s \in Shells, Goes(s),
         Works(s, {"init", "import"})
  PROVE  Kept
<1>1. job[s].alone /\ job[s].command \in {"init", "import"} /\ Running(s)
  BY DEF Works
<1>2. CASE WriteManifest(s)
  <2>1. manifest' = Backfilled /\ index' = index
    BY <1>1, <1>2 DEF WriteManifest, AloneInv
  <2> QED
    BY <2>1 DEF Kept, Backfilled
<1>3. CASE CreateIndex(s)
  <2>1. index = None /\ manifest' = manifest
    BY <1>1, <1>3 DEF CreateIndex, AloneInv
  <2> QED
    BY <2>1 DEF Kept
<1>4. CASE WriteIndex(s)
  BY <1>1, <1>4 DEF WriteIndex, KnowledgeInv, JobsOK, JobOK
<1>5. CASE \/ ReadManifest(s) \/ CheckIndex(s) \/ Compare(s) \/ WriteOriginal(s)
           \/ WriteNormalized(s) \/ WriteMetadata(s) \/ Fail(s)
  <2>1. manifest' = manifest /\ index' = index
    BY <1>5 DEF ReadManifest, CheckIndex, Compare, WriteOriginal, WriteNormalized,
       WriteMetadata, Fail
  <2> QED
    BY <2>1 DEF Kept
<1> QED
  BY <1>2, <1>3, <1>4, <1>5 DEF Goes

LEMMA InitKeepsStep ==
  ASSUME KnowledgeInv, AloneInv, [Next]_vars, NEW s \in Shells,
         Works(s, {"init", "import"}), job'[s] # job[s], job'[s].alone
  PROVE  Kept
<1>0. JobsOK /\ Running(s) /\ job[s].alone
  BY DEF KnowledgeInv, Works
<1>1. CASE UNCHANGED vars
  BY <1>1 DEF vars
<1>2. CASE Curate
  <2>1. ~job'[s].alone
    BY <1>0, <1>2, ZenonT(60) DEF Curate, JobsOK, JobOK, Job
  <2> QED
    BY <2>1
<1>3. ASSUME NEW o \in Shells, Begins(o) PROVE Kept
  <2>1. manifest' = manifest /\ index' = index
    BY <1>3, BeginsStart DEF OnlyJobs
  <2> QED
    BY <2>1 DEF Kept
<1>4. ASSUME NEW o \in Shells, Goes(o) PROVE Kept
  <2>1. o = s
    BY <1>0, <1>4, GoingAlone
  <2> QED
    BY <1>4, <2>1, InitKeeps
<1> QED
  BY <1>1, <1>2, <1>3, <1>4, Commanded DEF Next

(* An init or an import that has the directory to itself keeps the index   *)
(* and every field of the manifest that is there (cli-contract.md:77).     *)
THEOREM KnowledgeInitKeeps == Spec => InitKeepsWhatIsThere
<1>1. KnowledgeInv /\ AloneInv /\ [Next]_vars =>
      [\A s \in Shells :
         Works(s, {"init", "import"}) /\ job'[s] # job[s] /\ job'[s].alone =>
           /\ index # None => index' = index
           /\ manifest # None =>
                \A f \in Fields : manifest[f] # "missing" => manifest'[f] = manifest[f]]_vars
  BY InitKeepsStep DEF Kept
<1> QED
  BY <1>1, InvInit, InvNext, AloneInit, AloneNext, PTL DEF Spec, InitKeepsWhatIsThere

------------------------------------------------------------------------------
(* What an import leaves behind.                                           *)

\* An import that nobody disturbs has written what lies behind it, and
\* without a torn import the files are those of the metadata.
Written(j) ==
  /\ j.at = "normalized" => original = j.resume
  /\ j.at = "metadata" => original = j.resume /\ normalized = j.resume

Agree == metadata = None \/ (original = metadata /\ normalized = metadata)

HonestInv ==
  /\ \A s \in Shells : ~torn \/ job[s].alone => Written(job[s])
  /\ ~torn => \A s, o \in Shells : BetweenWrites(s) /\ BetweenWrites(o) => s = o
  /\ ~torn => Agree \/ \E s \in Shells : BetweenWrites(s)

LEMMA HonestInit == Init => HonestInv
<1>1. Idle.at = "idle"
  BY DEF Idle
<1> QED
  BY <1>1 DEF Init, HonestInv, Written, BetweenWrites, Agree

(* A step that leaves the resume files alone and stops no import.          *)
LEMMA HonestElsewhere ==
  ASSUME HonestInv, UNCHANGED <<resumeFiles, torn>>,
         \A s \in Shells : \/ job'[s].at \notin {"normalized", "metadata"} /\ ~BetweenWrites(s)
                           \/ /\ job'[s].at = job[s].at /\ job'[s].resume = job[s].resume
                              /\ job'[s].alone => job[s].alone
  PROVE  HonestInv'
<1>1. \A s \in Shells : BetweenWrites(s)' <=> BetweenWrites(s)
  BY DEF BetweenWrites
<1>2. Agree' <=> Agree
  BY DEF Agree, resumeFiles
<1>3. \A s \in Shells : ~torn' \/ job'[s].alone => Written(job[s])'
  BY DEF HonestInv, Written, BetweenWrites, resumeFiles
<1> QED
  BY <1>1, <1>2, <1>3 DEF HonestInv

LEMMA Moved ==
  ASSUME JobsOK, NEW s \in Shells, NEW at, Continue(s, at)
  PROVE  \/ job'[s] = Done
         \/ /\ job'[s].at = at /\ job'[s].resume = job[s].resume
            /\ job'[s].alone => job[s].alone
  BY DEF Continue, JobsOK, JobOK, Job

LEMMA HonestBeforeWrites ==
  ASSUME JobsOK, HonestInv, NEW s \in Shells,
         \/ ReadManifest(s) \/ WriteManifest(s) \/ CheckIndex(s) \/ CreateIndex(s)
         \/ Compare(s) \/ WriteIndex(s)
  PROVE  HonestInv'
<1>1. UNCHANGED <<resumeFiles, torn>> /\ ~BetweenWrites(s)
  BY DEF BetweenWrites, ReadManifest, WriteManifest, CheckIndex, CreateIndex, Compare, WriteIndex
<1>2. Goes(s)
  BY DEF Goes
<1>3. job'[s].at \notin {"normalized", "metadata"}
  <2>0. Done.at = "ok"
    BY DEF Done, Idle
  <2>1. ASSUME NEW at \in Positions \ {"normalized", "metadata"}, Continue(s, at)
        PROVE  job'[s].at \notin {"normalized", "metadata"}
    BY <2>0, <2>1, Moved
  <2>2. CASE WriteManifest(s)
    BY <2>2 DEF WriteManifest, JobsOK, JobOK, Job
  <2>7. CASE ReadManifest(s) /\ manifest # Backfilled
    <3>1. job' = [job EXCEPT ![s].at = "write manifest", ![s].next = Backfilled]
      BY <2>7 DEF ReadManifest
    <3> QED
      BY <3>1 DEF JobsOK, JobOK, Job
  <2>3. CASE ReadManifest(s) /\ manifest = Backfilled
    BY <2>1, <2>3 DEF ReadManifest, Positions
  <2>4. AfterInit(s) \in Positions \ {"normalized", "metadata"}
    BY DEF AfterInit, Positions
  <2>5. CASE CheckIndex(s) \/ CreateIndex(s)
    <3>1. Continue(s, "create index") \/ Continue(s, AfterInit(s))
      BY <2>5 DEF CheckIndex, CreateIndex
    <3> QED
      BY <2>1, <2>4, <3>1 DEF Positions
  <2>6. CASE Compare(s) \/ WriteIndex(s)
    <3>1. Continue(s, "ok") \/ Continue(s, "original")
      BY <2>6 DEF Compare, WriteIndex
    <3> QED
      BY <2>1, <3>1 DEF Positions
  <2> QED
    BY <2>2, <2>3, <2>5, <2>6, <2>7
<1>4. \A o \in Shells \ {s} : job'[o] = job[o]
  BY <1>2, GoingAlone
<1> QED
  BY <1>1, <1>3, <1>4, HonestElsewhere

LEMMA HonestWrites ==
  ASSUME KnowledgeInv, AloneInv, HonestInv, NEW s \in Shells,
         WriteOriginal(s) \/ WriteNormalized(s) \/ WriteMetadata(s) \/ Fail(s)
  PROVE  HonestInv'
<1>0. JobsOK /\ job[s] \in Job
  BY DEF KnowledgeInv, JobsOK, JobOK
<1>1. /\ Running(s)
      /\ \A o \in Shells \ {s} : job'[o] = job[o]
  BY <1>0, GoingAlone DEF Goes
<1>2. \A o \in Shells \ {s} : BetweenWrites(o)' <=> BetweenWrites(o)
  BY <1>1 DEF BetweenWrites
<1>3. \A o \in Shells \ {s} : BetweenWrites(o) => ~job[o].alone /\ ~job[s].alone
  BY <1>1 DEF AloneInv, BetweenWrites, Running
<1>4. CASE WriteOriginal(s)
  <2>1. /\ job'[s].at = "normalized" /\ job'[s].resume = job[s].resume
        /\ original' = job[s].resume /\ torn' = (torn \/ ~job[s].alone)
    BY <1>0, <1>4 DEF WriteOriginal, Continue, JobsOK, Job
  <2>2. ~torn' => \A o \in Shells \ {s} : ~BetweenWrites(o)'
    BY <1>2, <1>3, <2>1
  <2>3. BetweenWrites(s)'
    BY <2>1 DEF BetweenWrites
  <2>4. \A o \in Shells : ~torn' \/ job'[o].alone => Written(job[o])'
    BY <1>1, <1>2, <1>3, <2>1, <2>2 DEF Written, BetweenWrites
  <2> QED
    BY <2>2, <2>3, <2>4 DEF HonestInv
<1>5. CASE WriteNormalized(s)
  <2>1. /\ job'[s].at = "metadata" /\ job'[s].resume = job[s].resume
        /\ job'[s].alone => job[s].alone
        /\ job[s].at = "normalized" /\ original' = original
        /\ normalized' = job[s].resume /\ torn' = torn
    BY <1>0, <1>5 DEF WriteNormalized, Continue, JobsOK, Job
  <2>2. BetweenWrites(s) /\ BetweenWrites(s)'
    BY <2>1 DEF BetweenWrites
  <2>3. ~torn' => \A o \in Shells \ {s} : ~BetweenWrites(o)'
    BY <1>2, <2>1, <2>2 DEF HonestInv
  <2>4. ~torn' \/ job'[s].alone => Written(job[s])'
    BY <2>1 DEF HonestInv, Written
  <2>5. \A o \in Shells \ {s} : ~torn' \/ job'[o].alone => Written(job[o])'
    BY <1>1, <1>2, <1>3, <2>3 DEF Written, BetweenWrites
  <2> QED
    BY <2>2, <2>3, <2>4, <2>5 DEF HonestInv
<1>6. CASE WriteMetadata(s)
  <2>1. /\ job'[s] = Done /\ job[s].at = "metadata"
        /\ original' = original /\ normalized' = normalized
        /\ metadata' = job[s].resume /\ torn' = ~job[s].alone
    BY <1>0, <1>6 DEF WriteMetadata, Continue, JobsOK
  <2>2. job'[s].at = "ok"
    BY <2>1 DEF Done, Idle
  <2>3. ~torn' => \A o \in Shells \ {s} : ~BetweenWrites(o)'
    BY <1>2, <1>3, <2>1
  <2>4. ~BetweenWrites(s)' /\ Written(job[s])'
    BY <2>2 DEF BetweenWrites, Written
  <2>5. \A o \in Shells \ {s} : ~torn' \/ job'[o].alone => Written(job[o])'
    BY <1>1, <1>2, <1>3, <2>3 DEF Written, BetweenWrites
  <2>6. ~torn' => Agree'
    BY <2>1 DEF HonestInv, Written, Agree
  <2> QED
    BY <2>3, <2>4, <2>5, <2>6 DEF HonestInv
<1>7. CASE Fail(s)
  <2>1. job'[s] = Idle /\ torn' = (torn \/ BetweenWrites(s)) /\ UNCHANGED resumeFiles
    BY <1>0, <1>7 DEF Fail, JobsOK
  <2>2. job'[s].at = "idle"
    BY <2>1 DEF Idle
  <2>3. ~BetweenWrites(s)' /\ Written(job[s])'
    BY <2>2 DEF BetweenWrites, Written
  <2>4. \A o \in Shells \ {s} : ~torn' \/ job'[o].alone => Written(job[o])'
    BY <1>1, <2>1 DEF HonestInv, Written, resumeFiles
  <2>5. ~torn' => Agree' \/ \E o \in Shells : BetweenWrites(o)'
    BY <1>2, <2>1 DEF HonestInv, Agree, resumeFiles
  <2>6. ~torn' => \A r, o \in Shells : BetweenWrites(r)' /\ BetweenWrites(o)' => r = o
    BY <1>2, <2>1, <2>3 DEF HonestInv
  <2> QED
    BY <2>3, <2>4, <2>5, <2>6 DEF HonestInv
<1> QED
  BY <1>4, <1>5, <1>6, <1>7

LEMMA HonestNext == KnowledgeInv /\ AloneInv /\ HonestInv /\ [Next]_vars => HonestInv'
<1> SUFFICES ASSUME KnowledgeInv, AloneInv, HonestInv, [Next]_vars PROVE HonestInv'
  OBVIOUS
<1>0. JobsOK /\ \A s \in Shells : job[s] \in Job
  BY DEF KnowledgeInv, JobsOK, JobOK
<1>1. CASE UNCHANGED vars
  BY <1>1, HonestElsewhere DEF vars
<1>2. CASE Curate
  <2>1. \A s \in Shells : /\ job'[s].at = job[s].at /\ job'[s].resume = job[s].resume
                          /\ job'[s].alone => job[s].alone
    BY <1>0, <1>2 DEF Curate, Job
  <2> QED
    BY <1>2, <2>1, HonestElsewhere DEF Curate
<1>3. ASSUME NEW s \in Shells, Begins(s) PROVE HonestInv'
  <2>1. ~Running(s) /\ UNCHANGED <<resumeFiles, torn>>
    BY <1>3, BeginsStart DEF OnlyJobs
  <2>2. ~BetweenWrites(s) /\ job'[s].at \notin {"normalized", "metadata"}
    BY <1>3, <2>1, BeginsEndAlone DEF Running, BetweenWrites
  <2>3. \A o \in Shells \ {s} : /\ job'[o].at = job[o].at /\ job'[o].resume = job[o].resume
                                /\ job'[o].alone => job[o].alone
    BY <1>0, <1>3, BeginsEndAlone DEF Job
  <2> QED
    BY <2>1, <2>2, <2>3, HonestElsewhere
<1>4. ASSUME NEW s \in Shells, Goes(s) PROVE HonestInv'
  BY <1>0, <1>4, HonestBeforeWrites, HonestWrites DEF Goes
<1> QED
  BY <1>1, <1>2, <1>3, <1>4, Commanded DEF Next

\* The files of the import's resume are in place.
InPlace(s) == original' = job[s].resume /\ normalized' = job[s].resume

LEMMA HonestStep ==
  ASSUME KnowledgeInv, AloneInv, HonestInv, [Next]_vars, NEW s \in Shells,
         Works(s, {"import"}), ~torn, job'[s].at = "ok"
  PROVE  InPlace(s)
<1>0. /\ JobsOK /\ Running(s) /\ job[s].alone /\ job[s].command = "import"
      /\ JobOK(job[s])
  BY DEF KnowledgeInv, Works, JobsOK
<1>1. CASE UNCHANGED vars
  BY <1>0, <1>1 DEF vars, Running
<1>2. CASE Curate
  BY <1>0, <1>2 DEF Curate, Running, JobsOK, JobOK, Job
<1>3. ASSUME NEW o \in Shells, Begins(o) PROVE FALSE
  <2>1. o # s
    BY <1>0, <1>3, BeginsStart
  <2> QED
    BY <1>0, <1>3, <2>1, BeginsEndAlone DEF Running, JobOK, Job
<1>4. ASSUME NEW o \in Shells, Goes(o) PROVE InPlace(s)
  <2>1. o = s
    BY <1>0, <1>4, GoingAlone DEF Running
  <2>2. CASE WriteMetadata(s)
    BY <1>0, <2>2 DEF WriteMetadata, HonestInv, Written, InPlace
  <2>3. CASE Compare(s)
    <3>1. metadata = job[s].resume
      <4>1. CASE metadata # job[s].resume
        <5>1. Continue(s, "original")
          BY <2>3, <4>1 DEF Compare
        <5>2. job'[s] = Done \/ job'[s].at = "original"
          BY <1>0, <5>1, Moved
        <5> QED
          BY <1>0, <5>1 DEF Continue, JobsOK, JobOK, Job
      <4> QED
        BY <4>1
    <3>2. \A r \in Shells : ~BetweenWrites(r)
      BY <1>0, <2>3 DEF Compare, AloneInv, BetweenWrites, Running
    <3>3. Agree /\ metadata # None
      BY <1>0, <3>1, <3>2, KnowledgeAssumption DEF HonestInv, JobOK
    <3> QED
      BY <2>3, <3>1, <3>3 DEF Agree, InPlace, Compare, resumeFiles
  <2>4. CASE Fail(s)
    BY <1>0, <2>4 DEF Fail, Idle, JobsOK
  <2>5. CASE \/ ReadManifest(s) \/ WriteManifest(s) \/ CheckIndex(s) \/ CreateIndex(s)
             \/ WriteOriginal(s) \/ WriteNormalized(s) \/ WriteIndex(s)
    <3>1. ~WriteIndex(s)
      BY <1>0 DEF WriteIndex, JobOK
    <3>2. CASE WriteManifest(s)
      BY <1>0, <3>2 DEF WriteManifest, JobsOK, JobOK, Job
    <3>3. CASE ReadManifest(s)
      <4>1. CASE manifest = Backfilled
        <5>1. Continue(s, "index")
          BY <3>3, <4>1 DEF ReadManifest
        <5> QED
          BY <1>0, <5>1 DEF Continue, JobsOK, JobOK, Job
      <4>2. CASE manifest # Backfilled
        <5>1. job' = [job EXCEPT ![s].at = "write manifest", ![s].next = Backfilled]
          BY <3>3, <4>2 DEF ReadManifest
        <5> QED
          BY <1>0, <5>1 DEF JobsOK, JobOK, Job
      <4> QED
        BY <4>1, <4>2
    <3>4. CASE CheckIndex(s) \/ CreateIndex(s) \/ WriteOriginal(s) \/ WriteNormalized(s)
      <4>1. AfterInit(s) = "compare"
        BY <1>0 DEF AfterInit
      <4>2. PICK at \in {"create index", "compare", "normalized", "metadata"} : Continue(s, at)
        BY <3>4, <4>1 DEF CheckIndex, CreateIndex, WriteOriginal, WriteNormalized
      <4> QED
        BY <1>0, <4>2 DEF Continue, JobsOK, JobOK, Job
    <3> QED
      BY <2>5, <3>1, <3>2, <3>3, <3>4
  <2> QED
    BY <1>4, <2>1, <2>2, <2>3, <2>4, <2>5 DEF Goes
<1> QED
  BY <1>1, <1>2, <1>3, <1>4, Commanded DEF Next

(* An import that nobody disturbs tells the truth about its files, as long *)
(* as no import was stopped between its writes (service.py:83-99).         *)
THEOREM KnowledgeImportHonest == Spec => ImportHonest
<1>1. KnowledgeInv /\ AloneInv /\ HonestInv /\ [Next]_vars =>
      [\A s \in Shells :
         Works(s, {"import"}) /\ ~torn /\ job'[s].at = "ok" =>
           original' = job[s].resume /\ normalized' = job[s].resume]_vars
  BY HonestStep DEF InPlace
<1> QED
  BY <1>1, InvInit, InvNext, AloneInit, AloneNext, HonestInit, HonestNext, PTL
  DEF Spec, ImportHonest
------------------------------------------------------------------------------
(* What the API loads.  A command that is past the manifest has seen one,  *)
(* and past the index it has seen one; neither goes away again.            *)

Loaded(j) ==
  /\ j.at \in {"index", "create index", "compare", "original", "normalized", "metadata"}
       => ManifestLoads
  /\ j.at \in {"compare", "original", "normalized", "metadata"} => RecordsLoad

LoadedInv == \A s \in Shells : Loaded(job[s])

(* What the commands accept as an index is what the API accepts.           *)
LEMMA ContractsAgree ==
  ASSUME KnowledgeInv, RecordsLoad
  PROVE  DocumentsLoad(index)
<1>1. index \subseteq Record /\ ValidRecords(index) /\ AllFilled(index)
  BY DEF KnowledgeInv, FilesOK, IndexValid, RecordsLoad
<1>2. \A r \in Record :
        /\ DOMAIN r = {"id", "subject", "body", "url"}
        /\ r.id # None
  BY KnowledgeAssumption DEF Record, Ids, StableId
<1>3. \A r, q \in index : r.id = q.id => r = q
  BY <1>1 DEF ValidRecords, Clash
<1> QED
  BY <1>1, <1>2, <1>3 DEF DocumentsLoad, AllFilled, Filled

(* A file that is not there is told apart from one that is. TLC cannot     *)
(* compare its None, a model value, with every set of records, so this is  *)
(* an assumption of the theorem and not of the module.                     *)
AbsenceShows == None \notin [Fields -> Value] /\ None \notin SUBSET Record

\* What init writes as a manifest has a name.
LEMMA WritesName ==
  ASSUME AbsenceShows, NEW s \in Shells, JobOK(job[s]), WriteManifest(s)
  PROVE  ManifestLoads'
<1>1. manifest' \in [Fields -> {"default", "curated"}] /\ manifest' \in [Fields -> Value]
  BY DEF WriteManifest, JobOK, Value
<1> QED
  BY <1>1, RetrievalAssumption DEF AbsenceShows, ManifestLoads

LEMMA FilesRemain ==
  ASSUME AbsenceShows, KnowledgeInv, [Next]_vars
  PROVE  /\ ManifestLoads => ManifestLoads'
         /\ RecordsLoad => RecordsLoad'
<1> USE DEF ManifestLoads, RecordsLoad
<1>0. JobsOK /\ \A s \in Shells : JobOK(job[s])
  BY DEF KnowledgeInv, JobsOK
<1>1. CASE UNCHANGED vars
  BY <1>1 DEF vars
<1>2. CASE Curate
  <2>1. manifest' \in [Fields -> Value] /\ index' = index
    BY <1>2 DEF Curate, KnowledgeInv, FilesOK, Value
  <2>2. manifest'[DisplayName] \in {manifest[DisplayName], "curated"}
    BY <1>2, RetrievalAssumption DEF Curate, KnowledgeInv, FilesOK
  <2> QED
    BY <2>1, <2>2, AbsenceShows DEF AbsenceShows
<1>3. ASSUME NEW s \in Shells, Begins(s) PROVE UNCHANGED <<manifest, index>>
  BY <1>3, BeginsStart DEF OnlyJobs
<1>4. ASSUME NEW s \in Shells, Goes(s)
      PROVE  /\ manifest' = manifest \/ ManifestLoads'
             /\ index' = index \/ index' # None
  <2>1. CASE WriteManifest(s)
    <3> QED
      BY <1>0, <2>1, WritesName DEF WriteManifest
  <2>2. CASE CreateIndex(s)
    <3>1. {} \in SUBSET Record
      OBVIOUS
    <3> QED
      BY <2>2, <3>1, AbsenceShows DEF AbsenceShows, CreateIndex
  <2>3. CASE WriteIndex(s)
    <3>1. job[s].next \in SUBSET Record
      BY <1>0, <2>3 DEF WriteIndex, JobOK
    <3> QED
      BY <2>3, <3>1, AbsenceShows DEF AbsenceShows, WriteIndex
  <2>4. CASE \/ ReadManifest(s) \/ CheckIndex(s) \/ Compare(s) \/ WriteOriginal(s)
             \/ WriteNormalized(s) \/ WriteMetadata(s) \/ Fail(s)
    BY <2>4 DEF ReadManifest, CheckIndex, Compare, WriteOriginal, WriteNormalized,
       WriteMetadata, Fail
  <2> QED
    BY <1>4, <2>1, <2>2, <2>3, <2>4 DEF Goes
<1> QED
  BY <1>1, <1>2, <1>3, <1>4, Commanded DEF Next

LEMMA IdleLoaded == Loaded(Idle) /\ Loaded(Done)
<1>1. Idle.at = "idle" /\ Done.at = "ok"
  BY DEF Idle, Done
<1> QED
  BY <1>1 DEF Loaded

(* A step of an init or an import needs the files that it has found or     *)
(* written, and an init or import that ends has found or written both.     *)
LEMMA GoesLoaded ==
  ASSUME AbsenceShows, KnowledgeInv, LoadedInv, NEW s \in Shells, Goes(s)
  PROVE  /\ Loaded(job[s])'
         /\ job[s].command \in {"init", "import"} /\ job'[s].at = "ok"
              => ManifestLoads' /\ RecordsLoad'
<1> DEFINE Ends == job[s].command \in {"init", "import"} /\ job'[s].at = "ok"
                     => ManifestLoads' /\ RecordsLoad'
<1>0. /\ JobsOK /\ JobOK(job[s]) /\ Loaded(job[s])
      /\ ManifestLoads => ManifestLoads'
      /\ RecordsLoad => RecordsLoad'
  BY FilesRemain, Commanded DEF KnowledgeInv, JobsOK, LoadedInv, Next
<1>1. ASSUME NEW at, Continue(s, at), at \in Positions,
             at \in {"ok", "index", "create index", "compare", "original", "normalized",
                     "metadata"} => ManifestLoads',
             at \in {"ok", "compare", "original", "normalized", "metadata"} => RecordsLoad'
      PROVE  Loaded(job[s])' /\ Ends
  <2>1. job'[s].at = at
    <3>1. CASE at = "ok"
      BY <1>0, <1>1, <3>1 DEF Continue, JobsOK, Done, Idle
    <3>2. CASE at # "ok"
      BY <1>0, <1>1, <3>2 DEF Continue, JobsOK, JobOK, Job
    <3> QED
      BY <3>1, <3>2
  <2> QED
    BY <1>1, <2>1 DEF Loaded, ManifestLoads, RecordsLoad
<1>2. AfterInit(s) \in {"ok", "compare"} /\ {"ok", "compare"} \subseteq Positions
  BY DEF AfterInit, Positions
<1>3. CASE ReadManifest(s)
  <2>1. CASE manifest = Backfilled
    <3>1. Backfilled \in [Fields -> Value]
          /\ Backfilled[DisplayName] \notin {"missing", "blank"}
      BY <1>0, <1>3, RetrievalAssumption
      DEF ReadManifest, Backfilled, KnowledgeInv, FilesOK, Value
    <3>2. ManifestLoads
      BY <2>1, <3>1, AbsenceShows DEF AbsenceShows, ManifestLoads
    <3>3. Continue(s, "index")
      BY <1>3, <2>1 DEF ReadManifest
    <3> QED
      BY <1>0, <1>1, <3>2, <3>3 DEF Positions
  <2>2. CASE manifest # Backfilled
    <3>0. job' = [job EXCEPT ![s].at = "write manifest", ![s].next = Backfilled]
      BY <1>3, <2>2 DEF ReadManifest
    <3>1. job'[s].at = "write manifest"
      BY <1>0, <3>0 DEF JobsOK, JobOK, Job
    <3> QED
      BY <3>1 DEF Loaded
  <2> QED
    BY <2>1, <2>2
<1>4. CASE WriteManifest(s)
  <2>2. ManifestLoads'
    BY <1>0, <1>4, WritesName
  <2>3. job'[s].at = "index"
    BY <1>0, <1>4 DEF WriteManifest, JobsOK, JobOK, Job
  <2> QED
    BY <2>2, <2>3 DEF Loaded
<1>5. CASE CheckIndex(s)
  <2>1. ManifestLoads'
    BY <1>0, <1>5 DEF CheckIndex, Loaded
  <2>2. CASE index = None
    <3>1. Continue(s, "create index")
      BY <1>5, <2>2 DEF CheckIndex
    <3> QED
      BY <1>1, <2>1, <3>1 DEF Positions
  <2>3. CASE index # None
    <3>1. Continue(s, AfterInit(s)) /\ RecordsLoad'
      BY <1>0, <1>5, <2>3 DEF CheckIndex, RecordsLoad
    <3> QED
      BY <1>1, <1>2, <2>1, <3>1
  <2> QED
    BY <2>2, <2>3
<1>6. CASE CreateIndex(s)
  <2>1. Continue(s, AfterInit(s)) /\ ManifestLoads'
    BY <1>0, <1>6 DEF CreateIndex, Loaded
  <2>2. {} \in SUBSET Record
    OBVIOUS
  <2>3. RecordsLoad'
    BY <1>6, <2>2, AbsenceShows DEF AbsenceShows, CreateIndex, RecordsLoad
  <2> QED
    BY <1>1, <1>2, <2>1, <2>3
<1>7. CASE Compare(s) \/ WriteOriginal(s) \/ WriteNormalized(s) \/ WriteMetadata(s)
  <2>1. ManifestLoads' /\ RecordsLoad'
    BY <1>0, <1>7 DEF Compare, WriteOriginal, WriteNormalized, WriteMetadata, Loaded
  <2>2. PICK at \in {"ok", "original", "normalized", "metadata"} : Continue(s, at)
    BY <1>7 DEF Compare, WriteOriginal, WriteNormalized, WriteMetadata
  <2> QED
    BY <1>1, <2>1, <2>2 DEF Positions
<1>8. CASE WriteIndex(s)
  <2>1. job[s].command \notin {"init", "import"}
    BY <1>0, <1>8 DEF WriteIndex, JobOK
  <2>2. job'[s] = Done
    BY <1>0, <1>8 DEF WriteIndex, Continue, JobsOK
  <2>3. Done.at = "ok"
    BY DEF Done, Idle
  <2> QED
    BY <2>1, <2>2, <2>3 DEF Loaded
<1>9. CASE Fail(s)
  <2>1. job'[s] = Idle
    BY <1>0, <1>9 DEF Fail, JobsOK
  <2>2. Idle.at = "idle"
    BY DEF Idle
  <2> QED
    BY <2>1, <2>2 DEF Loaded
<1> QED
  BY <1>3, <1>4, <1>5, <1>6, <1>7, <1>8, <1>9 DEF Goes

LEMMA LoadedInit == Init => LoadedInv
  BY IdleLoaded DEF Init, LoadedInv

LEMMA LoadedNext == AbsenceShows /\ KnowledgeInv /\ LoadedInv /\ [Next]_vars => LoadedInv'
<1> SUFFICES ASSUME AbsenceShows, KnowledgeInv, LoadedInv, [Next]_vars PROVE LoadedInv'
  OBVIOUS
<1>0. /\ JobsOK /\ \A s \in Shells : job[s] \in Job
      /\ ManifestLoads => ManifestLoads'
      /\ RecordsLoad => RecordsLoad'
  BY FilesRemain DEF KnowledgeInv, JobsOK, JobOK
<1>1. ASSUME NEW s \in Shells, job'[s].at = job[s].at PROVE Loaded(job[s])'
  BY <1>0, <1>1 DEF LoadedInv, Loaded
<1>2. CASE UNCHANGED vars
  BY <1>1, <1>2 DEF vars, LoadedInv
<1>3. CASE Curate
  <2>1. \A s \in Shells : job'[s].at = job[s].at
    BY <1>0, <1>3 DEF Curate, Job
  <2> QED
    BY <1>1, <2>1 DEF LoadedInv
<1>4. ASSUME NEW s \in Shells, Begins(s) PROVE LoadedInv'
  <2>1. job'[s].at \in {"manifest", "write index"}
    BY <1>4, BeginsEndAlone
  <2>2. Loaded(job[s])'
    BY <2>1 DEF Loaded
  <2>3. \A o \in Shells \ {s} : job'[o].at = job[o].at
    BY <1>0, <1>4, BeginsEndAlone DEF Job
  <2> QED
    BY <1>1, <2>2, <2>3 DEF LoadedInv
<1>5. ASSUME NEW s \in Shells, Goes(s) PROVE LoadedInv'
  <2>1. \A o \in Shells \ {s} : job'[o] = job[o]
    BY <1>0, <1>5, GoingAlone
  <2> QED
    BY <1>1, <1>5, <2>1, GoesLoaded DEF LoadedInv
<1> QED
  BY <1>2, <1>3, <1>4, <1>5, Commanded DEF Next

(* Who reports success as an init or an import has left both files.        *)
LEMMA EndsLoaded ==
  ASSUME AbsenceShows, KnowledgeInv, LoadedInv, [Next]_vars, NEW s \in Shells,
         job[s].command \in {"init", "import"}, Running(s), job'[s].at = "ok"
  PROVE  ManifestLoads' /\ RecordsLoad'
<1>0. JobsOK /\ \A o \in Shells : job[o] \in Job
  BY DEF KnowledgeInv, JobsOK, JobOK
<1>1. job[s].at # "ok"
  BY DEF Running
<1>2. ~UNCHANGED vars /\ ~Curate
  BY <1>0, <1>1 DEF vars, Curate, Job
<1>3. ASSUME NEW o \in Shells, Begins(o) PROVE FALSE
  <2>1. o # s
    BY <1>3, BeginsStart
  <2>2. job'[s].at = job[s].at
    BY <1>0, <1>3, <2>1, BeginsEndAlone DEF Job
  <2> QED
    BY <1>1, <2>2
<1>4. ASSUME NEW o \in Shells, Goes(o) PROVE ManifestLoads' /\ RecordsLoad'
  <2>1. o = s
    BY <1>0, <1>1, <1>4, GoingAlone
  <2> QED
    BY <1>4, <2>1, GoesLoaded
<1> QED
  BY <1>2, <1>3, <1>4, Commanded DEF Next

(* What init or an import has reported to be an instance can be loaded by  *)
(* the API from then on, whatever other commands do meanwhile              *)
(* (instance.py:95-124, knowledge.py:91-98).                               *)
THEOREM KnowledgeServableForGood == AbsenceShows /\ Spec => ServableForGood
<1> SUFFICES ASSUME AbsenceShows PROVE Spec => ServableForGood
  OBVIOUS
<1>1. KnowledgeInv /\ LoadedInv /\ KnowledgeInv' /\ [Next]_vars =>
      [/\ Servable => Servable'
       /\ \A s \in Shells :
            job[s].command \in {"init", "import"} /\ Running(s) /\ job'[s].at = "ok"
              => Servable']_vars
  <2> SUFFICES ASSUME KnowledgeInv, LoadedInv, KnowledgeInv', [Next]_vars
               PROVE  /\ Servable => Servable'
                      /\ \A s \in Shells :
                           job[s].command \in {"init", "import"} /\ Running(s)
                             /\ job'[s].at = "ok" => Servable'
    OBVIOUS
  <2>1. ManifestLoads' /\ RecordsLoad' => Servable'
    <3>1. RecordsLoad' => DocumentsLoad(index)'
      BY ContractsAgree, PTL
    <3> QED
      BY <3>1 DEF Servable
  <2> QED
    BY <2>1, FilesRemain, EndsLoaded DEF Servable
<1> QED
  BY <1>1, InvInit, InvNext, LoadedInit, LoadedNext, PTL DEF Spec, ServableForGood
------------------------------------------------------------------------------
(* Retrieval.  The index stays finite, so that a file can list it.         *)

FiniteInv ==
  /\ index # None => IsFiniteSet(index)
  /\ \A s \in Shells : job[s].at = "write index" => IsFiniteSet(job[s].next)

LEMMA ProposalsFinite ==
  ASSUME NEW p \in Proposals
  PROVE  IsFiniteSet(Records(p))
<1>1. PICK n \in 1 .. MaxDrafts : p \in [1 .. n -> Drafts]
  BY DEF Proposals, Lists
<1> DEFINE f == [i \in 1 .. n |-> Materialized(p[i])]
<1>2. Records(p) = {Materialized(p[i]) : i \in 1 .. n}
  BY <1>1 DEF Records
<1>3. f \in Surjection(1 .. n, Records(p))
  BY <1>2 DEF Surjection
<1>4. IsFiniteSet(1 .. n)
  <2>1. 1 \in Int /\ n \in Int
    BY KnowledgeAssumption
  <2> QED
    BY <2>1, FS_Interval
<1> QED
  BY <1>3, <1>4, FS_Surjection

(* What a command decides to write is finite when what it read is.         *)
LEMMA BeginsFinite ==
  ASSUME KnowledgeInv, FiniteInv, NEW s \in Shells, Begins(s)
  PROVE  FiniteInv'
<1>0. JobsOK /\ (\A o \in Shells : job[o] \in Job) /\ index' = index
  BY BeginsStart DEF KnowledgeInv, JobsOK, JobOK, OnlyJobs
<1>1. ASSUME NEW j, j \in Job, Start(s, j), j.at = "write index" => IsFiniteSet(j.next)
      PROVE  FiniteInv'
  <2>1. ASSUME NEW o \in Shells
        PROVE  /\ job'[o].at = (IF o = s THEN j.at ELSE job[o].at)
               /\ job'[o].next = (IF o = s THEN j.next ELSE job[o].next)
    BY <1>0, <1>1 DEF Start, Job
  <2> QED
    BY <1>0, <1>1, <2>1 DEF FiniteInv
<1>2. CASE BeginInit(s) \/ BeginImport(s)
  <2>1. PICK j \in Beginning : Start(s, j)
    BY BeginsStart
  <2>2. job'[s].at = j.at
    BY <2>1 DEF Start, Beginning, Job
  <2>3. j.at = "manifest"
    <3>1. CASE BeginInit(s)
      BY <2>2, <3>1 DEF BeginInit, Start, Idle
    <3>2. CASE BeginImport(s)
      BY <2>2, <3>2 DEF BeginImport, Start, Idle
    <3> QED
      BY <1>2, <3>1, <3>2
  <2> QED
    BY <1>1, <2>1, <2>3 DEF Beginning
<1>3. ASSUME NEW command \in {"replace", "upsert", "remove"}, NEW records,
             records \subseteq Record, IsFiniteSet(records),
             Decide(s, command, records)
      PROVE  FiniteInv'
  <2> DEFINE j == [Idle EXCEPT !.command = command, !.at = "write index",
                               !.next = records]
  <2>1. Idle \in Job
    BY IdleJobs DEF JobOK
  <2>2. j \in Job /\ j.next = records
    BY <1>3, <2>1 DEF Job, Commands, Positions, Ready
  <2>3. Start(s, j)
    BY <1>3 DEF Decide
  <2> HIDE DEF j
  <2> QED
    BY <1>1, <1>3, <2>2, <2>3
<1>4. CASE ReplaceIndex(s)
  <2>1. PICK p \in Proposals : Decide(s, "replace", Records(p))
    BY <1>4 DEF ReplaceIndex
  <2> QED
    BY <1>3, <2>1, MaterializedRecords, ProposalsFinite
<1>5. CASE UpsertIndex(s)
  <2>1. PICK p \in Proposals : Decide(s, "upsert", Merged(Records(p)))
    BY <1>5 DEF UpsertIndex
  <2>2. index # None /\ index \subseteq Record /\ IsFiniteSet(index)
    BY <1>5 DEF UpsertIndex, Readable, FiniteInv, KnowledgeInv, FilesOK
  <2> DEFINE kept == {r \in index : \A u \in Records(p) : u.id # r.id}
  <2>3. kept \in SUBSET index
    OBVIOUS
  <2>4. IsFiniteSet(kept)
    BY <2>2, <2>3, FS_Subset
  <2>5. Merged(Records(p)) = Records(p) \union kept
    BY DEF Merged
  <2> HIDE DEF kept
  <2>6. IsFiniteSet(Merged(Records(p)))
    BY <2>4, <2>5, ProposalsFinite, FS_Union
  <2>7. Merged(Records(p)) \subseteq Record
    BY <2>2, <2>3, <2>5, MaterializedRecords
  <2> QED
    BY <1>3, <2>1, <2>6, <2>7, MaterializedRecords
<1>6. CASE RemoveRecords(s)
  <2>1. PICK ids \in SUBSET {r.id : r \in index} :
          Decide(s, "remove", {r \in index : r.id \notin ids})
    BY <1>6 DEF RemoveRecords
  <2>2. index # None /\ index \subseteq Record /\ IsFiniteSet(index)
    BY <1>6 DEF RemoveRecords, Readable, FiniteInv, KnowledgeInv, FilesOK
  <2>3. {r \in index : r.id \notin ids} \in SUBSET index
    OBVIOUS
  <2>4. IsFiniteSet({r \in index : r.id \notin ids})
    BY <2>2, <2>3, FS_Subset
  <2> QED
    BY <1>3, <2>1, <2>2, <2>3, <2>4
<1> QED
  BY <1>2, <1>4, <1>5, <1>6 DEF Begins

LEMMA GoesFinite ==
  ASSUME KnowledgeInv, FiniteInv, NEW s \in Shells, Goes(s)
  PROVE  FiniteInv'
<1>0. JobsOK /\ job[s] \in Job /\ \A o \in Shells \ {s} : job'[o] = job[o]
  BY GoingAlone DEF KnowledgeInv, JobsOK, JobOK
<1>1. ASSUME NEW at, Continue(s, at), at # "write index" PROVE job'[s].at # "write index"
  BY <1>0, <1>1 DEF Continue, JobsOK, Job, Done, Idle
<1>2. AfterInit(s) \in {"ok", "compare"}
  BY DEF AfterInit
<1>3. CASE ReadManifest(s)
  <2>1. job'[s].at # "write index"
    <3>1. CASE manifest = Backfilled
      BY <1>1, <1>3, <3>1 DEF ReadManifest
    <3>2. CASE manifest # Backfilled
      <4>1. job' = [job EXCEPT ![s].at = "write manifest", ![s].next = Backfilled]
        BY <1>3, <3>2 DEF ReadManifest
      <4> QED
        BY <1>0, <4>1 DEF JobsOK, Job
    <3> QED
      BY <3>1, <3>2
  <2>2. index' = index
    BY <1>3 DEF ReadManifest
  <2> QED
    BY <1>0, <2>1, <2>2 DEF FiniteInv
<1>4. CASE WriteManifest(s)
  <2>1. job'[s].at # "write index" /\ index' = index
    BY <1>0, <1>4 DEF WriteManifest, JobsOK, Job
  <2> QED
    BY <1>0, <2>1 DEF FiniteInv
<1>5. CASE CheckIndex(s)
  <2>1. PICK at \in {"ok", "compare", "create index"} : Continue(s, at)
    BY <1>2, <1>5 DEF CheckIndex
  <2>2. job'[s].at # "write index" /\ index' = index
    BY <1>1, <1>5, <2>1 DEF CheckIndex
  <2> QED
    BY <1>0, <2>2 DEF FiniteInv
<1>6. CASE CreateIndex(s)
  <2>1. job'[s].at # "write index" /\ index' = {}
    BY <1>1, <1>2, <1>6 DEF CreateIndex
  <2> QED
    BY <1>0, <2>1, FS_EmptySet DEF FiniteInv
<1>7. CASE Compare(s) \/ WriteOriginal(s) \/ WriteNormalized(s) \/ WriteMetadata(s)
  <2>1. PICK at \in {"ok", "original", "normalized", "metadata"} : Continue(s, at)
    BY <1>7 DEF Compare, WriteOriginal, WriteNormalized, WriteMetadata
  <2>2. job'[s].at # "write index" /\ index' = index
    BY <1>1, <1>7, <2>1 DEF Compare, WriteOriginal, WriteNormalized, WriteMetadata
  <2> QED
    BY <1>0, <2>2 DEF FiniteInv
<1>8. CASE WriteIndex(s)
  <2>1. job'[s].at # "write index" /\ index' = job[s].next
    BY <1>1, <1>8 DEF WriteIndex
  <2> QED
    BY <1>0, <1>8, <2>1 DEF FiniteInv, WriteIndex
<1>9. CASE Fail(s)
  <2>1. job'[s].at # "write index" /\ index' = index
    BY <1>0, <1>9 DEF Fail, JobsOK, Idle
  <2> QED
    BY <1>0, <2>1 DEF FiniteInv
<1> QED
  BY <1>3, <1>4, <1>5, <1>6, <1>7, <1>8, <1>9 DEF Goes

LEMMA FiniteInit == Init => FiniteInv
<1>1. Idle.at = "idle"
  BY DEF Idle
<1> QED
  BY <1>1 DEF Init, FiniteInv

LEMMA FiniteNext == KnowledgeInv /\ FiniteInv /\ [Next]_vars => FiniteInv'
<1> SUFFICES ASSUME KnowledgeInv, FiniteInv, [Next]_vars PROVE FiniteInv'
  OBVIOUS
<1>1. CASE UNCHANGED vars
  BY <1>1 DEF vars, FiniteInv
<1>2. CASE Curate
  <2>1. \A s \in Shells : job'[s].at = job[s].at /\ job'[s].next = job[s].next
    BY <1>2, ZenonT(60) DEF Curate, KnowledgeInv, JobsOK, JobOK, Job
  <2>2. index' = index
    BY <1>2 DEF Curate
  <2> QED
    BY <2>1, <2>2 DEF FiniteInv
<1> QED
  BY <1>1, <1>2, BeginsFinite, GoesFinite, Commanded DEF Next
------------------------------------------------------------------------------
\* An order of the places 1 .. n, any two of which it tells apart.
Orders(L, n) ==
  /\ L \subseteq (1 .. n) \X (1 .. n)
  /\ \A i \in 1 .. n : <<i, i>> \notin L
  /\ \A i, j, k \in 1 .. n : <<i, j>> \in L /\ <<j, k>> \in L => <<i, k>> \in L
  /\ \A i, j \in 1 .. n : i # j => <<i, j>> \in L \/ <<j, i>> \in L

(* Whatever is totally ordered can be sorted: each place goes to the       *)
(* number of places that do not come after it.                             *)
LEMMA Sortable ==
  ASSUME NEW n \in Nat, NEW L, Orders(L, n)
  PROVE  \E p \in Bijection(1 .. n, 1 .. n) :
           \A i, j \in 1 .. n : i < j => <<p[j], p[i]>> \notin L
<1> DEFINE D == 1 .. n
           Upto(i) == {j \in D : <<i, j>> \notin L}
           rank == [i \in D |-> Cardinality(Upto(i))]
<1>0. IsFiniteSet(D) /\ Cardinality(D) = n
  BY FS_Interval
<1>1. ASSUME NEW i \in D
      PROVE  IsFiniteSet(Upto(i)) /\ Cardinality(Upto(i)) \in D
  <2>1. Upto(i) \in SUBSET D /\ i \in Upto(i)
    BY DEF Orders
  <2> HIDE DEF Upto, D
  <2>2. IsFiniteSet(Upto(i)) /\ Cardinality(Upto(i)) <= n
    BY <1>0, <2>1, FS_Subset
  <2>3. Cardinality(Upto(i)) \in Nat /\ Cardinality(Upto(i)) # 0
    BY <2>1, <2>2, FS_CardinalityType, FS_EmptySet
  <2> QED
    BY <2>2, <2>3 DEF D
<1>2. ASSUME NEW i \in D, NEW j \in D, <<i, j>> \in L
      PROVE  rank[i] < rank[j]
  <2>1. Upto(i) \subseteq Upto(j) /\ j \in Upto(j) /\ j \notin Upto(i)
    BY <1>2 DEF Orders
  <2> HIDE DEF Upto
  <2>2. Upto(i) \in SUBSET Upto(j) /\ Upto(i) # Upto(j)
    BY <2>1
  <2>3. Cardinality(Upto(i)) <= Cardinality(Upto(j))
        /\ Cardinality(Upto(i)) # Cardinality(Upto(j))
    BY <1>1, <2>2, FS_Subset
  <2> HIDE DEF D
  <2>4. rank[i] = Cardinality(Upto(i)) /\ rank[j] = Cardinality(Upto(j))
    OBVIOUS
  <2>5. Cardinality(Upto(i)) \in Int /\ Cardinality(Upto(j)) \in Int
    BY <1>1 DEF D
  <2> QED
    BY <2>3, <2>4, <2>5
<1>3. rank \in [D -> D]
  BY <1>1
<1> HIDE DEF Upto, rank
<1>4. rank \in Injection(D, D)
  <2>1. ASSUME NEW i \in D, NEW j \in D, i # j PROVE rank[i] # rank[j]
    <3>1. <<i, j>> \in L \/ <<j, i>> \in L
      BY <2>1 DEF Orders
    <3>2. rank[i] < rank[j] \/ rank[j] < rank[i]
      BY <1>2, <3>1
    <3> QED
      BY <1>3, <3>2
  <2> HIDE DEF D
  <2> QED
    BY <1>3, <2>1 DEF Injection, IsInjective
<1>5. rank \in Surjection(D, D)
  <2> HIDE DEF D
  <2> QED
    BY <1>0, <1>4, FS_Injection
<1> DEFINE p == [r \in D |-> CHOOSE i \in D : rank[i] = r]
<1>6. ASSUME NEW r \in D PROVE p[r] \in D /\ rank[p[r]] = r
  <2> HIDE DEF D
  <2> QED
    BY <1>5 DEF Surjection
<1>7. p \in Bijection(D, D)
  <2>1. p \in [D -> D]
    <3> HIDE DEF D
    <3> QED
      BY <1>5 DEF Surjection
  <2> HIDE DEF p
  <2>2. p \in Injection(D, D)
    <3> HIDE DEF D
    <3> QED
      BY <1>6, <2>1 DEF Injection, IsInjective
  <2>3. p \in Surjection(D, D)
    <3> HIDE DEF D
    <3> QED
      BY <1>0, <2>2, FS_Injection
  <2> QED
    BY <2>2, <2>3 DEF Bijection
<1> HIDE DEF p
<1>8. ASSUME NEW i \in D, NEW j \in D, i < j PROVE <<p[j], p[i]>> \notin L
  <2> SUFFICES ASSUME <<p[j], p[i]>> \in L PROVE FALSE
    OBVIOUS
  <2>1. p[i] \in D /\ p[j] \in D /\ rank[p[i]] = i /\ rank[p[j]] = j
    <3> HIDE DEF D
    <3> QED
      BY <1>6
  <2>2. rank[p[j]] < rank[p[i]]
    <3> HIDE DEF D
    <3> QED
      BY <1>2, <2>1
  <2> QED
    BY <1>8, <2>1, <2>2
<1> QED
  <2> HIDE DEF D
  <2>1. \A i, j \in D : i < j => <<p[j], p[i]>> \notin L
    BY <1>8
  <2> QED
    BY <1>7, <2>1 DEF D
\* What RetrievalRanked looks at.
Searches(documents, finding, hits) ==
  /\ IsFiniteSet(index) /\ DocumentsLoad(index)
  /\ documents \in SetToSeqs(index)
  /\ finding \in Findings(documents)
  /\ hits \in Hits(finding)

(* Each record has one place in the file, and its id leads there.          *)
LEMMA Places ==
  ASSUME NEW documents, NEW finding, NEW hits, Searches(documents, finding, hits)
  PROVE  \E n \in Nat :
           /\ documents \in [1 .. n -> index]
           /\ \A i, j \in 1 .. n : documents[i].id = documents[j].id => i = j
           /\ DOMAIN finding \subseteq {documents[i].id : i \in 1 .. n}
           /\ IsFiniteSet(DOMAIN finding)
           /\ \A id \in DOMAIN finding :
                /\ Order(documents, id) \in 1 .. n
                /\ documents[Order(documents, id)].id = id
                /\ finding[id] \in Int
<1> DEFINE n == Cardinality(index)
<1>0. n \in Nat
  BY FS_CardinalityType DEF Searches
<1>1. /\ documents \in [1 .. n -> index]
      /\ \A i, j \in 1 .. n : i # j => documents[i] # documents[j]
  BY DEF Searches, SetToSeqs
<1> HIDE DEF n
<1>2. \A i, j \in 1 .. n : documents[i].id = documents[j].id => i = j
  BY <1>1 DEF Searches, DocumentsLoad
<1> DEFINE AllIds == {documents[i].id : i \in 1 .. n}
<1>3. DOMAIN documents = 1 .. n
  BY <1>1
<1>4. PICK found \in SUBSET AllIds : finding \in [found -> Scores]
  BY <1>3 DEF Searches, Findings
<1>5. DOMAIN finding \in SUBSET AllIds /\ \A id \in DOMAIN finding : finding[id] \in Int
  BY <1>4, RetrievalAssumption
<1>6. IsFiniteSet(AllIds)
  <2> DEFINE f == [i \in 1 .. n |-> documents[i].id]
  <2>1. f \in Surjection(1 .. n, AllIds)
    BY DEF Surjection
  <2>2. IsFiniteSet(1 .. n)
    BY <1>0, FS_Interval
  <2> HIDE DEF f, AllIds
  <2> QED
    BY <2>1, <2>2, FS_Surjection
<1>7. ASSUME NEW id \in AllIds
      PROVE  Order(documents, id) \in 1 .. n /\ documents[Order(documents, id)].id = id
  <2>1. \E i \in DOMAIN documents : documents[i].id = id
    BY <1>3
  <2> HIDE DEF AllIds
  <2> QED
    BY <1>3, <2>1 DEF Order
<1>8. IsFiniteSet(DOMAIN finding)
  <2> HIDE DEF AllIds
  <2> QED
    BY <1>5, <1>6, FS_Subset
<1> QED
  BY <1>0, <1>1, <1>2, <1>5, <1>7, <1>8

\* m hits report a finding.
Reports(hits, m, finding) ==
  /\ DOMAIN hits = 1 .. m
  /\ \A i \in 1 .. m :
       hits[i].id \in DOMAIN finding /\ hits[i].score = finding[hits[i].id]
  /\ \A id \in DOMAIN finding : \E i \in 1 .. m : hits[i].id = id

(* The engine reports each of its findings once.                           *)
LEMMA Reported ==
  ASSUME NEW documents, NEW finding, NEW hits, Searches(documents, finding, hits)
  PROVE  \E m \in Nat : /\ Reports(hits, m, finding)
                        /\ \A i, j \in 1 .. m : hits[i].id = hits[j].id => i = j
<1> DEFINE Found == {[id |-> id, score |-> finding[id]] : id \in DOMAIN finding}
           m == Cardinality(Found)
<1>1. IsFiniteSet(Found)
  <2> DEFINE f == [id \in DOMAIN finding |-> [id |-> id, score |-> finding[id]]]
  <2>1. f \in Surjection(DOMAIN finding, Found)
    BY DEF Surjection
  <2>2. IsFiniteSet(DOMAIN finding)
    BY Places
  <2> HIDE DEF f, Found
  <2> QED
    BY <2>1, <2>2, FS_Surjection
<1>2. /\ hits \in [1 .. m -> Found]
      /\ \A i, j \in 1 .. m : i # j => hits[i] # hits[j]
  BY DEF Searches, Hits, SetToSeqs
<1> HIDE DEF Found
<1>3. m \in Nat
  BY <1>1, FS_CardinalityType
<1>4. hits \in Surjection(1 .. m, Found)
  <2>1. IsFiniteSet(1 .. m) /\ Cardinality(1 .. m) = m
    BY <1>3, FS_Interval
  <2>2. hits \in Injection(1 .. m, Found)
    BY <1>2 DEF Injection, IsInjective
  <2> QED
    BY <1>1, <2>1, <2>2, FS_Injection
<1> HIDE DEF m
<1>5. \A h \in Found : /\ h.id \in DOMAIN finding /\ h.score = finding[h.id]
                         /\ h = [id |-> h.id, score |-> finding[h.id]]
  BY DEF Found
<1>6. ASSUME NEW id \in DOMAIN finding PROVE \E i \in 1 .. m : hits[i].id = id
  <2>1. [id |-> id, score |-> finding[id]] \in Found
    BY DEF Found
  <2>2. PICK i \in 1 .. m : hits[i] = [id |-> id, score |-> finding[id]]
    BY <1>4, <2>1 DEF Surjection
  <2> QED
    BY <2>2
<1>7. ASSUME NEW i \in 1 .. m, NEW j \in 1 .. m, hits[i].id = hits[j].id PROVE i = j
  <2>1. hits[i] = hits[j]
    BY <1>2, <1>5, <1>7
  <2> QED
    BY <1>2, <2>1
<1> QED
  BY <1>2, <1>3, <1>5, <1>6, <1>7 DEF Reports

(* The sort key is a total order of the hits, so they can be sorted, and   *)
(* the one that is sorted to an earlier place precedes the other.          *)
LEMMA RankedHits ==
  ASSUME NEW documents, NEW finding, NEW hits, Searches(documents, finding, hits)
  PROVE  LET ranked == Ranked(documents, hits) IN
         \E m \in Nat :
           /\ Reports(ranked, m, finding)
           /\ ranked = [i \in 1 .. m |-> ranked[i]]
           /\ \A i, j \in 1 .. m : i < j => Precedes(documents, ranked[i], ranked[j])
<1>0. PICK m \in Nat : /\ Reports(hits, m, finding)
                       /\ \A i, j \in 1 .. m : hits[i].id = hits[j].id => i = j
  BY Reported
<1>1. /\ DOMAIN hits = 1 .. m
      /\ \A i \in 1 .. m :
           hits[i].id \in DOMAIN finding /\ hits[i].score = finding[hits[i].id]
      /\ \A id \in DOMAIN finding : \E i \in 1 .. m : hits[i].id = id
  BY <1>0 DEF Reports
<1>2. \A id \in DOMAIN finding :
        /\ Order(documents, id) \in Int
        /\ documents[Order(documents, id)].id = id
        /\ finding[id] \in Int
  BY Places
<1> DEFINE Before(i, j) == Precedes(documents, hits[i], hits[j])
           L == {pair \in (1 .. m) \X (1 .. m) : Before(pair[1], pair[2])}
           score == [i \in 1 .. m |-> hits[i].score]
           place == [i \in 1 .. m |-> Order(documents, hits[i].id)]
<1>3. /\ score \in [1 .. m -> Int]
      /\ place \in [1 .. m -> Int]
      /\ \A i, j \in 1 .. m : place[i] = place[j] => i = j
  <2>1. ASSUME NEW i \in 1 .. m, NEW j \in 1 .. m, place[i] = place[j] PROVE i = j
    <3>1. hits[i].id = hits[j].id
      BY <1>1, <1>2, <2>1
    <3> QED
      BY <1>0, <3>1
  <2>2. ASSUME NEW i \in 1 .. m PROVE hits[i].score \in Int /\ Order(documents, hits[i].id) \in Int
    BY <1>1, <1>2
  <2>3. score \in [1 .. m -> Int] /\ place \in [1 .. m -> Int]
    BY <2>2
  <2> HIDE DEF score, place
  <2> QED
    BY <2>1, <2>3
<1>4. \A i, j \in 1 .. m : Before(i, j) <=>
        score[i] > score[j] \/ (score[i] = score[j] /\ place[i] < place[j])
  BY DEF Precedes
<1>5. \A i, j \in 1 .. m : <<i, j>> \in L <=> Before(i, j)
  OBVIOUS
<1> HIDE DEF Before, L, score, place
<1>6. Orders(L, m)
  <2>1. L \subseteq (1 .. m) \X (1 .. m)
    BY DEF L
  <2>2. \A i \in 1 .. m : ~Before(i, i)
    BY <1>3, <1>4
  <2>3. \A i, j, k \in 1 .. m : Before(i, j) /\ Before(j, k) => Before(i, k)
    <3> SUFFICES ASSUME NEW i \in 1 .. m, NEW j \in 1 .. m, NEW k \in 1 .. m,
                        Before(i, j), Before(j, k)
                 PROVE  Before(i, k)
      OBVIOUS
    <3>1. /\ score[i] \in Int /\ score[j] \in Int /\ score[k] \in Int
          /\ place[i] \in Int /\ place[j] \in Int /\ place[k] \in Int
      BY <1>3
    <3>2. /\ score[i] > score[j] \/ (score[i] = score[j] /\ place[i] < place[j])
          /\ score[j] > score[k] \/ (score[j] = score[k] /\ place[j] < place[k])
      BY <1>4
    <3>3. score[i] > score[k] \/ (score[i] = score[k] /\ place[i] < place[k])
      BY <3>1, <3>2
    <3> QED
      BY <1>4, <3>3
  <2>4. \A i, j \in 1 .. m : i # j => Before(i, j) \/ Before(j, i)
    <3> SUFFICES ASSUME NEW i \in 1 .. m, NEW j \in 1 .. m, i # j
                 PROVE  Before(i, j) \/ Before(j, i)
      OBVIOUS
    <3>1. score[i] \in Int /\ score[j] \in Int /\ place[i] \in Int /\ place[j] \in Int
          /\ place[i] # place[j]
      BY <1>3
    <3> QED
      BY <1>4, <3>1
  <2> QED
    BY <1>5, <2>1, <2>2, <2>3, <2>4 DEF Orders
<1> DEFINE Sorts(p) == \A i, j \in DOMAIN hits :
                         i < j => ~Precedes(documents, hits[p[j]], hits[p[i]])
           order == CHOOSE p \in Bijection(DOMAIN hits, DOMAIN hits) : Sorts(p)
<1>7. \E p \in Bijection(DOMAIN hits, DOMAIN hits) : Sorts(p)
  <2>1. PICK p \in Bijection(1 .. m, 1 .. m) :
          \A i, j \in 1 .. m : i < j => <<p[j], p[i]>> \notin L
    BY <1>6, Sortable
  <2>2. p \in [1 .. m -> 1 .. m]
    BY DEF Bijection, Injection
  <2>3. ASSUME NEW i \in DOMAIN hits, NEW j \in DOMAIN hits, i < j
        PROVE  ~Precedes(documents, hits[p[j]], hits[p[i]])
    <3>1. p[i] \in 1 .. m /\ p[j] \in 1 .. m /\ <<p[j], p[i]>> \notin L
      BY <1>1, <2>1, <2>2, <2>3
    <3>2. ~Before(p[j], p[i])
      BY <1>5, <3>1
    <3> QED
      BY <3>2 DEF Before
  <2>4. Sorts(p)
    BY <2>3
  <2> HIDE DEF Sorts
  <2> QED
    BY <1>1, <2>1, <2>4
<1>8. order \in Bijection(1 .. m, 1 .. m) /\ Sorts(order)
  <2> HIDE DEF Sorts
  <2> QED
    BY <1>1, <1>7
<1>9. Ranked(documents, hits) = [i \in 1 .. m |-> hits[order[i]]]
  BY <1>1 DEF Ranked
<1> HIDE DEF order
<1>10. /\ order \in [1 .. m -> 1 .. m]
       /\ \A i, j \in 1 .. m : order[i] = order[j] => i = j
       /\ \A h \in 1 .. m : \E i \in 1 .. m : order[i] = h
  BY <1>8 DEF Bijection, Injection, Surjection, IsInjective
<1> DEFINE ranked == Ranked(documents, hits)
<1>11. ranked = [i \in 1 .. m |-> ranked[i]] /\ \A i \in 1 .. m : ranked[i] = hits[order[i]]
  BY <1>9
<1> HIDE DEF ranked
<1>12. ASSUME NEW i \in 1 .. m
       PROVE  ranked[i].id \in DOMAIN finding /\ ranked[i].score = finding[ranked[i].id]
  <2>1. order[i] \in 1 .. m
    BY <1>10
  <2> QED
    BY <1>1, <1>11, <2>1
<1>13. ASSUME NEW id \in DOMAIN finding PROVE \E i \in 1 .. m : ranked[i].id = id
  <2>1. PICK h \in 1 .. m : hits[h].id = id
    BY <1>1
  <2>2. PICK i \in 1 .. m : order[i] = h
    BY <1>10
  <2> QED
    BY <1>11, <2>1, <2>2
<1>14. ASSUME NEW i \in 1 .. m, NEW j \in 1 .. m, i < j
       PROVE  Precedes(documents, ranked[i], ranked[j])
  <2>1. order[i] \in 1 .. m /\ order[j] \in 1 .. m /\ order[i] # order[j]
    BY <1>10, <1>14
  <2>2. ~Before(order[j], order[i])
    BY <1>1, <1>8, <1>14 DEF Before
  <2>3. Before(order[i], order[j])
    BY <1>5, <1>6, <2>1, <2>2 DEF Orders
  <2> QED
    BY <1>11, <2>3 DEF Before
<1>15. Reports(ranked, m, finding)
  <2>1. DOMAIN ranked = 1 .. m
    BY <1>11
  <2> QED
    BY <1>12, <1>13, <2>1 DEF Reports
<1> QED
  BY <1>11, <1>14, <1>15 DEF ranked

\* The k best of the documents that are found, best first.
BestFirst(documents, finding, k, answer) ==
  LET found == {ById(documents, id) : id \in DOMAIN finding}
      taken == {answer[i] : i \in DOMAIN answer}
  IN  /\ taken \subseteq found
      /\ Len(answer) = k \/ taken = found
      /\ \A i, j \in DOMAIN answer :
           i < j => Better(documents, finding, answer[i], answer[j])
      /\ \A d \in taken, e \in found \ taken : Better(documents, finding, d, e)

(* The answer is the first documents of the ranking.                       *)
LEMMA Retrieved ==
  ASSUME NEW documents, NEW finding, NEW hits, Searches(documents, finding, hits),
         NEW k \in Nat
  PROVE  BestFirst(documents, finding, k, Retrieve(documents, FALSE, hits, k))
<1> DEFINE answer == Retrieve(documents, FALSE, hits, k)
           found  == {ById(documents, id) : id \in DOMAIN finding}
           taken  == {answer[i] : i \in DOMAIN answer}
<1>1. PICK n \in Nat :
           /\ documents \in [1 .. n -> index]
           /\ \A i, j \in 1 .. n : documents[i].id = documents[j].id => i = j
           /\ DOMAIN finding \subseteq {documents[i].id : i \in 1 .. n}
           /\ \A id \in DOMAIN finding :
                /\ Order(documents, id) \in 1 .. n
                /\ documents[Order(documents, id)].id = id
                /\ finding[id] \in Int
  BY Places
<1>2. CASE documents = <<>>
  <2>1. n = 0
    BY <1>1, <1>2
  <2>2. DOMAIN finding = {}
    <3>1. 1 .. n = {}
      BY <2>1
    <3> QED
      BY <1>1, <3>1
  <2>3. answer = <<>>
    BY <1>2 DEF Retrieve
  <2> HIDE DEF answer
  <2>4. found = {}
    BY <2>2
  <2>5. DOMAIN answer = {}
    BY <2>3
  <2>6. taken = {}
    BY <2>5
  <2> HIDE DEF taken, found
  <2> QED
    BY <2>4, <2>5, <2>6 DEF answer, taken, found, BestFirst
<1>3. CASE documents # <<>>
  <2> DEFINE ranked == Ranked(documents, hits)
  <2>1. PICK m \in Nat :
           /\ Reports(ranked, m, finding)
           /\ ranked = [i \in 1 .. m |-> ranked[i]]
           /\ \A i, j \in 1 .. m : i < j => Precedes(documents, ranked[i], ranked[j])
    BY RankedHits
  <2>2. Len(ranked) = m
    <3> HIDE DEF ranked
    <3> QED
      BY <2>1
  <2> DEFINE l == IF k < m THEN k ELSE m
             At(i) == ById(documents, ranked[i].id)
  <2>3. answer = [i \in 1 .. l |-> At(i)]
    BY <1>3, <2>2 DEF Retrieve
  <2>4. l \in Nat /\ l <= m /\ (l = k \/ l = m)
    OBVIOUS
  <2> HIDE DEF ranked, l, answer
  <2>5. DOMAIN answer = 1 .. l /\ Len(answer) = l /\ \A i \in 1 .. l : answer[i] = At(i)
    BY <2>3, <2>4
  <2>6. ASSUME NEW i \in 1 .. m, NEW j \in 1 .. m, i < j
        PROVE  Better(documents, finding, At(i), At(j))
    <3>1. Precedes(documents, ranked[i], ranked[j])
      BY <2>1, <2>6
    <3>2. \A h \in 1 .. m : /\ At(h).id = ranked[h].id
                            /\ finding[At(h).id] = ranked[h].score
                            /\ At(h) = documents[Order(documents, ranked[h].id)]
                            /\ Order(documents, ranked[h].id) \in DOMAIN documents
      BY <1>1, <2>1 DEF ById, Reports
    <3> HIDE DEF At
    <3> QED
      BY <3>1, <3>2 DEF Precedes, Better
  <2>7. found = {At(i) : i \in 1 .. m}
    <3>1. ASSUME NEW id \in DOMAIN finding
          PROVE  \E i \in 1 .. m : ById(documents, id) = At(i)
      BY <2>1 DEF Reports
    <3>2. ASSUME NEW i \in 1 .. m PROVE \E id \in DOMAIN finding : ById(documents, id) = At(i)
      BY <2>1 DEF Reports
    <3> HIDE DEF At
    <3> QED
      BY <3>1, <3>2
  <2>8. taken = {At(i) : i \in 1 .. l}
    BY <2>5
  <2> HIDE DEF At, found, taken
  <2>9. taken \subseteq found /\ (Len(answer) = k \/ taken = found)
    BY <2>4, <2>5, <2>7, <2>8
  <2>10. \A i, j \in DOMAIN answer :
           i < j => Better(documents, finding, answer[i], answer[j])
    BY <2>4, <2>5, <2>6
  <2>11. ASSUME NEW d \in taken, NEW e \in found \ taken
         PROVE  Better(documents, finding, d, e)
    <3>1. PICK i \in 1 .. l : d = At(i)
      BY <2>8
    <3>2. PICK j \in 1 .. m : e = At(j)
      BY <2>7
    <3>3. ~(j <= l)
      BY <2>4, <2>8, <2>11, <3>2
    <3>4. i \in 1 .. m /\ i < j
      BY <2>4, <3>3
    <3> QED
      BY <2>6, <3>1, <3>2, <3>4
  <2> QED
    BY <2>9, <2>10, <2>11 DEF taken, found, answer, BestFirst
<1> QED
  BY <1>2, <1>3

(* What retrieval answers is the best that the engine found, best first,   *)
(* for every index that the commands leave, in whatever order the hits     *)
(* come (retrieval/knowledge.py:75-87).                                    *)
THEOREM KnowledgeRetrievalRanked == Spec => []RetrievalRanked
<1>1. ASSUME FiniteInv PROVE RetrievalRanked
  <2> SUFFICES ASSUME Servable,
                      NEW documents \in SetToSeqs(index), NEW finding \in Findings(documents),
                      NEW k \in 1 .. TopK, NEW hits \in Hits(finding)
               PROVE  BestFirst(documents, finding, k, Retrieve(documents, FALSE, hits, k))
    BY DEF RetrievalRanked, BestFirst
  <2>1. Searches(documents, finding, hits)
    BY <1>1 DEF Servable, RecordsLoad, FiniteInv, Searches
  <2>2. k \in Nat
    OBVIOUS
  <2> QED
    BY <2>1, <2>2, Retrieved
<1> QED
  BY <1>1, InvInit, InvNext, FiniteInit, FiniteNext, PTL DEF Spec
==============================================================================
