----------------------------- MODULE BackupProofs -----------------------------
(***************************************************************************)
(* What a backup can be relied on for, for any number of runs that overlap,*)
(* fail or are killed, and any retention policy.                           *)
(*                                                                         *)
(* The argument is that pruning never removes the newest snapshot, so the  *)
(* snapshot a status speaks of can only have been replaced by a newer one; *)
(* that no status is younger than the newest run without a failure; and    *)
(* that a snapshot which the policy would keep of all that were ever taken *)
(* is one that it keeps of any selection among them.                       *)
(***************************************************************************)
EXTENDS Backup, FiniteSetTheorems, SequenceTheorems, TLAPS

\* The newest snapshot is there.
NewestKept == taken # <<>> => Len(taken) \in repo

\* What a run knows, or a status says, of uploads and of the clock.
Honest(s) == s.upload \in 0 .. Len(taken) /\ s.completed <= lastSuccess

\* A success is that of a run which has uploaded its snapshot.
Sent(s) == s.success = 1 => s.upload # 0

\* A run here has uploaded its snapshot, or has failed.
Past == {"pruning", "reporting", "telling", "stamping", "moving"}

RunsHonest ==
  \A r \in Runners :
    Honest(job[r]) /\ (job[r].at \in Past => Sent(job[r]))

StatusesHonest == \A s \in tmp \union file : Honest(s) /\ Sent(s)

BackupInv ==
  /\ TypeOK /\ NewestKept
  /\ RunsHonest /\ StatusesHonest
  /\ lastSuccess <= now
  /\ RetentionKept

------------------------------------------------------------------------------
(* Retention.                                                              *)

LEMMA Periods ==
  ASSUME NEW S, IsFiniteSet(S), NEW period
  PROVE  LET P == {period[m] : m \in S} IN IsFiniteSet(P) /\ Cardinality(P) \in Nat
  <1> DEFINE P == {period[m] : m \in S}
             f == [m \in S |-> period[m]]
  <1>1. f \in Surjection(S, P)
    BY DEF Surjection
  <1> HIDE DEF f
  <1>2. IsFiniteSet(P)
    BY <1>1, FS_Surjection
  <1>3. QED
    BY <1>2, FS_CardinalityType

(* What the policy keeps of many snapshots it keeps of some of them, too,  *)
(* also if the older ones were in other periods.                           *)
LEMMA NewestOfFewer ==
  ASSUME NEW S, NEW T, IsFiniteSet(T), S \subseteq T, T \subseteq Nat,
         NEW p, NEW q, \A m \in S : p[m] = q[m], NEW keep \in Nat,
         NEW n \in S, n \in NewestOf(q, keep, T)
  PROVE  n \in NewestOf(p, keep, S)
  <1> DEFINE few  == {m \in S : m > n}
             many == {m \in T : m > n}
             P    == {p[m] : m \in few}
             Q    == {q[m] : m \in many}
  <1>1. /\ \A m \in many : q[m] # q[n]
        /\ Cardinality(Q) < keep
    BY DEF NewestOf
  <1>2. IsFiniteSet(many)
    BY FS_Subset
  <1>3. few \subseteq many /\ P \subseteq Q
    OBVIOUS
  <1>4. IsFiniteSet(Q) /\ Cardinality(Q) \in Nat
    BY <1>2, Periods
  <1> HIDE DEF P, Q
  <1>5. Cardinality(P) <= Cardinality(Q) /\ Cardinality(P) \in Nat
    BY <1>3, <1>4, FS_Subset, FS_CardinalityType
  <1>6. Cardinality(P) < keep
    BY <1>1, <1>4, <1>5
  <1>7. \A m \in few : p[m] # p[n]
    BY <1>1, <1>3
  <1>8. QED
    BY <1>6, <1>7 DEF NewestOf, P

(* The newest of some snapshots is kept by any policy.                     *)
LEMMA NewestStays ==
  ASSUME NEW S, S \subseteq Nat, NEW n \in S, \A m \in S : m <= n,
         NEW period, NEW keep \in Nat \ {0}
  PROVE  n \in NewestOf(period, keep, S)
  <1>0. \A m \in S : ~(m > n)
    OBVIOUS
  <1>1. {m \in S : m > n} = {}
    BY <1>0
  <1>2. {period[m] : m \in {}} = {} /\ Cardinality({}) = 0
    BY FS_EmptySet
  <1>3. QED
    BY <1>1, <1>2 DEF NewestOf

LEMMA Policy == KeepDaily \in Nat \ {0} /\ KeepWeekly \in Nat \ {0}
  BY BackupAssumption

(* Pruning loses neither the newest snapshot nor one that the policy keeps *)
(* of all snapshots.                                                       *)
LEMMA RetainedKeeps ==
  ASSUME TypeOK, NewestKept, RetentionKept
  PROVE  /\ Retained \subseteq repo
         /\ taken # <<>> => Len(taken) \in Retained
         /\ NewestOf(DayOf, KeepDaily, DOMAIN taken) \subseteq Retained
         /\ NewestOf(WeekOf, KeepWeekly, DOMAIN taken) \subseteq Retained
  <1>1. /\ DOMAIN taken = 1 .. Len(taken) /\ Len(taken) \in Nat
        /\ IsFiniteSet(DOMAIN taken)
    BY FS_Interval DEF TypeOK
  <1>2. repo \subseteq DOMAIN taken
    BY DEF TypeOK
  <1>3. Retained \subseteq repo
    BY DEF Retained, Forget, NewestOf
  <1>4. ASSUME taken # <<>> PROVE Len(taken) \in Retained
    <2>1. Len(taken) \in repo /\ \A m \in repo : m <= Len(taken)
      BY <1>1, <1>2, <1>4 DEF NewestKept
    <2>2. Len(taken) \in NewestOf(DayOf, KeepDaily, repo)
      BY <1>1, <1>2, <2>1, NewestStays, Policy
    <2>3. QED
      BY <2>2 DEF Retained, Forget
  <1>5. NewestOf(DayOf, KeepDaily, DOMAIN taken) \subseteq Retained
    BY <1>1, <1>2, NewestOfFewer, Policy DEF RetentionKept, Retained, Forget
  <1>6. NewestOf(WeekOf, KeepWeekly, DOMAIN taken) \subseteq Retained
    BY <1>1, <1>2, NewestOfFewer, Policy DEF RetentionKept, Retained, Forget
  <1>7. QED
    BY <1>3, <1>4, <1>5, <1>6

------------------------------------------------------------------------------
LEMMA BackupInit == Init => BackupInv
  <1> SUFFICES ASSUME Init PROVE BackupInv
    OBVIOUS
  <1>1. TypeOK
    BY DEF Init, TypeOK, Idle, Job, Never
  <1>2. NewestKept /\ RunsHonest /\ StatusesHonest /\ lastSuccess <= now
    BY DEF Init, NewestKept, RunsHonest, StatusesHonest, Honest, Sent, Idle, Never
  <1>3. RetentionKept
    <2>1. DOMAIN taken = {}
      BY DEF Init
    <2>2. QED
      BY <2>1 DEF RetentionKept, NewestOf
  <1>4. QED
    BY <1>1, <1>2, <1>3 DEF BackupInv

------------------------------------------------------------------------------
(* Steps of a run. Most leave the repository alone.                        *)

LEMMA RepoFrame ==
  ASSUME BackupInv, taken' = taken, repo' \in {repo, Retained}
  PROVE  repo' \subseteq DOMAIN taken /\ NewestKept' /\ RetentionKept'
  <1>1. /\ repo \subseteq DOMAIN taken /\ NewestKept /\ RetentionKept
        /\ Retained \subseteq repo /\ (taken # <<>> => Len(taken) \in Retained)
        /\ NewestOf(DayOf, KeepDaily, DOMAIN taken) \subseteq Retained
        /\ NewestOf(WeekOf, KeepWeekly, DOMAIN taken) \subseteq Retained
    BY RetainedKeeps DEF BackupInv, TypeOK
  <1>2. DayOf' = DayOf /\ WeekOf' = WeekOf
    BY DEF DayOf, WeekOf
  <1>3. QED
    BY <1>1, <1>2 DEF NewestKept, RetentionKept, NewestOf

(* A run that goes on knows no less than before, and the others the same.  *)
LEMMA RunFrame ==
  ASSUME BackupInv, taken' = taken, lastSuccess' \in Int, lastSuccess' >= lastSuccess,
         NEW r \in Runners, NEW j \in Job, job' = [job EXCEPT ![r] = j],
         j.upload = job[r].upload \/ j.upload = 0, j.completed <= lastSuccess',
         j.at \in Past => Sent(j)
  PROVE  job' \in [Runners -> Job] /\ RunsHonest'
  <1>1. /\ job \in [Runners -> Job] /\ lastSuccess \in Int
        /\ Len(taken) \in Nat /\ RunsHonest
    BY DEF BackupInv, TypeOK, Never
  <1>2. \A s \in Job : s.completed \in Int /\ s.upload \in Nat
    BY DEF Job, Never
  <1>3. ASSUME NEW q \in Runners
        PROVE  /\ job'[q].upload \in 0 .. Len(taken) /\ job'[q].completed <= lastSuccess'
               /\ job'[q].at \in Past => Sent(job'[q])
    <2>1. /\ job[q].upload \in 0 .. Len(taken) /\ job[q].completed <= lastSuccess
          /\ job[q].at \in Past => Sent(job[q])
          /\ job[r].upload \in 0 .. Len(taken)
      BY <1>1 DEF RunsHonest, Honest
    <2>2. CASE q = r
      <3>1. job'[q] = j
        BY <1>1, <2>2
      <3>2. QED
        BY <1>1, <2>1, <3>1
    <2>3. CASE q # r
      <3>1. job'[q] = job[q] /\ job[q].completed \in Int
        BY <1>1, <1>2, <2>3
      <3>2. QED
        BY <1>1, <2>1, <3>1
    <2>4. QED
      BY <2>2, <2>3
  <1>4. RunsHonest'
    BY <1>3 DEF RunsHonest, Honest, Sent
  <1>5. QED
    BY <1>1, <1>4

LEMMA StatusFrame ==
  ASSUME BackupInv, lastSuccess' \in Int, lastSuccess' >= lastSuccess,
         Len(taken') \in Nat, Len(taken') >= Len(taken),
         \A s \in tmp' \union file' : s \in tmp \union file \/ (s \in Status /\ Honest(s)' /\ Sent(s))
  PROVE  tmp' \subseteq Status /\ file' \subseteq Status /\ StatusesHonest'
  <1>1. /\ lastSuccess \in Int /\ Len(taken) \in Nat /\ StatusesHonest
        /\ tmp \union file \subseteq Status
    BY DEF BackupInv, TypeOK, Never
  <1>2. ASSUME NEW s \in tmp \union file PROVE Honest(s)' /\ Sent(s)
    <2>1. s.completed \in Int /\ s.upload \in Nat
      BY <1>1 DEF Status, Never
    <2>2. s.upload <= Len(taken) /\ s.completed <= lastSuccess /\ Sent(s)
      BY <1>1 DEF StatusesHonest, Honest
    <2>3. QED
      BY <1>1, <2>1, <2>2 DEF Honest
  <1>3. QED
    BY <1>1, <1>2 DEF StatusesHonest, Sent

LEMMA StartStep == ASSUME BackupInv, NEW r \in Runners, Start(r) PROVE BackupInv'
  <1> DEFINE j == [Idle EXCEPT !.at = "dumping", !.success = 1]
  <1>1. TypeOK /\ lastSuccess \in Int /\ Len(taken) \in Nat /\ lastSuccess >= Never
    BY DEF BackupInv, TypeOK, Never
  <1>2. j \in Job /\ j.upload = 0 /\ j.completed = Never /\ j.at = "dumping"
    BY DEF Idle, Job, Never
  <1>3. job' \in [Runners -> Job] /\ RunsHonest'
    <2>1. /\ job' = [job EXCEPT ![r] = j] /\ taken' = taken
          /\ lastSuccess' \in Int /\ lastSuccess' >= lastSuccess
      BY <1>1 DEF Start
    <2>2. /\ j.upload = job[r].upload \/ j.upload = 0
          /\ j.at \in Past => Sent(j)
          /\ j.completed <= lastSuccess'
      BY <1>1, <1>2 DEF Start, Never, Past
    <2> HIDE DEF j
    <2>3. QED
      BY <1>2, <2>1, <2>2, RunFrame
  <1>4. tmp' \subseteq Status /\ file' \subseteq Status /\ StatusesHonest'
    BY <1>1, StatusFrame DEF Start
  <1>5. repo' \subseteq DOMAIN taken /\ NewestKept' /\ RetentionKept'
    BY RepoFrame DEF Start
  <1>6. QED
    BY <1>1, <1>3, <1>4, <1>5 DEF BackupInv, TypeOK, Start

LEMMA DumpStep == ASSUME BackupInv, NEW r \in Runners, Dump(r) PROVE BackupInv'
  <1> DEFINE n == Len(taken) + 1
  <1>1. /\ TypeOK /\ lastSuccess \in Int /\ lastSuccess' = lastSuccess
        /\ Len(taken) \in Nat /\ n \in Nat /\ DOMAIN taken = 1 .. Len(taken)
    BY DEF BackupInv, TypeOK, Never, Dump
  <1>2. PICK whole \in BOOLEAN : taken' = Append(taken, [at |-> now, whole |-> whole])
    BY DEF Dump
  <1>3. /\ taken' \in Seq(Snapshot) /\ Len(taken') = n /\ DOMAIN taken' = 1 .. n
        /\ \A i \in 1 .. Len(taken) : taken'[i] = taken[i]
    <2>1. taken \in Seq(Snapshot) /\ [at |-> now, whole |-> whole] \in Snapshot
      BY <1>1 DEF TypeOK, Snapshot
    <2>2. QED
      BY <1>2, <2>1
  <1>4. job' = [job EXCEPT ![r].at = "pruning", ![r].upload = n] /\ repo' = repo \union {n}
    BY DEF Dump
  <1> HIDE DEF n
  <1>5. job' \in [Runners -> Job]
    <2>1. job[r] \in Job /\ job' = [job EXCEPT ![r] = [job[r] EXCEPT !.at = "pruning", !.upload = n]]
      BY <1>1, <1>4 DEF TypeOK
    <2>2. [job[r] EXCEPT !.at = "pruning", !.upload = n] \in Job
      BY <1>1, <2>1 DEF Job
    <2>3. QED
      BY <1>1, <2>1, <2>2 DEF TypeOK
  <1>6. RunsHonest'
    <2>1. ASSUME NEW q \in Runners
          PROVE  /\ job'[q].upload \in 0 .. n /\ job'[q].completed <= lastSuccess'
                 /\ job'[q].at \in Past => Sent(job'[q])
      <3>1. /\ job[q] \in Job /\ job[q].upload \in 0 .. Len(taken)
            /\ job[q].completed <= lastSuccess
            /\ job[q].at \in Past => Sent(job[q])
        BY <1>1 DEF BackupInv, TypeOK, RunsHonest, Honest
      <3>2. CASE q = r
        <4>1. /\ job'[q].upload = n /\ n # 0 /\ n \in 0 .. n
              /\ job'[q].completed = job[q].completed
          BY <1>1, <1>4, <3>1, <3>2 DEF Job, TypeOK, n
        <4>2. QED
          BY <1>1, <3>1, <4>1 DEF Sent
      <3>3. CASE q # r
        <4>1. job'[q] = job[q] /\ 0 .. Len(taken) \subseteq 0 .. n
          BY <1>1, <1>4, <3>3 DEF TypeOK, n
        <4>2. QED
          BY <1>1, <3>1, <4>1
      <3>4. QED
        BY <3>2, <3>3
    <2>2. QED
      BY <1>3, <2>1 DEF RunsHonest, Honest, Sent
  <1>7. tmp' \subseteq Status /\ file' \subseteq Status /\ StatusesHonest'
    <2>1. n >= Len(taken) /\ tmp' = tmp /\ file' = file
      BY <1>1 DEF Dump, n
    <2>2. QED
      BY <1>1, <1>3, <2>1, StatusFrame
  <1>8. repo' \subseteq DOMAIN taken' /\ NewestKept'
    <2>1. repo \subseteq 1 .. Len(taken) /\ 1 .. n = 1 .. Len(taken) \union {n}
      BY <1>1 DEF TypeOK, n
    <2>2. QED
      BY <1>3, <1>4, <2>1 DEF NewestKept
  <1>9. RetentionKept'
    <2>1. /\ IsFiniteSet(DOMAIN taken') /\ DOMAIN taken' \subseteq Nat
          /\ DOMAIN taken \subseteq DOMAIN taken'
      <3>1. n \in Int /\ 1 \in Int
        BY <1>1
      <3>2. IsFiniteSet(1 .. n)
        BY <3>1, FS_Interval
      <3>3. 1 .. n \subseteq Nat /\ 1 .. Len(taken) \subseteq 1 .. n
        BY <1>1 DEF n
      <3>4. QED
        BY <1>1, <1>3, <3>2, <3>3
    <2>2. \A m \in DOMAIN taken : DayOf'[m] = DayOf[m] /\ WeekOf'[m] = WeekOf[m]
      BY <1>1, <1>3, <2>1 DEF DayOf, WeekOf
    <2>3. ASSUME NEW m \in DOMAIN taken', m # n PROVE m \in DOMAIN taken
      BY <1>1, <1>3, <2>3 DEF n
    <2>4. RetentionKept
      BY DEF BackupInv
    <2>5. ASSUME NEW m \in NewestOf(DayOf', KeepDaily, DOMAIN taken') PROVE m \in repo'
      <3>1. m \in DOMAIN taken'
        BY DEF NewestOf
      <3>2. CASE m # n
        <4>1. m \in DOMAIN taken
          BY <2>3, <3>1, <3>2
        <4>2. m \in NewestOf(DayOf, KeepDaily, DOMAIN taken)
          BY <2>1, <2>2, <2>5, <4>1, NewestOfFewer, Policy
        <4>3. QED
          BY <1>4, <2>4, <4>2 DEF RetentionKept
      <3>3. QED
        BY <1>4, <3>2
    <2>6. ASSUME NEW m \in NewestOf(WeekOf', KeepWeekly, DOMAIN taken') PROVE m \in repo'
      <3>1. m \in DOMAIN taken'
        BY DEF NewestOf
      <3>2. CASE m # n
        <4>1. m \in DOMAIN taken
          BY <2>3, <3>1, <3>2
        <4>2. m \in NewestOf(WeekOf, KeepWeekly, DOMAIN taken)
          BY <2>1, <2>2, <2>6, <4>1, NewestOfFewer, Policy
        <4>3. QED
          BY <1>4, <2>4, <4>2 DEF RetentionKept
      <3>3. QED
        BY <1>4, <3>2
    <2>7. QED
      BY <2>5, <2>6 DEF RetentionKept, NewestOf
  <1>10. QED
    BY <1>1, <1>3, <1>5, <1>6, <1>7, <1>8, <1>9 DEF BackupInv, TypeOK, Dump

LEMMA PruneStep == ASSUME BackupInv, NEW r \in Runners, Prune(r) PROVE BackupInv'
  <1> DEFINE j == [job[r] EXCEPT !.at = "reporting", !.completed = now]
  <1>1. /\ TypeOK /\ lastSuccess \in Int /\ Len(taken) \in Nat
        /\ now \in Nat /\ lastSuccess <= now
    BY DEF BackupInv, TypeOK, Never
  <1>2. job[r] \in Job /\ job[r].at = "pruning" /\ Sent(job[r])
    BY <1>1 DEF Prune, BackupInv, TypeOK, RunsHonest, Past
  <1>3. /\ job' = [job EXCEPT ![r] = j] /\ taken' = taken /\ repo' = Retained
        /\ lastSuccess' = now
    BY <1>1 DEF Prune, TypeOK
  <1>4. /\ j \in Job /\ j.upload = job[r].upload /\ j.success = job[r].success
        /\ j.completed = now
    BY <1>1, <1>2 DEF Job
  <1> HIDE DEF j
  <1>5. job' \in [Runners -> Job] /\ RunsHonest'
    <2>1. /\ lastSuccess' \in Int /\ lastSuccess' >= lastSuccess
          /\ j.completed <= lastSuccess'
      BY <1>1, <1>3, <1>4
    <2>2. /\ j.upload = job[r].upload \/ j.upload = 0
          /\ j.at \in Past => Sent(j)
      BY <1>2, <1>4 DEF Sent
    <2>3. QED
      BY <1>3, <1>4, <2>1, <2>2, RunFrame
  <1>6. tmp' \subseteq Status /\ file' \subseteq Status /\ StatusesHonest'
    BY <1>1, <1>3, StatusFrame DEF Prune
  <1>7. repo' \subseteq DOMAIN taken /\ NewestKept' /\ RetentionKept'
    BY <1>3, RepoFrame
  <1>8. QED
    BY <1>1, <1>3, <1>5, <1>6, <1>7 DEF BackupInv, TypeOK, Prune

LEMMA FailStep == ASSUME BackupInv, NEW r \in Runners, Fail(r) PROVE BackupInv'
  <1> DEFINE j == [job[r] EXCEPT !.at = "reporting", !.success = 0]
  <1>1. /\ TypeOK /\ lastSuccess \in Int /\ Len(taken) \in Nat
        /\ job[r] \in Job /\ job[r].completed <= lastSuccess
    BY DEF BackupInv, TypeOK, Never, RunsHonest, Honest
  <1>2. /\ job' = [job EXCEPT ![r] = j] /\ taken' = taken /\ lastSuccess' = lastSuccess
        /\ repo' \in {repo, Retained}
    BY <1>1 DEF Fail, TypeOK
  <1>3. /\ j \in Job /\ j.upload = job[r].upload /\ j.completed = job[r].completed
        /\ j.success = 0
    BY <1>1 DEF Job
  <1> HIDE DEF j
  <1>4. job' \in [Runners -> Job] /\ RunsHonest'
    <2>1. /\ lastSuccess' \in Int /\ lastSuccess' >= lastSuccess
          /\ j.completed <= lastSuccess'
      BY <1>1, <1>2, <1>3
    <2>2. /\ j.upload = job[r].upload \/ j.upload = 0
          /\ j.at \in Past => Sent(j)
      BY <1>3 DEF Sent
    <2>3. QED
      BY <1>2, <1>3, <2>1, <2>2, RunFrame
  <1>5. tmp' \subseteq Status /\ file' \subseteq Status /\ StatusesHonest'
    BY <1>1, <1>2, StatusFrame DEF Fail
  <1>6. repo' \subseteq DOMAIN taken /\ NewestKept' /\ RetentionKept'
    BY <1>2, RepoFrame
  <1>7. QED
    BY <1>1, <1>2, <1>4, <1>5, <1>6 DEF BackupInv, TypeOK, Fail

(* The temporary file is emptied: nothing is written in it yet.            *)
LEMMA OpenStep == ASSUME BackupInv, NEW r \in Runners, OpenResult(r) PROVE BackupInv'
  <1> DEFINE j == [job[r] EXCEPT !.at = "telling", !.writes = "tmp"]
  <1>1. /\ TypeOK /\ lastSuccess \in Int /\ lastSuccess >= Never /\ Len(taken) \in Nat
        /\ job[r] \in Job /\ job[r].completed <= lastSuccess /\ Sent(job[r])
    BY DEF BackupInv, TypeOK, Never, RunsHonest, Honest, OpenResult, Past
  <1>2. /\ job' = [job EXCEPT ![r] = j] /\ tmp' = {Empty}
        /\ UNCHANGED <<taken, lastSuccess, repo, file>>
    BY <1>1 DEF OpenResult, TypeOK
  <1>3. /\ j \in Job /\ j.upload = job[r].upload /\ j.completed = job[r].completed
        /\ j.success = job[r].success
    BY <1>1 DEF Job
  <1> HIDE DEF j
  <1>4. job' \in [Runners -> Job] /\ RunsHonest'
    <2>1. /\ lastSuccess' \in Int /\ lastSuccess' >= lastSuccess
          /\ j.completed <= lastSuccess' /\ Sent(j)
      BY <1>1, <1>2, <1>3 DEF Sent
    <2>2. QED
      BY <1>2, <1>3, <2>1, RunFrame
  <1>5. tmp' \subseteq Status /\ file' \subseteq Status /\ StatusesHonest'
    <2>1. Empty \in Status /\ Honest(Empty)' /\ Sent(Empty)
      BY <1>1, <1>2 DEF Empty, Status, Honest, Sent, Unwritten, Never
    <2>2. QED
      BY <1>1, <1>2, <2>1, StatusFrame
  <1>6. repo' \subseteq DOMAIN taken /\ NewestKept' /\ RetentionKept'
    BY <1>2, RepoFrame
  <1>7. QED
    BY <1>1, <1>2, <1>4, <1>5, <1>6 DEF BackupInv, TypeOK, OpenResult

(* A line tells what its run knows, and leaves the other line alone.       *)
LEMMA SuccessStep == ASSUME BackupInv, NEW r \in Runners, WriteSuccess(r) PROVE BackupInv'
  <1> DEFINE j == [job[r] EXCEPT !.at = IF job[r].success = 1 THEN "stamping" ELSE "moving"]
             Line(s) == [s EXCEPT !.success = job[r].success, !.upload = job[r].upload]
  <1>1. /\ TypeOK /\ lastSuccess \in Int /\ Len(taken) \in Nat
        /\ job[r] \in Job /\ Honest(job[r]) /\ Sent(job[r])
    BY DEF BackupInv, TypeOK, Never, RunsHonest, WriteSuccess, Past
  <1>2. /\ job' = [job EXCEPT ![r] = j]
        /\ UNCHANGED <<taken, lastSuccess, repo>>
        /\ tmp'  \in {tmp, {Line(s) : s \in tmp}}
        /\ file' \in {file, {Line(s) : s \in file}}
    BY <1>1 DEF WriteSuccess, WriteLine, Through, TypeOK
  <1>3. /\ j \in Job /\ j.upload = job[r].upload /\ j.completed = job[r].completed
        /\ j.success = job[r].success
    BY <1>1 DEF Job
  <1>4. ASSUME NEW s \in tmp \union file, NEW t, t = Line(s)
        PROVE  t \in Status /\ Honest(t)' /\ Sent(t)
    <2>1. s \in Status /\ s.completed <= lastSuccess
      BY <1>1 DEF BackupInv, TypeOK, StatusesHonest, Honest
    <2>2. /\ t \in Status /\ t.completed = s.completed
          /\ t.success = job[r].success /\ t.upload = job[r].upload
      BY <1>1, <1>4, <2>1 DEF Job, Status
    <2>3. QED
      BY <1>1, <1>2, <2>1, <2>2 DEF Honest, Sent
  <1> HIDE DEF j, Line
  <1>5. job' \in [Runners -> Job] /\ RunsHonest'
    <2>1. /\ lastSuccess' \in Int /\ lastSuccess' >= lastSuccess
          /\ j.completed <= lastSuccess' /\ Sent(j)
      BY <1>1, <1>2, <1>3 DEF Honest, Sent
    <2>2. QED
      BY <1>2, <1>3, <2>1, RunFrame
  <1>6. tmp' \subseteq Status /\ file' \subseteq Status /\ StatusesHonest'
    <2>1. /\ lastSuccess' \in Int /\ lastSuccess' >= lastSuccess
          /\ Len(taken') \in Nat /\ Len(taken') >= Len(taken)
      BY <1>1, <1>2
    <2>2. \A s \in tmp' \union file' :
            s \in tmp \union file \/ (s \in Status /\ Honest(s)' /\ Sent(s))
      BY <1>2, <1>4
    <2>3. QED
      BY <2>1, <2>2, StatusFrame
  <1>7. repo' \subseteq DOMAIN taken /\ NewestKept' /\ RetentionKept'
    BY <1>2, RepoFrame
  <1>8. QED
    BY <1>1, <1>2, <1>5, <1>6, <1>7 DEF BackupInv, TypeOK, WriteSuccess, WriteLine

LEMMA TimeStep == ASSUME BackupInv, NEW r \in Runners, WriteTime(r) PROVE BackupInv'
  <1> DEFINE j == [job[r] EXCEPT !.at = "moving"]
             Line(s) == [s EXCEPT !.completed = job[r].completed]
  <1>1. /\ TypeOK /\ lastSuccess \in Int /\ Len(taken) \in Nat
        /\ job[r] \in Job /\ Honest(job[r]) /\ Sent(job[r])
    BY DEF BackupInv, TypeOK, Never, RunsHonest, WriteTime, Past
  <1>2. /\ job' = [job EXCEPT ![r] = j]
        /\ UNCHANGED <<taken, lastSuccess, repo>>
        /\ tmp'  \in {tmp, {Line(s) : s \in tmp}}
        /\ file' \in {file, {Line(s) : s \in file}}
    BY <1>1 DEF WriteTime, WriteLine, Through, TypeOK
  <1>3. /\ j \in Job /\ j.upload = job[r].upload /\ j.completed = job[r].completed
        /\ j.success = job[r].success
    BY <1>1 DEF Job
  <1>4. ASSUME NEW s \in tmp \union file, NEW t, t = Line(s)
        PROVE  t \in Status /\ Honest(t)' /\ Sent(t)
    <2>1. s \in Status /\ s.upload \in 0 .. Len(taken) /\ Sent(s)
      BY <1>1 DEF BackupInv, TypeOK, StatusesHonest, Honest
    <2>2. /\ t \in Status /\ t.completed = job[r].completed
          /\ t.success = s.success /\ t.upload = s.upload
      BY <1>1, <1>4, <2>1 DEF Job, Status
    <2>3. QED
      BY <1>1, <1>2, <2>1, <2>2 DEF Honest, Sent
  <1> HIDE DEF j, Line
  <1>5. job' \in [Runners -> Job] /\ RunsHonest'
    <2>1. /\ lastSuccess' \in Int /\ lastSuccess' >= lastSuccess
          /\ j.completed <= lastSuccess' /\ Sent(j)
      BY <1>1, <1>2, <1>3 DEF Honest, Sent
    <2>2. QED
      BY <1>2, <1>3, <2>1, RunFrame
  <1>6. tmp' \subseteq Status /\ file' \subseteq Status /\ StatusesHonest'
    <2>1. /\ lastSuccess' \in Int /\ lastSuccess' >= lastSuccess
          /\ Len(taken') \in Nat /\ Len(taken') >= Len(taken)
      BY <1>1, <1>2
    <2>2. \A s \in tmp' \union file' :
            s \in tmp \union file \/ (s \in Status /\ Honest(s)' /\ Sent(s))
      BY <1>2, <1>4
    <2>3. QED
      BY <2>1, <2>2, StatusFrame
  <1>7. repo' \subseteq DOMAIN taken /\ NewestKept' /\ RetentionKept'
    BY <1>2, RepoFrame
  <1>8. QED
    BY <1>1, <1>2, <1>5, <1>6, <1>7 DEF BackupInv, TypeOK, WriteTime, WriteLine

LEMMA IdleFrame ==
  ASSUME BackupInv, taken' = taken, lastSuccess' = lastSuccess, NEW r \in Runners,
         job' = [job EXCEPT ![r] = Idle]
  PROVE  job' \in [Runners -> Job] /\ RunsHonest'
  <1>1. lastSuccess' \in Int /\ lastSuccess' >= lastSuccess
    BY DEF BackupInv, TypeOK, Never
  <1>2. /\ Idle \in Job /\ Idle.upload = 0 /\ Idle.completed <= lastSuccess'
        /\ Idle.at \notin Past
    BY DEF BackupInv, TypeOK, Never, Idle, Job, Past
  <1>3. QED
    BY <1>1, <1>2, RunFrame

(* A run whose report fails starts another one, or ends.                   *)
LEMMA FailingFrame ==
  ASSUME BackupInv, taken' = taken, lastSuccess' = lastSuccess, NEW r \in Runners,
         job' = [job EXCEPT ![r] = Failing(r)]
  PROVE  job' \in [Runners -> Job] /\ RunsHonest'
  <1>1. lastSuccess' \in Int /\ lastSuccess' >= lastSuccess
    BY DEF BackupInv, TypeOK, Never
  <1>2. CASE job[r].success = 1
    <2> DEFINE j == [job[r] EXCEPT !.at = "reporting", !.success = 0, !.writes = "nothing"]
    <2>1. job[r] \in Job /\ job[r].completed <= lastSuccess /\ Failing(r) = j
      BY <1>2 DEF BackupInv, TypeOK, RunsHonest, Honest, Failing
    <2>2. /\ j \in Job /\ j.upload = job[r].upload /\ j.completed = job[r].completed
          /\ j.success = 0
      BY <2>1 DEF Job
    <2> HIDE DEF j
    <2>3. Sent(j) /\ j.completed <= lastSuccess' /\ job' = [job EXCEPT ![r] = j]
      BY <2>1, <2>2 DEF Sent
    <2>4. QED
      BY <1>1, <2>2, <2>3, RunFrame
  <1>3. CASE job[r].success # 1
    BY <1>3, IdleFrame DEF Failing
  <1>4. QED
    BY <1>2, <1>3

(* The move carries the descriptors of other runs along.                   *)
LEMMA MoveStep == ASSUME BackupInv, NEW r \in Runners, MoveResult(r) PROVE BackupInv'
  <1>1. /\ TypeOK /\ lastSuccess \in Int /\ Len(taken) \in Nat
    BY DEF BackupInv, TypeOK, Never
  <1>2. /\ UNCHANGED <<taken, lastSuccess, repo>>
        /\ tmp' \union file' \subseteq tmp \union file
    BY DEF MoveResult
  <1>3. job' \in [Runners -> Job] /\ RunsHonest'
    <2>1. CASE job' = [job EXCEPT ![r] = Failing(r)]
      BY <1>2, <2>1, FailingFrame
    <2>2. CASE job' # [job EXCEPT ![r] = Failing(r)]
      <3> DEFINE Moved(q) == CASE job[q].writes = "tmp"  -> [job[q] EXCEPT !.writes = "file"]
                               [] job[q].writes = "file" -> [job[q] EXCEPT !.writes = "gone"]
                               [] OTHER                  -> job[q]
      <3>1. job' = [q \in Runners |-> IF q = r THEN Idle ELSE Moved(q)]
        BY <2>2 DEF MoveResult
      <3>2. ASSUME NEW q \in Runners
            PROVE  /\ job'[q] \in Job /\ job'[q].upload \in 0 .. Len(taken)
                   /\ job'[q].completed <= lastSuccess
                   /\ job'[q].at \in Past => Sent(job'[q])
        <4>1. /\ job[q] \in Job /\ job[q].upload \in 0 .. Len(taken)
              /\ job[q].completed <= lastSuccess
              /\ job[q].at \in Past => Sent(job[q])
          BY DEF BackupInv, TypeOK, RunsHonest, Honest
        <4>2. CASE q = r
          <5>1. job'[q] = Idle
            BY <3>1, <4>2
          <5>2. /\ Idle \in Job /\ Idle.upload = 0 /\ Idle.completed = Never
                /\ Idle.at \notin Past /\ Never <= lastSuccess
            BY DEF Idle, Job, Never, Past, BackupInv, TypeOK
          <5>3. QED
            BY <1>1, <5>1, <5>2
        <4>3. CASE q # r
          <5>1. job'[q] = Moved(q)
            BY <3>1, <4>3
          <5>2. \E w \in {"file", "gone"} : Moved(q) \in {job[q], [job[q] EXCEPT !.writes = w]}
            OBVIOUS
          <5> HIDE DEF Moved
          <5>3. PICK w \in {"file", "gone"} : job'[q] \in {job[q], [job[q] EXCEPT !.writes = w]}
            BY <5>1, <5>2
          <5>4. /\ job'[q] \in Job /\ job'[q].upload = job[q].upload
                /\ job'[q].completed = job[q].completed /\ job'[q].at = job[q].at
                /\ job'[q].success = job[q].success
            BY <4>1, <5>3 DEF Job
          <5>5. QED
            BY <4>1, <5>4 DEF Sent
        <4>4. QED
          BY <4>2, <4>3
      <3> HIDE DEF Moved
      <3>3. job' \in [Runners -> Job]
        BY <3>1, <3>2
      <3>4. QED
        BY <1>2, <3>2, <3>3 DEF RunsHonest, Honest, Sent
    <2>3. QED
      BY <2>1, <2>2
  <1>4. tmp' \subseteq Status /\ file' \subseteq Status /\ StatusesHonest'
    BY <1>1, <1>2, StatusFrame
  <1>5. repo' \subseteq DOMAIN taken /\ NewestKept' /\ RetentionKept'
    BY <1>2, RepoFrame
  <1>6. QED
    BY <1>1, <1>2, <1>3, <1>4, <1>5 DEF BackupInv, TypeOK, MoveResult

LEMMA ResultFailsStep == ASSUME BackupInv, NEW r \in Runners, ResultFails(r) PROVE BackupInv'
  <1>1. TypeOK /\ lastSuccess \in Int /\ Len(taken) \in Nat
    BY DEF BackupInv, TypeOK, Never
  <1>2. job' \in [Runners -> Job] /\ RunsHonest'
    BY FailingFrame DEF ResultFails
  <1>3. tmp' \subseteq Status /\ file' \subseteq Status /\ StatusesHonest'
    BY <1>1, StatusFrame DEF ResultFails
  <1>4. repo' \subseteq DOMAIN taken /\ NewestKept' /\ RetentionKept'
    BY RepoFrame DEF ResultFails
  <1>5. QED
    BY <1>1, <1>2, <1>3, <1>4 DEF BackupInv, TypeOK, ResultFails

LEMMA KillStep == ASSUME BackupInv, NEW r \in Runners, Kill(r) PROVE BackupInv'
  <1>1. TypeOK /\ lastSuccess \in Int /\ Len(taken) \in Nat
    BY DEF BackupInv, TypeOK, Never
  <1>2. job' \in [Runners -> Job] /\ RunsHonest'
    BY IdleFrame DEF Kill
  <1>3. tmp' \subseteq Status /\ file' \subseteq Status /\ StatusesHonest'
    BY <1>1, StatusFrame DEF Kill
  <1>4. repo' \subseteq DOMAIN taken /\ NewestKept' /\ RetentionKept'
    BY RepoFrame DEF Kill
  <1>5. QED
    BY <1>1, <1>2, <1>3, <1>4 DEF BackupInv, TypeOK, Kill

LEMMA QuietStep == ASSUME BackupInv, Tick \/ UNCHANGED vars PROVE BackupInv'
  <1>1. /\ TypeOK /\ lastSuccess \in Int /\ Len(taken) \in Nat
        /\ UNCHANGED <<job, repo, tmp, file, taken, started, lastSuccess>>
        /\ now' \in Nat /\ now' >= now
    BY DEF BackupInv, TypeOK, Never, Tick, vars
  <1>2. repo' \subseteq DOMAIN taken /\ NewestKept' /\ RetentionKept'
    BY <1>1, RepoFrame
  <1>3. RunsHonest' /\ StatusesHonest'
    BY <1>1 DEF BackupInv, RunsHonest, StatusesHonest, Honest, Sent
  <1>4. lastSuccess' <= now'
    BY <1>1 DEF BackupInv, TypeOK
  <1>5. QED
    BY <1>1, <1>2, <1>3, <1>4 DEF BackupInv, TypeOK

LEMMA BackupStep == BackupInv /\ [Next]_vars => BackupInv'
  BY StartStep, DumpStep, PruneStep, FailStep, OpenStep, SuccessStep, TimeStep, MoveStep,
     ResultFailsStep, KillStep, QuietStep
     DEF Next, Run

LEMMA AlwaysBackup == Spec => []BackupInv
  BY BackupInit, BackupStep, PTL DEF Spec

------------------------------------------------------------------------------
(* Every variable keeps its type; the repository never holds a snapshot    *)
(* that no run has uploaded.                                               *)
THEOREM BackupTypes == Spec => []TypeOK
  <1>1. BackupInv => TypeOK
    BY DEF BackupInv
  <1>2. QED
    BY <1>1, AlwaysBackup, PTL

(* What reports success has been uploaded, and a restore finds it or a     *)
(* newer snapshot (deploy/backup/backup.sh:25-42, restore.sh:14-20).       *)
THEOREM BackupSuccessIsUploaded == Spec => []SuccessIsUploaded
  <1>1. BackupInv => SuccessIsUploaded
    <2> SUFFICES ASSUME BackupInv, NEW s \in file, s.success = 1
                 PROVE  s.upload # 0 /\ repo # {} /\ Latest >= s.upload
      BY DEF SuccessIsUploaded
    <2>1. /\ repo \subseteq 1 .. Len(taken) /\ Len(taken) \in Nat
          /\ s.upload \in 0 .. Len(taken) /\ s.upload # 0
      BY DEF BackupInv, TypeOK, StatusesHonest, Honest, Sent
    <2>2. Len(taken) \in repo
      BY <2>1 DEF BackupInv, NewestKept
    <2>3. /\ \A m \in repo : m <= Len(taken)
          /\ \A n \in repo : (\A m \in repo : m <= n) => n = Len(taken)
      BY <2>1, <2>2
    <2>4. Latest = Len(taken)
      BY <2>2, <2>3 DEF Latest
    <2>5. QED
      BY <2>1, <2>2, <2>4
  <1>2. QED
    BY <1>1, AlwaysBackup, PTL

(* The alerts are not fooled by runs that die or overwrite each other's    *)
(* status (deploy/prometheus/alerts.yml:84-100).                           *)
THEOREM BackupSilenceRaisesAlarm == Spec => []SilenceRaisesAlarm
  <1>1. BackupInv => SilenceRaisesAlarm
    <2> SUFFICES ASSUME BackupInv, lastSuccess = Never \/ now - lastSuccess > Stale,
                        NEW s \in file
                 PROVE  s.completed = Never \/ now - s.completed > Stale
      BY DEF SilenceRaisesAlarm, Alarm
    <2>1. /\ s.completed \in Nat \union {Never} /\ s.completed <= lastSuccess
          /\ now \in Nat /\ lastSuccess \in Nat \union {Never} /\ Stale \in Nat
      BY BackupAssumption DEF BackupInv, TypeOK, StatusesHonest, Honest, Status
    <2>2. QED
      BY <2>1 DEF Never
  <1>2. QED
    BY <1>1, AlwaysBackup, PTL

(* No order of prunings, failures and deaths loses a snapshot that the     *)
(* retention policy keeps (deploy/backup/backup.sh:34-38).                 *)
THEOREM BackupRetentionKept == Spec => []RetentionKept
  <1>1. BackupInv => RetentionKept
    BY DEF BackupInv
  <1>2. QED
    BY <1>1, AlwaysBackup, PTL

(* The status of pg_dump that the pipe drops is all that can be wrong with *)
(* a reported backup: were it never lost, every success would stand for a  *)
(* whole database (deploy/backup/backup.sh:13, 31-32).                     *)
THEOREM BackupOnlyThePipe == ~DumpFails /\ Spec => []SuccessIsRestorable
  <1> SUFFICES ASSUME ~DumpFails PROVE Spec => []SuccessIsRestorable
    OBVIOUS
  <1> DEFINE Whole == \A n \in DOMAIN taken : taken[n].whole
  <1>1. Init => Whole
    BY DEF Init
  <1>2. BackupInv /\ Whole /\ [Next]_vars => Whole'
    <2> SUFFICES ASSUME BackupInv, Whole, [Next]_vars PROVE Whole'
      OBVIOUS
    <2>1. CASE taken' = taken
      BY <2>1
    <2>2. ASSUME NEW r \in Runners, Dump(r) PROVE Whole'
      <3>1. taken' = Append(taken, [at |-> now, whole |-> TRUE]) /\ taken \in Seq(Snapshot)
        BY <2>2 DEF Dump, BackupInv, TypeOK
      <3>2. /\ DOMAIN taken' = 1 .. Len(taken) + 1 /\ DOMAIN taken = 1 .. Len(taken)
            /\ Len(taken) \in Nat /\ taken'[Len(taken) + 1] = [at |-> now, whole |-> TRUE]
            /\ \A i \in 1 .. Len(taken) : taken'[i] = taken[i]
        BY <3>1
      <3>3. QED
        BY <3>2
    <2>3. QED
      BY <2>1, <2>2 DEF Next, Run, Tick, Start, Prune, Fail, Kill, OpenResult,
              WriteSuccess, WriteTime, WriteLine, MoveResult, ResultFails, vars
  <1>3. BackupInv /\ Whole => SuccessIsRestorable
    <2> SUFFICES ASSUME BackupInv, Whole, NEW s \in file, s.success = 1
                 PROVE  taken[s.upload].whole
      BY DEF SuccessIsRestorable
    <2>1. s.upload \in 1 .. Len(taken) /\ DOMAIN taken = 1 .. Len(taken)
      BY DEF BackupInv, TypeOK, StatusesHonest, Honest, Sent
    <2>2. QED
      BY <2>1
  <1> HIDE DEF Whole
  <1>4. QED
    BY <1>1, <1>2, <1>3, AlwaysBackup, PTL DEF Spec
==============================================================================
