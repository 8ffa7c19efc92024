------------------------ MODULE ConversationStoreProofs ------------------------
(***************************************************************************)
(* What the statements of append_turn amount to, for any number of turns,  *)
(* conversations, crashes and roll-backs.                                  *)
(*                                                                         *)
(* The row lock is all that keeps two transactions of a conversation       *)
(* apart.  While one has it, nobody else adds messages, so the ordinal it  *)
(* has read is still the next one when it inserts and when it commits,     *)
(* also if its process has died in between.                                *)
(*                                                                         *)
(* What a turn reads of its conversation follows: the messages pair into   *)
(* the turns they were stored by, and the loop of assemble_context, round  *)
(* by round, keeps the newest of them for as long as they fit.             *)
(***************************************************************************)
EXTENDS ChatMemory, FiniteSetTheorems, SequenceTheorems, TLAPS

\* Transactions that have the lock of their row.  The server may have begun to
\* roll an abandoned one back.
Holding == {"reading", "inserting", "updating", "committing", "detached"}
Drafted == {"updating", "committing", "detached"}
Unready == {"idle", "locking", "reading", "inserting"}

Locks == \A t \in Turns : at[t] \in Holding => owner[target[t]] = t

\* The row of a running transaction does not go away, also not while the
\* process starts again: nothing else runs then.
Existing ==
  /\ \A t \in Turns : at[t] \in InTransaction \union {"detached"} => target[t] \in Rows
  /\ ~serving => \A t \in Turns : at[t] \notin InTransaction

\* The ordinal that was read is the next one for as long as it matters.
Numbered ==
  \A t \in Turns :
    /\ at[t] \in Unready => draft[t] = Nothing
    /\ at[t] \in Drafted => draft[t] = Pair(t)
    /\ at[t] \in Drafted \union {"inserting"} => Ordinals(target[t]) = 0 .. next[t] - 1

\* The committed messages of a conversation: n pairs, of turns that have ended.
Holds(c, n) ==
  /\ Ordinals(c) = 0 .. 2 * n - 1
  /\ \A o \in 0 .. 2 * n - 1 : at[messages[c][o].turn] = "ended"

Paired == \A c \in Conversations : \E n \in Nat : Holds(c, n)

StoreInv ==
  /\ TypeOK /\ DOMAIN draft = Turns
  /\ Locks /\ Existing /\ Numbered /\ Paired

------------------------------------------------------------------------------
(* Two ways to write the same set of ordinals.                             *)
LEMMA SameInterval ==
  ASSUME NEW m \in Nat, NEW n \in Nat, 0 .. m - 1 = 0 .. n - 1
  PROVE  m = n
  <1>1. \A k \in Nat : Cardinality(0 .. k - 1) = k
    <2> TAKE k \in Nat
    <2>1. /\ 0 \in Int /\ k - 1 \in Int
          /\ (IF 0 > k - 1 THEN 0 ELSE (k - 1) - 0 + 1) = k
      OBVIOUS
    <2>2. QED
      BY ONLY <2>1, FS_Interval, Zenon
  <1>2. QED
    BY <1>1

LEMMA MaxOfInterval ==
  ASSUME NEW n \in Nat
  PROVE  IF 0 .. n - 1 = {} THEN n = 0 ELSE Max(0 .. n - 1) = n - 1
  <1>1. CASE n = 0
    BY <1>1
  <1>2. CASE n # 0
    <2>1. n - 1 \in 0 .. n - 1 /\ \A x \in 0 .. n - 1 : n - 1 >= x
      BY <1>2
    <2>2. \A y \in 0 .. n - 1 : (\A x \in 0 .. n - 1 : y >= x) => y = n - 1
      BY <2>1
    <2>3. QED
      BY <2>1, <2>2 DEF Max
  <1>3. QED
    BY <1>1, <1>2

(* A transaction that has its ordinal continues where the pairs end.       *)
LEMMA NextIsEven ==
  ASSUME StoreInv, NEW t \in Turns, at[t] \in Drafted \union {"inserting"},
         NEW n \in Nat, Holds(target[t], n)
  PROVE  next[t] = 2 * n
  <1>1. 0 .. next[t] - 1 = 0 .. 2 * n - 1
    BY DEF StoreInv, Numbered, Holds
  <1>2. next[t] \in Nat /\ 2 * n \in Nat
    BY DEF StoreInv, TypeOK
  <1>3. QED
    BY <1>1, <1>2, SameInterval

(* One transaction of a conversation at a time.                            *)
LEMMA OneHolder ==
  ASSUME StoreInv, NEW t \in Turns, NEW q \in Turns, at[t] \in Holding, at[q] \in Holding,
         target[q] = target[t]
  PROVE  q = t
  BY DEF StoreInv, Locks

LEMMA StoreInit == Init => StoreInv
  <1> SUFFICES ASSUME Init PROVE StoreInv
    OBVIOUS
  <1>1. \A c \in Conversations : messages[c] = Nothing /\ DOMAIN Nothing = {}
    BY DEF Init, Nothing
  <1>2. TypeOK /\ DOMAIN draft = Turns
    BY <1>1 DEF Init, TypeOK, RowStates, Positions, Drafts, Ordinals
  <1>3. Locks /\ Existing /\ Numbered
    BY DEF Init, Locks, Existing, Numbered, Holding, Drafted, InTransaction
  <1>4. Paired
    <2>1. 0 .. 2 * 0 - 1 = {}
      OBVIOUS
    <2>2. \A c \in Conversations : Holds(c, 0)
      BY <1>1, <2>1 DEF Holds, Ordinals
    <2>3. QED
      BY <2>2 DEF Paired
  <1>5. QED
    BY <1>2, <1>3, <1>4 DEF StoreInv

------------------------------------------------------------------------------
(* Steps that leave the committed messages alone.                          *)

LEMMA PairedFrame ==
  ASSUME StoreInv, messages' = messages, \A t \in Turns : at[t] = "ended" => at'[t] = "ended"
  PROVE  Paired'
  <1>1. ASSUME NEW c \in Conversations PROVE \E n \in Nat : Holds(c, n)'
    <2>1. PICK n \in Nat : Holds(c, n)
      BY DEF StoreInv, Paired
    <2>2. \A o \in 0 .. 2 * n - 1 : messages[c][o].turn \in Turns
      BY <2>1 DEF StoreInv, TypeOK, Holds, Message
    <2>3. Holds(c, n)'
      BY <2>1, <2>2 DEF Holds, Ordinals
    <2>4. QED
      BY <2>3
  <1>2. QED
    BY <1>1 DEF Paired

LEMMA NumberedFrame ==
  ASSUME StoreInv, UNCHANGED <<messages, at, target, next, draft>>
  PROVE  Numbered'
  <1>1. \A t \in Turns : Pair(t)' = Pair(t) /\ Ordinals(target[t])' = Ordinals(target[t])
    BY DEF Pair, Ordinals
  <1>2. Numbered
    BY DEF StoreInv
  <1>3. QED
    BY <1>1, <1>2 DEF Numbered

LEMMA TypesFrame ==
  ASSUME StoreInv, UNCHANGED <<messages, target, next, draft, answer>>,
         serving' \in BOOLEAN, row' \in [Conversations -> RowStates],
         owner' \in [Conversations -> Turns \union {Nobody}], at' \in [Turns -> Positions]
  PROVE  TypeOK' /\ DOMAIN draft' = Turns
  <1>1. TypeOK /\ DOMAIN draft = Turns
    BY DEF StoreInv
  <1>2. /\ \A c \in Conversations : Ordinals(c)' = Ordinals(c)
        /\ \A t \in Turns : Drafts(t)' = Drafts(t)
    BY DEF Ordinals, Drafts, Pair
  <1>3. QED
    BY <1>1, <1>2 DEF TypeOK

LEMMA CreateStep == ASSUME StoreInv, NEW c \in Conversations, Create(c) PROVE StoreInv'
  <1>1. Paired'
    BY PairedFrame DEF Create
  <1>2. TypeOK' /\ DOMAIN draft' = Turns
    BY TypesFrame DEF StoreInv, Create, TypeOK, callVars, RowStates
  <1>3. Rows \subseteq Rows'
    BY DEF StoreInv, TypeOK, Create, Rows
  <1>4. UNCHANGED <<serving, messages, owner, at, target, next, draft>>
    BY DEF Create, callVars
  <1>5. Locks' /\ Existing'
    BY <1>3, <1>4 DEF StoreInv, Locks, Existing
  <1>6. Numbered'
    BY <1>4, NumberedFrame
  <1>7. QED
    BY <1>1, <1>2, <1>5, <1>6 DEF StoreInv

LEMMA ExpireStep == ASSUME StoreInv, NEW c \in Conversations, Expire(c) PROVE StoreInv'
  <1>1. Paired'
    BY PairedFrame DEF Expire
  <1>2. TypeOK' /\ DOMAIN draft' = Turns
    BY TypesFrame DEF StoreInv, Expire, TypeOK, callVars, RowStates
  <1>3. Rows' = Rows
    BY DEF StoreInv, TypeOK, Expire, Rows
  <1>4. UNCHANGED <<serving, messages, owner, at, target, next, draft>>
    BY DEF Expire, callVars
  <1>5. Locks' /\ Existing'
    BY <1>3, <1>4 DEF StoreInv, Locks, Existing
  <1>6. Numbered'
    BY <1>4, NumberedFrame
  <1>7. QED
    BY <1>1, <1>2, <1>5, <1>6 DEF StoreInv

LEMMA CrashStep == ASSUME StoreInv, Crash PROVE StoreInv'
  <1>1. \A t \in Turns :
          \/ at[t] = "committing" /\ at'[t] = "detached"
          \/ at[t] \in InTransaction /\ at'[t] = "abandoned"
          \/ at[t] \notin InTransaction /\ at'[t] = at[t]
    BY DEF Crash, InTransaction
  <1>2. Paired'
    BY <1>1, PairedFrame DEF Crash, InTransaction
  <1>3. TypeOK' /\ DOMAIN draft' = Turns
    <2>1. at' \in [Turns -> Positions]
      BY DEF StoreInv, TypeOK, Crash, Positions, Orphaned
    <2>2. QED
      BY <2>1, TypesFrame DEF StoreInv, Crash, TypeOK, callVars
  <1>4. /\ \A t \in Turns : at'[t] \in Holding => at[t] \in Holding
        /\ \A t \in Turns : at'[t] \in Drafted => at[t] \in Drafted
        /\ \A t \in Turns : at'[t] \in Unready => at'[t] = at[t]
        /\ \A t \in Turns : at'[t] \notin InTransaction
        /\ \A t \in Turns : at'[t] = "detached" => at[t] \in InTransaction \union {"detached"}
    BY <1>1 DEF Holding, Drafted, Unready, InTransaction
  <1>5. Locks' /\ Existing'
    BY <1>4 DEF StoreInv, Crash, callVars, Locks, Existing, Rows
  <1>6. Numbered'
    <2> SUFFICES ASSUME NEW t \in Turns
                 PROVE  /\ at'[t] \in Unready => draft'[t] = Nothing
                        /\ at'[t] \in Drafted => draft'[t] = Pair(t)'
                        /\ at'[t] \in Drafted \union {"inserting"} =>
                             Ordinals(target[t])' = 0 .. next'[t] - 1
      BY DEF Numbered
    <2>1. /\ UNCHANGED <<target, next, draft, messages>> /\ Pair(t)' = Pair(t)
      BY DEF Crash, callVars, Pair
    <2>2. at'[t] # "inserting"
      BY <1>4 DEF InTransaction
    <2>3. QED
      BY <1>4, <2>1, <2>2 DEF StoreInv, Numbered, Ordinals
  <1>7. QED
    BY <1>2, <1>3, <1>5, <1>6 DEF StoreInv

------------------------------------------------------------------------------
(* The steps of a transaction.                                             *)

\* Every other turn stays where it is.
Elsewhere(t) ==
  \A q \in Turns \ {t} :
    at'[q] = at[q] /\ next'[q] = next[q] /\ draft'[q] = draft[q] /\ target'[q] = target[q]

\* Steps of t that write nothing others can see.
Unseen(t) ==
  /\ UNCHANGED <<serving, row, messages, target>>
  /\ Elsewhere(t)
  /\ at[t] = "ended" => at'[t] = "ended"

LEMMA UnseenFrame ==
  ASSUME StoreInv, NEW t \in Turns, Unseen(t), TypeOK', DOMAIN draft' = Turns,
         \A q \in Turns \ {t} : owner[target[q]] = q => owner'[target[q]] = q,
         at'[t] \in Holding => owner'[target[t]] = t,
         at'[t] \in InTransaction \union {"detached"} => target[t] \in Rows /\ serving,
         at'[t] \in Unready => draft'[t] = Nothing,
         at'[t] \in Drafted => draft'[t] = Pair(t)',
         at'[t] \in Drafted \union {"inserting"} => Ordinals(target[t]) = 0 .. next'[t] - 1
  PROVE  StoreInv'
  <1>1. Paired'
    BY PairedFrame DEF Unseen, Elsewhere, Orphaned
  <1>2. Locks'
    BY DEF StoreInv, Locks, Unseen, Elsewhere
  <1>3. Rows' = Rows
    BY DEF Unseen, Rows
  <1>4. Existing'
    BY <1>3 DEF StoreInv, Existing, Unseen, Elsewhere
  <1>5. \A q \in Turns \ {t} : Pair(q)' = Pair(q)
    BY DEF Unseen, Elsewhere, Pair
  <1>6. \A c \in Conversations : Ordinals(c)' = Ordinals(c)
    BY DEF Unseen, Ordinals
  <1>7. \A q \in Turns : target'[q] = target[q] /\ target[q] \in Conversations
    BY DEF StoreInv, TypeOK, Unseen
  <1>8. Numbered'
    <2> SUFFICES ASSUME NEW q \in Turns
                 PROVE  /\ at'[q] \in Unready => draft'[q] = Nothing
                        /\ at'[q] \in Drafted => draft'[q] = Pair(q)'
                        /\ at'[q] \in Drafted \union {"inserting"} =>
                             Ordinals(target[q])' = 0 .. next'[q] - 1
      BY DEF Numbered
    <2>1. CASE q = t
      BY <1>6, <1>7, <2>1 DEF Unseen, Ordinals
    <2>2. CASE q # t
      BY <1>5, <1>6, <1>7, <2>2 DEF StoreInv, Numbered, Unseen, Elsewhere, Ordinals
    <2>3. QED
      BY <2>1, <2>2
  <1>9. QED
    BY <1>1, <1>2, <1>4, <1>8 DEF StoreInv

LEMMA DraftsElsewhere ==
  ASSUME StoreInv, NEW t \in Turns, Unseen(t), NEW q \in Turns \ {t}
  PROVE  draft'[q] \in Drafts(q)'
  <1>1. Pair(q)' = Pair(q) /\ draft'[q] = draft[q]
    BY DEF Unseen, Elsewhere, Pair
  <1>2. QED
    BY <1>1 DEF StoreInv, TypeOK, Drafts

LEMMA CallStep == ASSUME StoreInv, NEW t \in Turns, CallAppend(t) PROVE StoreInv'
  <1>1. /\ at[t] = "idle" /\ at'[t] = "locking" /\ draft' = draft /\ draft[t] = Nothing
        /\ owner' = owner /\ serving /\ target[t] \in Rows
    BY DEF StoreInv, TypeOK, CallAppend, Goto, callVars, Numbered, Unready, Rows
  <1>2. Unseen(t)
    BY <1>1 DEF StoreInv, TypeOK, CallAppend, Goto, callVars, Unseen, Elsewhere, Orphaned
  <1>3. TypeOK' /\ DOMAIN draft' = Turns
    BY TypesFrame DEF StoreInv, TypeOK, CallAppend, Goto, callVars, Positions, InTransaction
  <1>4. QED
    BY <1>1, <1>2, <1>3, UnseenFrame DEF Holding, Drafted

LEMMA LockStep == ASSUME StoreInv, NEW t \in Turns, Lock(t) PROVE StoreInv'
  <1>1. /\ at[t] = "locking" /\ at'[t] = "reading" /\ draft' = draft /\ draft[t] = Nothing
        /\ owner[target[t]] = Nobody /\ owner' = [owner EXCEPT ![target[t]] = t]
        /\ serving /\ target[t] \in Rows /\ target[t] \in Conversations
    BY DEF StoreInv, TypeOK, Lock, Goto, callVars, Numbered, Unready, Existing, InTransaction
  <1>2. Unseen(t)
    BY <1>1 DEF StoreInv, TypeOK, Lock, Goto, callVars, Unseen, Elsewhere, Orphaned
  <1>3. TypeOK' /\ DOMAIN draft' = Turns
    BY TypesFrame DEF StoreInv, TypeOK, Lock, Goto, callVars, Positions, InTransaction
  <1>4. owner'[target[t]] = t
    BY <1>1 DEF StoreInv, TypeOK
  <1>5. \A q \in Turns \ {t} : owner[target[q]] = q => owner'[target[q]] = q
    BY <1>1, StoreAssumption DEF StoreInv, TypeOK
  <1>6. QED
    BY <1>1, <1>2, <1>3, <1>4, <1>5, UnseenFrame DEF Drafted

LEMMA ReadStep == ASSUME StoreInv, NEW t \in Turns, ReadMax(t) PROVE StoreInv'
  <1>1. /\ at[t] = "reading" /\ at'[t] = "inserting" /\ draft' = draft /\ draft[t] = Nothing
        /\ owner' = owner /\ serving /\ target[t] \in Rows /\ target[t] \in Conversations
        /\ owner[target[t]] = t
    BY DEF StoreInv, TypeOK, ReadMax, Goto, Numbered, Unready, Existing, InTransaction, Locks,
       Holding
  <1>2. next'[t] = IF Ordinals(target[t]) = {} THEN 0 ELSE Max(Ordinals(target[t])) + 1
    BY DEF StoreInv, TypeOK, ReadMax
  <1>3. PICK n \in Nat : Holds(target[t], n)
    BY <1>1 DEF StoreInv, Paired
  <1>4. Ordinals(target[t]) = 0 .. 2 * n - 1 /\ 2 * n \in Nat
    BY <1>3 DEF Holds
  <1>5. next'[t] = 2 * n
    BY <1>2, <1>4, MaxOfInterval
  <1>6. Unseen(t)
    BY <1>1 DEF StoreInv, TypeOK, ReadMax, Goto, Unseen, Elsewhere, Orphaned
  <1>7. TypeOK' /\ DOMAIN draft' = Turns
    <2>1. next' \in [Turns -> Nat]
      BY <1>4, <1>5 DEF StoreInv, TypeOK, ReadMax
    <2>2. \A q \in Turns : draft'[q] \in Drafts(q)'
      BY <1>1, <1>6, DraftsElsewhere DEF Drafts
    <2>3. QED
      BY <2>1, <2>2 DEF StoreInv, TypeOK, ReadMax, Goto, Positions, InTransaction, Ordinals
  <1>8. QED
    BY <1>1, <1>4, <1>5, <1>6, <1>7, UnseenFrame DEF Drafted

LEMMA InsertStep == ASSUME StoreInv, NEW t \in Turns, Insert(t) PROVE StoreInv'
  <1>1. /\ at[t] = "inserting" /\ at'[t] = "updating" /\ draft'[t] = Pair(t)
        /\ owner' = owner /\ next' = next /\ serving /\ target[t] \in Rows
        /\ owner[target[t]] = t /\ Ordinals(target[t]) = 0 .. next[t] - 1
    BY DEF StoreInv, TypeOK, Insert, Goto, Numbered, Existing, InTransaction, Locks, Holding
  <1>2. Unseen(t)
    BY <1>1 DEF StoreInv, TypeOK, Insert, Goto, Unseen, Elsewhere, Orphaned
  <1>3. Pair(t)' = Pair(t)
    BY <1>1 DEF Pair
  <1>4. TypeOK' /\ DOMAIN draft' = Turns
    <2>1. \A q \in Turns : draft'[q] \in Drafts(q)'
      BY <1>1, <1>2, <1>3, DraftsElsewhere DEF Drafts
    <2>2. QED
      BY <2>1 DEF StoreInv, TypeOK, Insert, Goto, Positions, InTransaction, Ordinals
  <1>5. QED
    BY <1>1, <1>2, <1>3, <1>4, UnseenFrame DEF Unready

LEMMA UpdateStep == ASSUME StoreInv, NEW t \in Turns, Update(t) PROVE StoreInv'
  <1>1. /\ at[t] = "updating" /\ at'[t] = "committing" /\ draft' = draft /\ draft[t] = Pair(t)
        /\ owner' = owner /\ next' = next /\ serving /\ target[t] \in Rows
        /\ owner[target[t]] = t /\ Ordinals(target[t]) = 0 .. next[t] - 1
    BY DEF StoreInv, TypeOK, Update, Goto, callVars, Numbered, Existing, InTransaction, Locks,
       Holding, Drafted
  <1>2. Unseen(t)
    BY <1>1 DEF StoreInv, TypeOK, Update, Goto, callVars, Unseen, Elsewhere, Orphaned
  <1>3. Pair(t)' = Pair(t)
    BY <1>1 DEF Pair
  <1>4. TypeOK' /\ DOMAIN draft' = Turns
    <2>1. \A q \in Turns : draft'[q] \in Drafts(q)'
      BY <1>1, <1>2, <1>3, DraftsElsewhere DEF Drafts
    <2>2. QED
      BY <2>1 DEF StoreInv, TypeOK, Update, Goto, callVars, Positions, InTransaction, Ordinals
  <1>5. QED
    BY <1>1, <1>2, <1>3, <1>4, UnseenFrame DEF Unready
\* The end of a transaction, with or without a commit.
Ends(t) ==
  /\ at' = [at EXCEPT ![t] = "ended"]
  /\ draft' = [draft EXCEPT ![t] = Nothing]
  /\ Unlock(t)
  /\ UNCHANGED <<serving, target, next>>

LEMMA EndFrame ==
  ASSUME StoreInv, NEW t \in Turns, Ends(t)
  PROVE  /\ Elsewhere(t) /\ at'[t] = "ended" /\ draft'[t] = Nothing
         /\ \A q \in Turns \ {t} : owner[target[q]] = q => owner'[target[q]] = q
         /\ at' \in [Turns -> Positions] /\ DOMAIN draft' = Turns
         /\ owner' \in [Conversations -> Turns \union {Nobody}]
         /\ \A q \in Turns : draft'[q] \in Drafts(q)'
  <1>1. Elsewhere(t) /\ at'[t] = "ended" /\ draft'[t] = Nothing
    BY DEF StoreInv, TypeOK, Ends, Elsewhere
  <1>2. \A q \in Turns \ {t} : owner[target[q]] = q => owner'[target[q]] = q
    BY DEF StoreInv, TypeOK, Ends, Unlock
  <1>3. /\ at' \in [Turns -> Positions] /\ DOMAIN draft' = Turns
        /\ owner' \in [Conversations -> Turns \union {Nobody}]
    BY DEF StoreInv, TypeOK, Ends, Unlock, Positions
  <1>4. \A q \in Turns : draft'[q] \in Drafts(q)'
    <2> TAKE q \in Turns
    <2>1. CASE q = t
      BY <1>1, <2>1 DEF Drafts
    <2>2. CASE q # t
      <3>1. Pair(q)' = Pair(q) /\ draft'[q] = draft[q]
        BY <1>1, <2>2 DEF Elsewhere, Pair
      <3>2. QED
        BY <3>1 DEF StoreInv, TypeOK, Drafts
    <2>3. QED
      BY <2>1, <2>2
  <1>5. QED
    BY <1>1, <1>2, <1>3, <1>4

LEMMA ReplyType ==
  ASSUME TypeOK, NEW t \in Turns, Reply(t, "ok") \/ Reply(t, "error")
  PROVE  answer' \in [Turns -> {"none", "ok", "error"}]
  BY DEF TypeOK, Reply

LEMMA RollbackStep == ASSUME StoreInv, NEW t \in Turns, Rollback(t) PROVE StoreInv'
  <1>1. Ends(t)
    BY DEF Rollback, Goto, Ends
  <1>2. Unseen(t)
    BY <1>1, EndFrame DEF Rollback, Unseen
  <1>3. TypeOK' /\ DOMAIN draft' = Turns
    BY <1>1, EndFrame, ReplyType DEF Rollback, StoreInv, TypeOK, Ordinals
  <1>4. QED
    BY <1>1, <1>2, <1>3, EndFrame, UnseenFrame DEF Holding, Drafted, Unready, InTransaction

(* What a commit makes of the n pairs that were there.                     *)
LEMMA CommitEffect ==
  ASSUME StoreInv, NEW t \in Turns, Commit(t), NEW n \in Nat, Holds(target[t], n)
  PROVE  /\ Ends(t) /\ target[t] \in Rows /\ Rows' = Rows
         /\ DOMAIN messages' = Conversations
         /\ \A c \in Conversations : c # target[t] => messages'[c] = messages[c]
         /\ Ordinals(target[t])' = 0 .. 2 * n + 1
         /\ \A o \in 0 .. 2 * n - 1 : messages'[target[t]][o] = messages[target[t]][o]
         /\ \A o \in {2 * n, 2 * n + 1} :
              messages'[target[t]][o] \in Message /\ messages'[target[t]][o].turn = t
         /\ messages'[target[t]][2 * n].role = "user"
         /\ messages'[target[t]][2 * n + 1].role = "assistant"
  <1> DEFINE c == target[t]
  <1>1. /\ Ends(t) /\ at[t] \in Drafted /\ at[t] \in InTransaction \union {"detached"}
        /\ c \in Conversations /\ target' = target
    BY DEF Commit, Goto, Ends, Drafted, InTransaction, StoreInv, TypeOK
  <1>2. c \in Rows /\ draft[t] = Pair(t) /\ next[t] = 2 * n
    BY <1>1, NextIsEven DEF StoreInv, Existing, Numbered
  <1>3. row' = [row EXCEPT ![c] = "live"] /\ row \in [Conversations -> RowStates]
    BY DEF Commit, StoreInv, TypeOK
  <1>4. Rows' = Rows
    BY <1>2, <1>3 DEF Rows
  <1>5. /\ messages' = [messages EXCEPT ![c] = Merge(messages[c], Pair(t))]
        /\ DOMAIN messages = Conversations
    BY <1>2 DEF Commit, StoreInv, TypeOK
  <1>6. /\ messages'[c] = Merge(messages[c], Pair(t))
        /\ \A d \in Conversations : d # c => messages'[d] = messages[d]
        /\ DOMAIN messages' = Conversations
    BY <1>1, <1>5
  <1>7. DOMAIN messages[c] = 0 .. 2 * n - 1 /\ DOMAIN Pair(t) = {2 * n, 2 * n + 1}
    BY <1>2 DEF Holds, Ordinals, Pair
  <1>8. DOMAIN messages'[c] = 0 .. 2 * n + 1
    <2>1. DOMAIN messages'[c] = 0 .. 2 * n - 1 \union {2 * n, 2 * n + 1}
      BY <1>6, <1>7 DEF Merge
    <2>2. QED
      BY <2>1
  <1>9. \A o \in 0 .. 2 * n - 1 : messages'[c][o] = messages[c][o]
    <2> TAKE o \in 0 .. 2 * n - 1
    <2>1. o \notin {2 * n, 2 * n + 1}
      OBVIOUS
    <2>2. QED
      BY <1>6, <1>7, <2>1 DEF Merge
  <1>10. \A o \in {2 * n, 2 * n + 1} : messages'[c][o] \in Message /\ messages'[c][o].turn = t
    <2> TAKE o \in {2 * n, 2 * n + 1}
    <2>1. messages'[c][o] = Pair(t)[o]
      BY <1>6, <1>7 DEF Merge
    <2>2. Pair(t)[o] = [turn |-> t, role |-> IF o = next[t] THEN "user" ELSE "assistant"]
      BY <1>2 DEF Pair
    <2>3. QED
      BY <2>1, <2>2 DEF Message
  <1>11. messages'[c][2 * n].role = "user" /\ messages'[c][2 * n + 1].role = "assistant"
    <2>1. 2 * n + 1 # 2 * n
      OBVIOUS
    <2>2. messages'[c][2 * n] = Pair(t)[2 * n] /\ messages'[c][2 * n + 1] = Pair(t)[2 * n + 1]
      BY <1>6, <1>7 DEF Merge
    <2>3. QED
      BY <1>2, <2>1, <2>2 DEF Pair
  <1>12. QED
    BY <1>1, <1>2, <1>4, <1>6, <1>8, <1>9, <1>10, <1>11 DEF Ordinals

LEMMA CommitStep == ASSUME StoreInv, NEW t \in Turns, Commit(t) PROVE StoreInv'
  <1>1. target[t] \in Conversations /\ at[t] \in Drafted /\ at[t] \in Holding
    BY DEF StoreInv, TypeOK, Commit, Drafted, Holding
  <1>2. PICK n \in Nat : Holds(target[t], n)
    BY <1>1 DEF StoreInv, Paired
  <1> DEFINE c == target[t]
  <1>3. /\ Ends(t) /\ c \in Rows /\ Rows' = Rows
        /\ DOMAIN messages' = Conversations
        /\ \A d \in Conversations : d # c => messages'[d] = messages[d]
        /\ DOMAIN messages'[c] = 0 .. 2 * n + 1
        /\ \A o \in 0 .. 2 * n - 1 : messages'[c][o] = messages[c][o]
        /\ \A o \in {2 * n, 2 * n + 1} : messages'[c][o] \in Message /\ messages'[c][o].turn = t
    <2>1. /\ Ends(t) /\ c \in Rows /\ Rows' = Rows
          /\ DOMAIN messages' = Conversations
          /\ \A d \in Conversations : d # c => messages'[d] = messages[d]
          /\ Ordinals(c)' = 0 .. 2 * n + 1
          /\ \A o \in 0 .. 2 * n - 1 : messages'[c][o] = messages[c][o]
          /\ \A o \in {2 * n, 2 * n + 1} :
               messages'[c][o] \in Message /\ messages'[c][o].turn = t
          /\ messages'[c][2 * n].role = "user"
          /\ messages'[c][2 * n + 1].role = "assistant"
      BY <1>2, CommitEffect
    <2>2. target'[t] = c
      BY <2>1 DEF Ends
    <2>3. QED
      BY <2>1, <2>2 DEF Ordinals
  <1>4. /\ Elsewhere(t) /\ at'[t] = "ended" /\ draft'[t] = Nothing
        /\ \A q \in Turns \ {t} : owner[target[q]] = q => owner'[target[q]] = q
    BY <1>3, EndFrame
  <1>5. UNCHANGED <<serving, target, next>>
    BY <1>3 DEF Ends
  <1>6. \A o \in 0 .. 2 * n + 1 : o \in 0 .. 2 * n - 1 \/ o \in {2 * n, 2 * n + 1}
    OBVIOUS
  <1>7. TypeOK' /\ DOMAIN draft' = Turns
    <2>1. \A d \in Conversations :
            DOMAIN messages'[d] \subseteq Nat
            /\ \A o \in DOMAIN messages'[d] : messages'[d][o] \in Message
      <3> TAKE d \in Conversations
      <3>1. DOMAIN messages[d] \subseteq Nat /\ \A o \in DOMAIN messages[d] : messages[d][o] \in Message
        BY DEF StoreInv, TypeOK, Ordinals
      <3>2. CASE d # c
        BY <1>3, <3>1, <3>2
      <3>3. CASE d = c
        <4>1. DOMAIN messages[c] = 0 .. 2 * n - 1
          BY <1>2 DEF Holds, Ordinals
        <4>2. 0 .. 2 * n + 1 \subseteq Nat
          OBVIOUS
        <4>3. QED
          BY <1>3, <1>6, <3>1, <3>3, <4>1, <4>2
      <3>4. QED
        BY <3>2, <3>3
    <2>2. row' \in [Conversations -> RowStates]
      BY DEF StoreInv, TypeOK, Commit, RowStates
    <2>3. answer' \in [Turns -> {"none", "ok", "error"}]
      BY ReplyType DEF StoreInv, Commit
    <2>4. /\ at' \in [Turns -> Positions] /\ DOMAIN draft' = Turns
          /\ owner' \in [Conversations -> Turns \union {Nobody}]
          /\ \A q \in Turns : draft'[q] \in Drafts(q)'
      BY <1>3, EndFrame
    <2>5. QED
      BY <1>3, <1>5, <2>1, <2>2, <2>3, <2>4 DEF StoreInv, TypeOK, Ordinals
  <1>8. Locks'
    BY <1>4, <1>5 DEF StoreInv, Locks, Elsewhere, Holding
  <1>9. Existing'
    BY <1>3, <1>4, <1>5 DEF StoreInv, Existing, Elsewhere, InTransaction
  <1>10. Numbered'
    <2> SUFFICES ASSUME NEW q \in Turns
                 PROVE  /\ at'[q] \in Unready => draft'[q] = Nothing
                        /\ at'[q] \in Drafted => draft'[q] = Pair(q)'
                        /\ at'[q] \in Drafted \union {"inserting"} =>
                             Ordinals(target[q])' = 0 .. next'[q] - 1
      BY DEF Numbered
    <2>1. CASE q = t
      BY <1>4, <2>1 DEF Drafted, Unready
    <2>2. CASE q # t
      <3>1. /\ Pair(q)' = Pair(q) /\ draft'[q] = draft[q] /\ at'[q] = at[q] /\ next'[q] = next[q]
            /\ target'[q] = target[q] /\ target[q] \in Conversations
        BY <1>4, <1>5, <2>2 DEF Elsewhere, Pair, StoreInv, TypeOK
      <3>2. at[q] \in Drafted \union {"inserting"} => target[q] # c
        BY <1>1, <2>2, OneHolder DEF Drafted, Holding
      <3>3. QED
        BY <1>3, <3>1, <3>2 DEF StoreInv, Numbered, Ordinals
    <2>3. QED
      BY <2>1, <2>2
  <1>11. Paired'
    <2>1. \A q \in Turns : at[q] = "ended" => at'[q] = "ended"
      BY <1>4 DEF Elsewhere
    <2>2. ASSUME NEW d \in Conversations PROVE \E m \in Nat : Holds(d, m)'
      <3>1. CASE d # c
        <4>1. PICK m \in Nat : Holds(d, m)
          BY DEF StoreInv, Paired
        <4>2. \A o \in 0 .. 2 * m - 1 : messages[d][o].turn \in Turns
          BY <4>1 DEF StoreInv, TypeOK, Holds, Message
        <4>3. Holds(d, m)'
          BY <1>3, <2>1, <3>1, <4>1, <4>2 DEF Holds, Ordinals
        <4>4. QED
          BY <4>3
      <3>2. CASE d = c
        <4>1. \A o \in 0 .. 2 * n - 1 : messages[c][o].turn \in Turns /\ at[messages[c][o].turn] = "ended"
          BY <1>1, <1>2 DEF StoreInv, TypeOK, Holds, Message
        <4>2. \A o \in 0 .. 2 * n + 1 : at'[messages'[c][o].turn] = "ended"
          BY <1>3, <1>4, <1>6, <2>1, <4>1
        <4>3. 2 * (n + 1) - 1 = 2 * n + 1 /\ n + 1 \in Nat
          OBVIOUS
        <4>4. Holds(d, n + 1)'
          BY <1>3, <1>5, <3>2, <4>2, <4>3 DEF Holds, Ordinals
        <4>5. QED
          BY <4>3, <4>4
      <3>3. QED
        BY <3>1, <3>2
    <2>3. QED
      BY <2>2 DEF Paired
  <1>12. QED
    BY <1>7, <1>8, <1>9, <1>10, <1>11 DEF StoreInv

------------------------------------------------------------------------------
(* The process starts again.                                               *)
Gone == {c \in Rows : row[c] = "expired"}

LEMMA InitializeEffect ==
  ASSUME StoreInv, Initialize
  PROVE  /\ UNCHANGED <<owner, at, target, next, draft, answer>> /\ serving'
         /\ Gone \subseteq Rows /\ Rows' = Rows \ Gone
         /\ \A t \in Turns : at[t] \notin InTransaction
         /\ \A t \in Turns : at[t] = "detached" => target[t] \in Rows \ Gone
         /\ row' \in [Conversations -> RowStates] /\ DOMAIN messages' = Conversations
         /\ \A c \in Gone : row'[c] = "deleted" /\ messages'[c] = Nothing
         /\ \A c \in Conversations \ Gone : row'[c] = row[c] /\ messages'[c] = messages[c]
  <1>1. /\ UNCHANGED <<owner, at, target, next, draft, answer>> /\ serving'
        /\ \A c \in Gone : owner[c] = Nobody
        /\ row' = [c \in Conversations |-> IF c \in Gone THEN "deleted" ELSE row[c]]
        /\ messages' = [c \in Conversations |-> IF c \in Gone THEN Nothing ELSE messages[c]]
    BY DEF Initialize, callVars, Gone
  <1>2. Gone \subseteq Rows /\ Rows \subseteq Conversations /\ row \in [Conversations -> RowStates]
    BY DEF Gone, Rows, StoreInv, TypeOK
  <1>3. Rows' = Rows \ Gone
    BY <1>1, <1>2 DEF Rows
  <1>4. \A t \in Turns : at[t] \notin InTransaction
    BY DEF StoreInv, Existing, Initialize
  <1>5. \A t \in Turns : at[t] = "detached" => target[t] \in Rows \ Gone
    BY <1>1, StoreAssumption DEF StoreInv, Existing, Locks, Holding
  <1>6. QED
    BY <1>1, <1>2, <1>3, <1>4, <1>5 DEF RowStates

LEMMA InitializeStep == ASSUME StoreInv, Initialize PROVE StoreInv'
  <1>1. /\ UNCHANGED <<owner, at, target, next, draft, answer>> /\ serving'
        /\ Gone \subseteq Rows /\ Rows' = Rows \ Gone
        /\ \A t \in Turns : at[t] \notin InTransaction
        /\ \A t \in Turns : at[t] = "detached" => target[t] \in Rows \ Gone
        /\ row' \in [Conversations -> RowStates] /\ DOMAIN messages' = Conversations
        /\ \A c \in Gone : row'[c] = "deleted" /\ messages'[c] = Nothing
        /\ \A c \in Conversations \ Gone : row'[c] = row[c] /\ messages'[c] = messages[c]
    BY InitializeEffect
  <1>2. DOMAIN Nothing = {}
    BY DEF Nothing
  <1>3. \A t \in Turns : Pair(t)' = Pair(t)
    BY <1>1 DEF Pair
  <1>4. TypeOK' /\ DOMAIN draft' = Turns
    <2>1. \A d \in Conversations :
            DOMAIN messages'[d] \subseteq Nat
            /\ \A o \in DOMAIN messages'[d] : messages'[d][o] \in Message
      BY <1>1, <1>2 DEF StoreInv, TypeOK, Ordinals
    <2>2. serving' \in BOOLEAN
      BY DEF Initialize
    <2>3. QED
      BY <1>1, <1>3, <2>1, <2>2 DEF StoreInv, TypeOK, Ordinals, Drafts
  <1>5. Locks' /\ Existing'
    BY <1>1 DEF StoreInv, Locks, Existing
  <1>6. Numbered'
    <2> SUFFICES ASSUME NEW t \in Turns
                 PROVE  /\ at'[t] \in Unready => draft'[t] = Nothing
                        /\ at'[t] \in Drafted => draft'[t] = Pair(t)'
                        /\ at'[t] \in Drafted \union {"inserting"} =>
                             Ordinals(target[t])' = 0 .. next'[t] - 1
      BY DEF Numbered
    <2>1. at[t] \in Drafted \union {"inserting"} => at[t] = "detached"
      BY <1>1 DEF Drafted, InTransaction
    <2>2. at[t] = "detached" => messages'[target[t]] = messages[target[t]]
      BY <1>1 DEF StoreInv, TypeOK
    <2>3. QED
      BY <1>1, <1>3, <2>1, <2>2 DEF StoreInv, Numbered, Ordinals
  <1>7. Paired'
    <2>1. ASSUME NEW d \in Conversations PROVE \E m \in Nat : Holds(d, m)'
      <3>1. CASE d \in Gone
        <4>1. Holds(d, 0)'
          BY <1>1, <1>2, <3>1 DEF Holds, Ordinals
        <4>2. QED
          BY <4>1
      <3>2. CASE d \notin Gone
        <4>1. PICK m \in Nat : Holds(d, m)
          BY DEF StoreInv, Paired
        <4>2. Holds(d, m)'
          BY <1>1, <3>2, <4>1 DEF Holds, Ordinals
        <4>3. QED
          BY <4>2
      <3>3. QED
        BY <3>1, <3>2
    <2>2. QED
      BY <2>1 DEF Paired
  <1>8. QED
    BY <1>4, <1>5, <1>6, <1>7 DEF StoreInv

LEMMA StoreStep == StoreInv /\ [Next]_vars => StoreInv'
  <1> SUFFICES ASSUME StoreInv, [Next]_vars PROVE StoreInv'
    OBVIOUS
  <1>1. CASE UNCHANGED vars
    <2>1. Paired'
      BY <1>1, PairedFrame DEF vars
    <2>2. UNCHANGED <<serving, row, messages, owner, at, target, next, draft, answer>>
      BY <1>1 DEF vars, callVars
    <2>3. TypeOK' /\ DOMAIN draft' = Turns
      BY <2>2, TypesFrame DEF StoreInv, TypeOK
    <2>4. Locks' /\ Existing'
      BY <2>2 DEF StoreInv, Locks, Existing, Rows
    <2>5. Numbered'
      BY <2>2, NumberedFrame
    <2>6. QED
      BY <2>1, <2>3, <2>4, <2>5 DEF StoreInv
  <1>2. QED
    BY <1>1, CallStep, LockStep, ReadStep, InsertStep, UpdateStep, CommitStep, RollbackStep,
       CreateStep, ExpireStep, CrashStep, InitializeStep DEF Next, Statement

LEMMA AlwaysStore == Spec => []StoreInv
  BY StoreInit, StoreStep, PTL DEF Spec

(* The types of the store's variables.                                     *)
THEOREM StoreTypes == Spec => []TypeOK
  <1>1. StoreInv => TypeOK
    BY DEF StoreInv
  <1>2. QED
    BY <1>1, AlwaysStore, PTL

(* Nobody takes an ordinal that a transaction has read.                    *)
THEOREM StoreHasNoConflict == Spec => []NoOrdinalConflict
  <1>1. ASSUME StoreInv, NEW t \in Turns, at[t] = "inserting" PROVE ~Conflict(t)
    <2>1. Ordinals(target[t]) = 0 .. next[t] - 1 /\ next[t] \in Nat
      BY <1>1 DEF StoreInv, TypeOK, Numbered
    <2>2. DOMAIN Pair(t) = {next[t], next[t] + 1}
      BY DEF Pair
    <2>3. QED
      BY <2>1, <2>2 DEF Conflict
  <1>2. StoreInv => NoOrdinalConflict
    BY <1>1 DEF NoOrdinalConflict
  <1>3. QED
    BY <1>2, AlwaysStore, PTL
------------------------------------------------------------------------------
(* The log.                                                                *)

(* The messages of a conversation, taken in twos.                          *)
LEMMA HistoryOfPairs ==
  ASSUME StoreInv, NEW c \in Conversations, NEW n \in Nat, Holds(c, n)
  PROVE  /\ TurnsIn(c) = n
         /\ History(c) = [i \in 1 .. n |-> messages[c][2 * i - 2].turn]
         /\ \A i \in 1 .. n : /\ 2 * i - 2 \in Ordinals(c)
                              /\ History(c)[i] \in Turns /\ at[History(c)[i]] = "ended"
  <1>1. Cardinality(0 .. 2 * n - 1) = 2 * n
    <2>1. /\ 0 \in Int /\ 2 * n - 1 \in Int
          /\ (IF 0 > 2 * n - 1 THEN 0 ELSE (2 * n - 1) - 0 + 1) = 2 * n
      OBVIOUS
    <2>2. QED
      BY ONLY <2>1, FS_Interval, Zenon
  <1>2. TurnsIn(c) = n
    BY <1>1 DEF TurnsIn, Holds
  <1>3. History(c) = [i \in 1 .. n |-> messages[c][2 * i - 2].turn]
    BY <1>2 DEF History, TurnAt
  <1>4. ASSUME NEW i \in 1 .. n
        PROVE  /\ 2 * i - 2 \in Ordinals(c)
               /\ History(c)[i] \in Turns /\ at[History(c)[i]] = "ended"
    <2>1. 2 * i - 2 \in 0 .. 2 * n - 1
      OBVIOUS
    <2>2. 2 * i - 2 \in Ordinals(c) /\ at[messages[c][2 * i - 2].turn] = "ended"
      BY <2>1 DEF Holds
    <2>3. messages[c][2 * i - 2].turn \in Turns
      BY <2>2 DEF StoreInv, TypeOK, Message
    <2>4. QED
      BY <1>3, <2>2, <2>3
  <1>5. QED
    BY <1>2, <1>3, <1>4

(* A function over 1 .. n is a sequence of its values.                     *)
LEMMA IsSequence ==
  ASSUME NEW S, NEW n \in Nat, NEW f, f = [i \in 1 .. n |-> f[i]],
         \A i \in 1 .. n : f[i] \in S
  PROVE  f \in Seq(S) /\ Len(f) = n
  <1>1. f \in [1 .. n -> S]
    OBVIOUS
  <1>2. QED
    BY <1>1

(* A commit adds its turn to the end.                                      *)
LEMMA CommitAppends ==
  ASSUME StoreInv, StoreInv', NEW t \in Turns, Commit(t)
  PROVE  /\ target[t] \in Rows /\ Rows' = Rows
         /\ History(target[t])' = Append(History(target[t]), t)
         /\ \A c \in Conversations : c # target[t] => History(c)' = History(c)
  <1> DEFINE c == target[t]
  <1>1. c \in Conversations /\ at[t] # "ended"
    BY DEF StoreInv, TypeOK, Commit
  <1>2. PICK n \in Nat : Holds(c, n)
    BY <1>1 DEF StoreInv, Paired
  <1>3. /\ Ends(t) /\ c \in Rows /\ Rows' = Rows
        /\ \A d \in Conversations : d # c => messages'[d] = messages[d]
        /\ DOMAIN messages'[c] = 0 .. 2 * n + 1
        /\ \A o \in 0 .. 2 * n - 1 : messages'[c][o] = messages[c][o]
        /\ messages'[c][2 * n].turn = t
    BY <1>2, CommitEffect DEF Ordinals, Ends
  <1>4. ASSUME NEW d \in Conversations, d # c PROVE History(d)' = History(d)
    BY <1>3, <1>4 DEF History, TurnsIn, TurnAt, Ordinals
  <1>5. History(c) = [i \in 1 .. n |-> messages[c][2 * i - 2].turn]
        /\ \A i \in 1 .. n : History(c)[i] \in Turns
    BY <1>1, <1>2, HistoryOfPairs
  <1>6. History(c) \in Seq(Turns) /\ Len(History(c)) = n
    <2>1. History(c) = [i \in 1 .. n |-> History(c)[i]]
      BY <1>5
    <2>2. QED
      BY <1>2, <1>5, <2>1, IsSequence
  <1>7. History(c)' = [i \in 1 .. n + 1 |-> messages'[c][2 * i - 2].turn]
    <2>1. DOMAIN messages'[c] = 0 .. 2 * (n + 1) - 1
      BY <1>3
    <2>2. Cardinality(0 .. 2 * (n + 1) - 1) = 2 * (n + 1)
      <3>1. /\ 0 \in Int /\ 2 * (n + 1) - 1 \in Int
            /\ (IF 0 > 2 * (n + 1) - 1 THEN 0 ELSE (2 * (n + 1) - 1) - 0 + 1) = 2 * (n + 1)
        OBVIOUS
      <3>2. QED
        BY ONLY <3>1, FS_Interval, Zenon
    <2>3. Cardinality(DOMAIN messages'[c]) \div 2 = n + 1
      BY <2>1, <2>2
    <2>4. target' = target
      BY <1>3 DEF Ends
    <2>5. QED
      BY <2>3, <2>4 DEF History, TurnsIn, TurnAt, Ordinals
  <1>8. ASSUME NEW i \in 1 .. n PROVE messages'[c][2 * i - 2].turn = History(c)[i]
    <2>1. 2 * i - 2 \in 0 .. 2 * n - 1
      OBVIOUS
    <2>2. QED
      BY <1>3, <1>5, <2>1
  <1>9. 2 * (n + 1) - 2 = 2 * n
    OBVIOUS
  <1>10. History(c)' \in Seq(Turns) /\ Len(History(c)') = n + 1
         /\ (\A i \in 1 .. n : History(c)'[i] = History(c)[i]) /\ History(c)'[n + 1] = t
    <2>1. \A i \in 1 .. n + 1 : i \in 1 .. n \/ i = n + 1
      OBVIOUS
    <2>2. \A i \in 1 .. n : History(c)'[i] = History(c)[i] /\ History(c)'[i] \in Turns
      <3> TAKE i \in 1 .. n
      <3>1. i \in 1 .. n + 1
        BY <1>2
      <3>2. History(c)'[i] = messages'[c][2 * i - 2].turn
        BY <1>7, <3>1
      <3>3. History(c)[i] \in Turns
        BY <1>5
      <3>4. QED
        BY <1>8, <3>2, <3>3
    <2>3. History(c)'[n + 1] = t
      BY <1>3, <1>7, <1>9
    <2>4. History(c)' = [i \in 1 .. n + 1 |-> History(c)'[i]]
      BY <1>7
    <2>5. \A i \in 1 .. n + 1 : History(c)'[i] \in Turns
      BY <2>1, <2>2, <2>3
    <2>6. n + 1 \in Nat
      OBVIOUS
    <2>7. History(c)' \in Seq(Turns) /\ Len(History(c)') = n + 1
      BY <2>4, <2>5, <2>6, IsSequence
    <2>8. QED
      BY <2>2, <2>3, <2>7
  <1>11. /\ Append(History(c), t) \in Seq(Turns) /\ Len(Append(History(c), t)) = n + 1
         /\ \A i \in 1 .. n : Append(History(c), t)[i] = History(c)[i]
         /\ Append(History(c), t)[n + 1] = t
    BY <1>6, AppendProperties
  <1>12. \A i \in 1 .. n + 1 : History(c)'[i] = Append(History(c), t)[i]
    <2>1. \A i \in 1 .. n + 1 : i \in 1 .. n \/ i = n + 1
      OBVIOUS
    <2>2. QED
      BY <1>10, <1>11, <2>1
  <1>13. History(c)' = Append(History(c), t)
    BY <1>10, <1>11, <1>12, SeqEqual
  <1>14. QED
    BY <1>3, <1>4, <1>13

\* Steps that neither the rows nor the messages take part in.
LEMMA Hidden ==
  ASSUME NEW t \in Turns,
         \/ CallAppend(t) \/ Lock(t) \/ ReadMax(t) \/ Insert(t) \/ Update(t) \/ Rollback(t)
  PROVE  UNCHANGED <<row, messages>>
  BY DEF CallAppend, Lock, ReadMax, Insert, Update, Rollback, callVars

LEMMA HiddenStutters ==
  ASSUME messages' = messages
  PROVE  [c \in Conversations |-> History(c)]' = [c \in Conversations |-> History(c)]
  BY DEF History, TurnsIn, TurnAt, Ordinals

LEMMA StepLogs ==
  ASSUME StoreInv, StoreInv', [Next]_vars
  PROVE  Log!Next \/ UNCHANGED Log!LogVars
  <1> DEFINE log == [c \in Conversations |-> History(c)]
  <1>1. ASSUME UNCHANGED <<row, messages>> PROVE UNCHANGED Log!LogVars
    BY <1>1, HiddenStutters DEF Log!LogVars, Rows
  <1>2. ASSUME NEW t \in Turns, Commit(t) PROVE Log!Next
    <2>1. /\ target[t] \in Rows /\ Rows' = Rows
          /\ History(target[t])' = Append(History(target[t]), t)
          /\ \A c \in Conversations : c # target[t] => History(c)' = History(c)
      BY <1>2, CommitAppends
    <2>2. at[t] # "ended" /\ target[t] \in Conversations
      BY <1>2 DEF Commit, StoreInv, TypeOK
    <2>3. ASSUME NEW d \in Conversations, NEW i \in 1 .. Len(log[d]) PROVE log[d][i] # t
      <3>1. PICK n \in Nat : Holds(d, n)
        BY DEF StoreInv, Paired
      <3>2. /\ log[d] = [j \in 1 .. n |-> messages[d][2 * j - 2].turn]
            /\ \A j \in 1 .. n : log[d][j] \in Turns /\ at[log[d][j]] = "ended"
        BY <3>1, HistoryOfPairs
      <3>3. Len(log[d]) = n
        BY <3>2
      <3>4. QED
        BY <2>2, <3>2, <3>3
    <2>4. log' = [log EXCEPT ![target[t]] = Append(@, t)]
      <3>1. log' = [d \in Conversations |-> History(d)']
        OBVIOUS
      <3>2. ASSUME NEW d \in Conversations
            PROVE  History(d)' = IF d = target[t] THEN Append(log[d], t) ELSE log[d]
        <4>1. log[d] = History(d)
          OBVIOUS
        <4>2. CASE d = target[t]
          <5>1. d = target'[t]
            BY <1>2, <4>2 DEF Commit
          <5>2. QED
            BY <2>1, <4>1, <4>2, <5>1
        <4>3. CASE d # target[t]
          BY <2>1, <4>1, <4>3
        <4>4. QED
          BY <4>2, <4>3
      <3>3. [log EXCEPT ![target[t]] = Append(@, t)]
              = [d \in Conversations |-> IF d = target[t] THEN Append(log[d], t) ELSE log[d]]
        OBVIOUS
      <3>4. QED
        BY <3>1, <3>2, <3>3
    <2> HIDE DEF log
    <2>5. Log!AppendTurn(target[t], t)
      BY <2>1, <2>3, <2>4 DEF Log!AppendTurn, log
    <2>6. QED
      BY <2>2, <2>5 DEF Log!Next
  <1>3. ASSUME Initialize PROVE Log!Next
    <2>1. /\ Gone \subseteq Rows /\ Rows' = Rows \ Gone
          /\ \A c \in Gone : messages'[c] = Nothing
          /\ \A c \in Conversations \ Gone : messages'[c] = messages[c]
      BY <1>3, InitializeEffect
    <2>2. ASSUME NEW c \in Conversations
          PROVE  History(c)' = IF c \in Gone THEN <<>> ELSE History(c)
      <3>1. CASE c \in Gone
        <4>1. messages'[c] = Nothing /\ DOMAIN Nothing = {} /\ Cardinality({}) = 0
          BY <2>1, <3>1, FS_EmptySet DEF Nothing
        <4>2. TurnsIn(c)' = 0
          BY <4>1 DEF TurnsIn, Ordinals
        <4>3. QED
          BY <3>1, <4>2 DEF History
      <3>2. CASE c \notin Gone
        BY <2>1, <3>2 DEF History, TurnsIn, TurnAt, Ordinals
      <3>3. QED
        BY <3>1, <3>2
    <2>3. Log!Purge(Gone)
      BY <2>1, <2>2 DEF Log!Purge
    <2>4. QED
      BY <2>1, <2>3 DEF Log!Next
  <1>4. ASSUME NEW c \in Conversations, Create(c) PROVE Log!Next
    <2>1. Rows' = Rows \union {c} /\ c \notin Rows /\ messages' = messages
      BY <1>4 DEF Create, Rows, StoreInv, TypeOK
    <2>2. Log!Create(c)
      BY <2>1, HiddenStutters DEF Log!Create
    <2>3. QED
      BY <2>2 DEF Log!Next
  <1>5. ASSUME NEW c \in Conversations, Expire(c) PROVE UNCHANGED Log!LogVars
    <2>1. Rows' = Rows /\ messages' = messages
      BY <1>5 DEF Expire, Rows, StoreInv, TypeOK
    <2>2. QED
      BY <2>1, HiddenStutters DEF Log!LogVars
  <1>6. CASE Crash \/ UNCHANGED vars
    BY <1>1, <1>6 DEF Crash, vars
  <1>7. QED
    BY <1>1, <1>2, <1>3, <1>4, <1>5, <1>6, Hidden DEF Next, Statement

(* The transactions of append_turn amount to a log that whole turns are    *)
(* appended to, atomically and once, through every crash, roll-back and    *)
(* clean-up (chat/storage.py:172-224).                                     *)
THEOREM StoreImplementsLog == Spec => LogKept
  <1>1. Init => Log!Init
    <2> SUFFICES ASSUME Init PROVE Log!Init
      OBVIOUS
    <2>1. Rows = {}
      BY DEF Init, Rows
    <2>2. \A c \in Conversations : History(c) = <<>>
      <3> TAKE c \in Conversations
      <3>1. Ordinals(c) = {} /\ Cardinality({}) = 0
        BY FS_EmptySet DEF Init, Ordinals, Nothing
      <3>2. TurnsIn(c) = 0
        BY <3>1 DEF TurnsIn
      <3>3. QED
        BY <3>2 DEF History
    <2>3. QED
      BY <2>1, <2>2 DEF Log!Init
  <1>2. StoreInv /\ StoreInv' /\ [Next]_vars => [Log!Next]_(Log!LogVars)
    BY StepLogs
  <1>3. QED
    BY <1>1, <1>2, AlwaysStore, PTL DEF Spec, LogKept, Log!Spec
------------------------------------------------------------------------------
(* Answers.                                                                *)

\* The first message of the turn is in its conversation, at an even ordinal.
Written(t) ==
  \E i \in Nat : 2 * i \in Ordinals(target[t]) /\ messages[target[t]][2 * i].turn = t

\* Who was told "ok" has nothing left to do.
Answered ==
  \A t \in Turns :
    answer[t] = "ok" => at[t] = "ended" /\ (row[target[t]] = "deleted" \/ Written(t))

\* What a step does to a conversation: its old messages stay, or it is deleted
\* for good.
Preserves(c) ==
  \/ row'[c] = "deleted"
  \/ \A o \in Ordinals(c) : o \in DOMAIN messages'[c] /\ messages'[c][o] = messages[c][o]

LEMMA AnsweredFrame ==
  ASSUME StoreInv, Answered, NEW t \in Turns, target' = target, Preserves(target[t]),
         row[target[t]] = "deleted" => row'[target[t]] = "deleted",
         answer[t] = "ok"
  PROVE  row'[target'[t]] = "deleted" \/ Written(t)'
  <1>1. CASE row'[target[t]] = "deleted"
    BY <1>1
  <1>2. CASE row'[target[t]] # "deleted"
    <2>1. PICK i \in Nat : 2 * i \in Ordinals(target[t]) /\ messages[target[t]][2 * i].turn = t
      BY <1>2 DEF Answered, Written
    <2>2. 2 * i \in DOMAIN messages'[target[t]]
          /\ messages'[target[t]][2 * i] = messages[target[t]][2 * i]
      BY <1>2, <2>1 DEF Preserves
    <2>3. QED
      BY <2>1, <2>2 DEF Written, Ordinals
  <1>3. QED
    BY <1>1, <1>2

LEMMA AnsweredStep ==
  ASSUME StoreInv, Answered, [Next]_vars
  PROVE  Answered'
  <1> SUFFICES ASSUME NEW t \in Turns, answer'[t] = "ok"
               PROVE  at'[t] = "ended" /\ (row'[target'[t]] = "deleted" \/ Written(t)')
    BY DEF Answered
  <1> USE DEF StoreInv, TypeOK
  <1>1. CASE UNCHANGED <<row, messages, answer, target>> /\ (at[t] = "ended" => at'[t] = "ended")
    <2>1. answer[t] = "ok"
      BY <1>1
    <2>2. Preserves(target[t])
      BY <1>1 DEF Preserves, Ordinals
    <2>3. QED
      BY <1>1, <2>1, <2>2, AnsweredFrame DEF Answered
  <1>2. ASSUME NEW q \in Turns, CallAppend(q) \/ Lock(q) \/ ReadMax(q) \/ Insert(q) \/ Update(q)
        PROVE  UNCHANGED <<row, messages, answer, target>> /\ (at[t] = "ended" => at'[t] = "ended")
    BY <1>2 DEF CallAppend, Lock, ReadMax, Insert, Update, Goto, callVars
  <1>3. CASE Crash \/ UNCHANGED vars
    BY <1>1, <1>3 DEF Crash, vars, callVars, InTransaction
  <1>4. ASSUME NEW q \in Turns, Rollback(q) PROVE at'[t] = "ended" /\ (row'[target'[t]] = "deleted" \/ Written(t)')
    <2>1. /\ UNCHANGED <<row, messages, target>> /\ at' = [at EXCEPT ![q] = "ended"]
          /\ at[q] \in InTransaction \union Orphaned
          /\ answer' = [answer EXCEPT ![q] = IF at[q] \in InTransaction THEN "error" ELSE @]
      BY <1>4 DEF Rollback, Goto, Reply
    <2>2. answer[t] = "ok"
      BY <2>1
    <2>3. Preserves(target[t])
      BY <2>1 DEF Preserves, Ordinals
    <2>4. QED
      BY <2>1, <2>2, <2>3, AnsweredFrame DEF Answered
  <1>5. ASSUME NEW q \in Turns, Commit(q) PROVE at'[t] = "ended" /\ (row'[target'[t]] = "deleted" \/ Written(t)')
    <2>1. PICK n \in Nat : Holds(target[q], n)
      BY DEF Paired
    <2>2. /\ Ends(q) /\ target[q] \in Rows
          /\ \A c \in Conversations : c # target[q] => messages'[c] = messages[c]
          /\ Ordinals(target[q])' = 0 .. 2 * n + 1
          /\ \A o \in 0 .. 2 * n - 1 : messages'[target[q]][o] = messages[target[q]][o]
          /\ messages'[target[q]][2 * n].turn = q
      BY <1>5, <2>1, CommitEffect
    <2>3. /\ target' = target /\ at' = [at EXCEPT ![q] = "ended"]
          /\ row' = [row EXCEPT ![target[q]] = "live"] /\ row[target[q]] # "deleted"
          /\ (answer' = [answer EXCEPT ![q] = IF at[q] \in InTransaction THEN "ok" ELSE @]
              \/ answer' = [answer EXCEPT ![q] = IF at[q] \in InTransaction THEN "error" ELSE @])
      BY <1>5, <2>2 DEF Commit, Ends, Rows, Reply
    <2>4. DOMAIN messages'[target[q]] = 0 .. 2 * n + 1 /\ Ordinals(target[q]) = 0 .. 2 * n - 1
      BY <2>1, <2>2, <2>3 DEF Ordinals, Holds
    <2>5. CASE t = q
      <3>1. 2 * n \in 0 .. 2 * n + 1
        OBVIOUS
      <3>2. Written(t)'
        BY <2>2, <2>3, <2>4, <2>5, <3>1 DEF Written, Ordinals
      <3>3. QED
        BY <2>3, <2>5, <3>2
    <2>6. CASE t # q
      <3>1. answer[t] = "ok"
        BY <2>3, <2>6
      <3>2. Preserves(target[t])
        <4>1. CASE target[t] = target[q]
          <5>1. \A o \in 0 .. 2 * n - 1 : o \in 0 .. 2 * n + 1
            OBVIOUS
          <5>2. QED
            BY <2>2, <2>4, <4>1, <5>1 DEF Preserves
        <4>2. CASE target[t] # target[q]
          BY <2>2, <4>2 DEF Preserves, Ordinals
        <4>3. QED
          BY <4>1, <4>2
      <3>3. row[target[t]] = "deleted" => row'[target[t]] = "deleted"
        BY <2>3
      <3>4. at'[t] = "ended"
        BY <2>3, <2>6, <3>1 DEF Answered
      <3>5. QED
        BY <2>3, <3>1, <3>2, <3>3, <3>4, AnsweredFrame
    <2>7. QED
      BY <2>5, <2>6
  <1>6. CASE Initialize
    <2>1. UNCHANGED <<at, target, answer>>
      BY <1>6, InitializeEffect
    <2>2. row[target[t]] = "deleted" => row'[target[t]] = "deleted"
      BY <1>6, InitializeEffect DEF Gone, Rows
    <2>3. Preserves(target[t])
      <3>1. CASE target[t] \in Gone
        BY <1>6, <3>1, InitializeEffect DEF Preserves
      <3>2. CASE target[t] \notin Gone
        <4>1. messages'[target[t]] = messages[target[t]]
          BY <1>6, <3>2, InitializeEffect
        <4>2. QED
          BY <4>1 DEF Preserves, Ordinals
      <3>3. QED
        BY <3>1, <3>2
    <2>4. QED
      BY <2>1, <2>2, <2>3, AnsweredFrame DEF Answered
  <1>7. ASSUME NEW c \in Conversations, Create(c) \/ Expire(c)
        PROVE  at'[t] = "ended" /\ (row'[target'[t]] = "deleted" \/ Written(t)')
    <2>1. /\ UNCHANGED <<messages, at, target, answer>>
          /\ row[target[t]] = "deleted" => row'[target[t]] = "deleted"
      BY <1>7 DEF Create, Expire, callVars
    <2>2. Preserves(target[t])
      BY <2>1 DEF Preserves, Ordinals
    <2>3. QED
      BY <2>1, <2>2, AnsweredFrame DEF Answered
  <1>8. QED
    BY <1>1, <1>2, <1>3, <1>4, <1>5, <1>6, <1>7 DEF Next, Statement

(* A turn whose append_turn returned is in its conversation until that is  *)
(* deleted, through crashes, late commits and the clean-up                 *)
(* (chat/storage.py:114-117, 172-224).                                     *)
THEOREM StoreKeepsAnswered == Spec => []AnsweredIsStored
  <1>1. Init => Answered
    BY DEF Init, Answered
  <1>2. Spec => []Answered
    BY <1>1, AnsweredStep, AlwaysStore, PTL DEF Spec
  <1>3. ASSUME StoreInv, Answered PROVE AnsweredIsStored
    <2> SUFFICES ASSUME NEW t \in Turns, answer[t] = "ok", row[target[t]] # "deleted"
                 PROVE  \E i \in 1 .. TurnsIn(target[t]) : TurnAt(target[t], i) = t
      BY DEF AnsweredIsStored
    <2>1. target[t] \in Conversations
      BY <1>3 DEF StoreInv, TypeOK
    <2>2. PICK n \in Nat : Holds(target[t], n)
      BY <1>3, <2>1 DEF StoreInv, Paired
    <2>3. TurnsIn(target[t]) = n
      BY <1>3, <2>1, <2>2, HistoryOfPairs
    <2>4. PICK i \in Nat : 2 * i \in Ordinals(target[t]) /\ messages[target[t]][2 * i].turn = t
      BY <1>3 DEF Answered, Written
    <2>5. i + 1 \in 1 .. n /\ 2 * (i + 1) - 2 = 2 * i
      BY <2>2, <2>4 DEF Holds
    <2>6. TurnAt(target[t], i + 1) = t
      BY <2>4, <2>5 DEF TurnAt
    <2>7. QED
      BY <2>3, <2>5, <2>6
  <1>4. QED
    BY <1>2, <1>3, AlwaysStore, PTL

------------------------------------------------------------------------------
(* Loops.  A statement about the rounds of a loop is the set of the rounds *)
(* that it holds of.                                                       *)
LEMMA EveryRound ==
  ASSUME NEW n \in Nat, NEW S, 0 \in S,
         \A k \in 1 .. n : k - 1 \in S => k \in S
  PROVE  \A k \in 0 .. n : k \in S
  <1> SUFFICES ASSUME NEW m \in 0 .. n, m \notin S PROVE FALSE
    OBVIOUS
  <1> DEFINE Bad == {k \in Nat : k <= n /\ k \notin S}
             L == OpToRel(<, Nat)
  <1>1. Bad \subseteq Nat /\ Bad # {}
    OBVIOUS
  <1>2. IsWellFoundedOn(L, Nat)
    BY NatLessThanWellFounded
  <1>3. ASSUME NEW x \in Bad, NEW y \in Bad, <<y, x>> \notin L PROVE ~(y < x)
    BY <1>3 DEF OpToRel
  <1> HIDE DEF L, Bad
  <1>4. \E x \in Bad : \A y \in Bad : <<y, x>> \notin L
    BY <1>1, <1>2, WFMin, Zenon
  <1>5. PICK k \in Bad : \A y \in Bad : ~(y < k)
    BY <1>3, <1>4
  <1> USE DEF Bad
  <1>6. k # 0 /\ k \in 1 .. n
    BY <1>5
  <1>7. k - 1 \notin Bad
    BY <1>5, <1>6
  <1>8. QED
    BY <1>5, <1>6, <1>7

\* The partial sums of f[1], ..., f[n], from the last one.
Sums(g, f, n) == g[0] = 0 /\ \A k \in 1 .. n : g[k] = g[k - 1] + f[n + 1 - k]

(* Total adds up: there are partial sums, and it is the last of them.      *)
LEMMA TotalSums ==
  ASSUME NEW n \in Nat, NEW f \in [1 .. n -> Nat]
  PROVE  \E g \in [0 .. n -> Nat] : Sums(g, f, n) /\ Total(f) = g[n]
  <1> DEFINE Solves(g) == g = [k \in 0 .. n |-> IF k = 0 THEN 0 ELSE g[k - 1] + f[n + 1 - k]]
             Upto(g, m) == g[0] = 0 /\ \A k \in 1 .. m : g[k] = g[k - 1] + f[n + 1 - k]
             Partly == {m \in 0 .. n : \E g \in [0 .. m -> Nat] : Upto(g, m)}
  <1>1. 0 \in Partly
    <2> DEFINE h == [k \in 0 .. 0 |-> 0]
    <2>1. h \in [0 .. 0 -> Nat] /\ Upto(h, 0)
      OBVIOUS
    <2> HIDE DEF h, Upto
    <2>2. QED
      BY <2>1
  <1>2. ASSUME NEW m \in 1 .. n, m - 1 \in Partly PROVE m \in Partly
    <2>1. PICK g \in [0 .. m - 1 -> Nat] : Upto(g, m - 1)
      BY <1>2
    <2> DEFINE h == [k \in 0 .. m |-> IF k < m THEN g[k] ELSE g[m - 1] + f[n + 1 - m]]
    <2>2. h \in [0 .. m -> Nat]
      <3>1. n + 1 - m \in 1 .. n /\ m - 1 \in 0 .. m - 1
        OBVIOUS
      <3>2. g[m - 1] + f[n + 1 - m] \in Nat
        BY <3>1
      <3>3. \A k \in 0 .. m : k < m => g[k] \in Nat
        BY <2>1
      <3>4. QED
        BY <3>2, <3>3
    <2>3. h[0] = 0
      BY <2>1
    <2>4. ASSUME NEW k \in 1 .. m PROVE h[k] = h[k - 1] + f[n + 1 - k]
      <3>1. CASE k < m
        BY <2>1, <3>1
      <3>2. CASE k = m
        BY <3>2
      <3>3. QED
        BY <3>1, <3>2
    <2>5. Upto(h, m)
      BY <2>3, <2>4
    <2> HIDE DEF h, Upto
    <2>6. QED
      BY <2>2, <2>5
  <1> HIDE DEF Partly
  <1>3. n \in Partly
    <2>1. \A m \in 1 .. n : m - 1 \in Partly => m \in Partly
      BY <1>2
    <2>2. \A m \in 0 .. n : m \in Partly
      BY <1>1, <2>1, EveryRound
    <2>3. QED
      BY <2>2
  <1> USE DEF Partly
  <1>4. \E g : Solves(g)
    <2>1. PICK g \in [0 .. n -> Nat] : Upto(g, n)
      BY <1>3
    <2>2. Solves(g)
      BY <2>1
    <2>3. QED
      BY <2>2
  <1> DEFINE last == CHOOSE g : Solves(g)
  <1>5. Solves(last)
    <2> HIDE DEF Solves
    <2>1. QED
      BY <1>4
  <1>6. Total(f) = last[n]
    <2>1. Len(f) = n
      OBVIOUS
    <2>2. QED
      BY <2>1 DEF Total
  <1> HIDE DEF last, Partly
  <1>7. Upto(last, n) /\ DOMAIN last = 0 .. n
    BY <1>5
  <1> DEFINE Good == {k \in 0 .. n : last[k] \in Nat}
  <1>8. 0 \in Good
    BY <1>7
  <1>9. ASSUME NEW k \in 1 .. n, k - 1 \in Good PROVE k \in Good
    BY <1>7, <1>9
  <1> HIDE DEF Good
  <1>10. \A k \in 0 .. n : k \in Good
    BY <1>8, <1>9, EveryRound
  <1>11. last \in [0 .. n -> Nat]
    BY <1>5, <1>10 DEF Good
  <1> HIDE DEF Solves
  <1>12. QED
    BY <1>6, <1>7, <1>11 DEF Sums

(* The sums of a sequence contain those of each of its ends.               *)
LEMMA TotalOfEnd ==
  ASSUME NEW n \in Nat, NEW f \in [1 .. n -> Nat], NEW g \in [0 .. n -> Nat], Sums(g, f, n),
         NEW m \in 0 .. n
  PROVE  Total([i \in 1 .. m |-> f[n - m + i]]) = g[m]
  <1> DEFINE e == [i \in 1 .. m |-> f[n - m + i]]
  <1>1. m \in Nat /\ e \in [1 .. m -> Nat]
    <2>1. \A i \in 1 .. m : n - m + i \in 1 .. n
      OBVIOUS
    <2>2. QED
      BY <2>1
  <1>2. ASSUME NEW k \in 1 .. m PROVE e[m + 1 - k] = f[n + 1 - k] /\ k \in 1 .. n
    <2>1. m + 1 - k \in 1 .. m /\ n - m + (m + 1 - k) = n + 1 - k
      OBVIOUS
    <2>2. QED
      BY <2>1
  <1> HIDE DEF e
  <1>3. PICK h \in [0 .. m -> Nat] : Sums(h, e, m) /\ Total(e) = h[m]
    BY <1>1, TotalSums
  <1> DEFINE Same == {k \in 0 .. m : h[k] = g[k]}
  <1>4. 0 \in Same
    BY <1>3 DEF Sums
  <1>5. ASSUME NEW k \in 1 .. m, k - 1 \in Same PROVE k \in Same
    BY <1>2, <1>3, <1>5 DEF Sums
  <1> HIDE DEF Same
  <1>6. m \in Same
    <2>1. \A k \in 1 .. m : k - 1 \in Same => k \in Same
      BY <1>5
    <2>2. \A k \in 0 .. m : k \in Same
      BY <1>1, <1>4, <2>1, EveryRound
    <2>3. QED
      BY <1>1, <2>2
  <1>7. QED
    BY <1>3, <1>6 DEF Same, e

(* Sums of what is not negative grow.                                      *)
LEMMA SumsGrow ==
  ASSUME NEW n \in Nat, NEW f \in [1 .. n -> Nat], NEW g \in [0 .. n -> Nat], Sums(g, f, n),
         NEW m \in 0 .. n, NEW k \in m .. n
  PROVE  g[m] <= g[k]
  <1> DEFINE Above == {j \in 0 .. n : j >= m => g[m] <= g[j]}
  <1>1. 0 \in Above
    OBVIOUS
  <1>2. ASSUME NEW j \in 1 .. n, j - 1 \in Above PROVE j \in Above
    <2>1. n + 1 - j \in 1 .. n /\ j - 1 \in 0 .. n
      OBVIOUS
    <2>2. g[j] = g[j - 1] + f[n + 1 - j] /\ f[n + 1 - j] \in Nat /\ g[j - 1] \in Nat
      BY <2>1 DEF Sums
    <2>3. CASE j = m
      BY <2>3
    <2>4. CASE j # m
      BY <1>2, <2>2, <2>4
    <2>5. QED
      BY <2>3, <2>4
  <1> HIDE DEF Above
  <1>3. k \in Above
    <2>1. \A j \in 1 .. n : j - 1 \in Above => j \in Above
      BY <1>2
    <2>2. \A j \in 0 .. n : j \in Above
      BY <1>1, <2>1, EveryRound
    <2>3. QED
      BY <2>2
  <1>4. QED
    BY <1>3 DEF Above

\* The selections of a loop over n turns, newest first, round by round.
NothingSelected == [messages |-> <<>>, count |-> CurrentLength, full |-> FALSE]

Rounds(g, turns, n, room) ==
  /\ g[0] = NothingSelected
  /\ \A k \in 1 .. n : g[k] = Keep(turns[n + 1 - k], g[k - 1], room)

(* The loop has its rounds, and selects what the last of them leaves.       *)
LEMMA SelectedRounds ==
  ASSUME NEW n \in Nat, NEW turns, NEW room, Len(turns) = n
  PROVE  \E g : Rounds(g, turns, n, room) /\ Selected(turns, room) = g[n]
  <1> DEFINE Round(k, selection) == Keep(turns[n + 1 - k], selection, room)
             Solves(g) == g = [k \in 0 .. n |-> IF k = 0 THEN NothingSelected
                                               ELSE Round(k, g[k - 1])]
             Upto(g, m) == /\ g = [k \in 0 .. m |-> g[k]]
                           /\ g[0] = NothingSelected
                           /\ \A k \in 1 .. m : g[k] = Round(k, g[k - 1])
             Partly == {m \in 0 .. n : \E g : Upto(g, m)}
  <1>0. Selected(turns, room) = (CHOOSE g : Solves(g))[n]
    BY DEF Selected, NothingSelected
  <1> HIDE DEF Round
  <1>1. 0 \in Partly
    <2> DEFINE h == [k \in 0 .. 0 |-> NothingSelected]
    <2>1. Upto(h, 0)
      OBVIOUS
    <2> HIDE DEF h, Upto
    <2>2. QED
      BY <2>1
  <1>2. ASSUME NEW m \in 1 .. n, m - 1 \in Partly PROVE m \in Partly
    <2>1. PICK g : Upto(g, m - 1)
      BY <1>2
    <2> DEFINE h == [k \in 0 .. m |-> IF k < m THEN g[k] ELSE Round(m, g[m - 1])]
    <2>2. h = [k \in 0 .. m |-> h[k]]
      OBVIOUS
    <2>3. h[0] = NothingSelected
      BY <2>1
    <2>4. ASSUME NEW k \in 1 .. m PROVE h[k] = Round(k, h[k - 1])
      <3>1. h[k - 1] = g[k - 1]
        OBVIOUS
      <3>2. CASE k < m
        <4>1. h[k] = g[k] /\ k \in 1 .. m - 1
          BY <3>2
        <4>2. g[k] = Round(k, g[k - 1])
          BY <2>1, <4>1
        <4>3. QED
          BY <3>1, <4>1, <4>2
      <3>3. CASE k = m
        BY <3>1, <3>3
      <3>4. QED
        BY <3>2, <3>3
    <2> HIDE DEF h
    <2>5. Upto(h, m)
      BY <2>2, <2>3, <2>4
    <2> HIDE DEF Upto
    <2>6. QED
      BY <2>5
  <1> HIDE DEF Partly
  <1>3. n \in Partly
    <2>1. \A m \in 1 .. n : m - 1 \in Partly => m \in Partly
      BY <1>2
    <2>2. \A m \in 0 .. n : m \in Partly
      BY <1>1, <2>1, EveryRound
    <2>3. QED
      BY <2>2
  <1> USE DEF Partly
  <1>4. \E g : Solves(g)
    <2>1. PICK g : Upto(g, n)
      BY <1>3
    <2>2. /\ g = [k \in 0 .. n |-> g[k]]
          /\ \A k \in 0 .. n : g[k] = IF k = 0 THEN NothingSelected ELSE Round(k, g[k - 1])
      BY <2>1
    <2>3. [k \in 0 .. n |-> g[k]]
            = [k \in 0 .. n |-> IF k = 0 THEN NothingSelected ELSE Round(k, g[k - 1])]
      BY <2>2
    <2>4. Solves(g)
      BY <2>2, <2>3
    <2>5. QED
      BY <2>4
  <1> DEFINE after == CHOOSE g : Solves(g)
  <1>5. Solves(after)
    <2> HIDE DEF Solves
    <2>1. QED
      BY <1>4
  <1> HIDE DEF after
  <1>6. after[0] = NothingSelected /\ \A k \in 1 .. n : after[k] = Round(k, after[k - 1])
    BY <1>5
  <1>7. Rounds(after, turns, n, room)
    BY <1>6 DEF Rounds, Round
  <1>8. QED
    BY <1>0, <1>7 DEF after

------------------------------------------------------------------------------
(* The context of a turn.  A question is stored with its answer.           *)
Dialogues ==
  \A c \in Conversations, i \in Nat :
    2 * i \in Ordinals(c) =>
      LET t == messages[c][2 * i].turn
      IN  /\ messages[c][2 * i] = [turn |-> t, role |-> "user"]
          /\ messages[c][2 * i + 1] = [turn |-> t, role |-> "assistant"]

(* Only commits and clean-ups touch the messages.                           *)
LEMMA DialoguesFrame ==
  ASSUME Dialogues, messages' = messages
  PROVE  Dialogues'
  BY DEF Dialogues, Ordinals

(* A commit stores the user's message and then the assistant's.             *)
LEMMA CommitDialogues ==
  ASSUME StoreInv, Dialogues, NEW t \in Turns, Commit(t)
  PROVE  Dialogues'
  <1> DEFINE c == target[t]
             Whole(m, i) == LET q == m[2 * i].turn
                            IN  /\ m[2 * i] = [turn |-> q, role |-> "user"]
                                /\ m[2 * i + 1] = [turn |-> q, role |-> "assistant"]
  <1>1. c \in Conversations
    BY DEF StoreInv, TypeOK
  <1>2. PICK n \in Nat : Holds(c, n)
    BY <1>1 DEF StoreInv, Paired
  <1>3. /\ \A d \in Conversations : d # c => messages'[d] = messages[d]
        /\ \A o \in 0 .. 2 * n - 1 : messages'[c][o] = messages[c][o]
        /\ \A o \in {2 * n, 2 * n + 1} : messages'[c][o] \in Message /\ messages'[c][o].turn = t
        /\ messages'[c][2 * n].role = "user"
        /\ messages'[c][2 * n + 1].role = "assistant"
        /\ DOMAIN messages'[c] = 0 .. 2 * n + 1
    <2>1. /\ \A d \in Conversations : d # c => messages'[d] = messages[d]
          /\ \A o \in 0 .. 2 * n - 1 : messages'[c][o] = messages[c][o]
          /\ \A o \in {2 * n, 2 * n + 1} : messages'[c][o] \in Message /\ messages'[c][o].turn = t
          /\ messages'[c][2 * n].role = "user"
          /\ messages'[c][2 * n + 1].role = "assistant"
          /\ Ordinals(c)' = 0 .. 2 * n + 1 /\ Ends(t)
      BY <1>2, CommitEffect
    <2>2. target'[t] = c
      BY <2>1 DEF Ends
    <2>3. QED
      BY <2>1, <2>2 DEF Ordinals
  <1>4. \A d \in Conversations, i \in Nat : 2 * i \in DOMAIN messages[d] => Whole(messages[d], i)
    BY DEF Dialogues, Ordinals
  <1>5. ASSUME NEW d \in Conversations, NEW i \in Nat, 2 * i \in DOMAIN messages'[d]
        PROVE  Whole(messages'[d], i)
    <2>1. CASE d # c
      BY <1>3, <1>4, <1>5, <2>1
    <2>2. CASE d = c /\ i < n
      <3>1. 2 * i \in 0 .. 2 * n - 1 /\ 2 * i + 1 \in 0 .. 2 * n - 1
        BY <2>2
      <3>2. Whole(messages[c], i)
        BY <1>1, <1>2, <1>4, <3>1 DEF Holds, Ordinals
      <3>3. QED
        BY <1>3, <2>2, <3>1, <3>2
    <2>3. CASE d = c /\ i >= n
      <3>1. i = n
        BY <1>3, <1>5, <2>3
      <3>2. /\ messages'[c][2 * n] = [turn |-> t, role |-> "user"]
            /\ messages'[c][2 * n + 1] = [turn |-> t, role |-> "assistant"]
        BY <1>3 DEF Message
      <3>3. QED
        BY <2>3, <3>1, <3>2
    <2>4. QED
      BY <2>1, <2>2, <2>3
  <1>6. QED
    BY <1>5 DEF Dialogues, Ordinals

(* Every step keeps questions and answers together.                         *)
LEMMA DialoguesStep ==
  ASSUME StoreInv, Dialogues, [Next]_vars
  PROVE  Dialogues'
  <1>1. CASE Initialize
    <2>1. /\ \A c \in Gone : messages'[c] = Nothing
          /\ \A c \in Conversations \ Gone : messages'[c] = messages[c]
      BY <1>1, InitializeEffect
    <2>2. DOMAIN Nothing = {}
      BY DEF Nothing
    <2>3. QED
      BY <2>1, <2>2 DEF Dialogues, Ordinals
  <1>2. CASE Crash \/ UNCHANGED vars
    BY <1>2, DialoguesFrame DEF Crash, vars
  <1>3. ASSUME NEW c \in Conversations, Create(c) \/ Expire(c) PROVE Dialogues'
    BY <1>3, DialoguesFrame DEF Create, Expire
  <1>4. QED
    BY <1>1, <1>2, <1>3, Hidden, DialoguesFrame, CommitDialogues DEF Next, Statement

------------------------------------------------------------------------------
(* Turns and their messages.                                               *)

Exchange(t) == <<[turn |-> t, role |-> "user"], [turn |-> t, role |-> "assistant"]>>

(* A turn's two messages, and how long they are.                            *)
LEMMA ExchangeIsTurn ==
  ASSUME NEW t \in Turns
  PROVE  /\ Exchange(t) \in Seq(Message) /\ Len(Exchange(t)) = 2
         /\ TurnLength(Exchange(t)) = 2 * Length[t]
  <1> DEFINE f == [i \in 1 .. 2 |-> Length[Exchange(t)[i].turn]]
  <1>1. Exchange(t) \in Seq(Message) /\ Len(Exchange(t)) = 2
    BY DEF Exchange, Message
  <1>2. f[1] = Length[t] /\ f[2] = Length[t] /\ Length[t] \in Nat
    BY MemoryAssumption DEF Exchange
  <1>3. f \in [1 .. 2 -> Nat]
    <2>1. \A i \in 1 .. 2 : i = 1 \/ i = 2
      OBVIOUS
    <2>2. \A i \in 1 .. 2 : Length[Exchange(t)[i].turn] \in Nat
      BY <1>2, <2>1
    <2>3. QED
      BY <2>2
  <1>4. TurnLength(Exchange(t)) = Total(f)
    BY <1>1 DEF TurnLength
  <1> HIDE DEF f
  <1>5. PICK g \in [0 .. 2 -> Nat] : Sums(g, f, 2) /\ Total(f) = g[2]
    BY <1>3, TotalSums
  <1>6. g[2] = g[1] + f[1] /\ g[1] = g[0] + f[2] /\ g[0] = 0
    BY <1>5 DEF Sums
  <1>7. QED
    BY <1>1, <1>2, <1>4, <1>5, <1>6

(* What is where in the messages of n turns.                                *)
LEMMA DialogueProperties ==
  ASSUME NEW n \in Nat, NEW h \in [1 .. n -> Turns]
  PROVE  /\ Dialogue(h) \in Seq(Message) /\ Len(Dialogue(h)) = 2 * n
         /\ \A i \in 1 .. 2 * n :
              /\ (i + 1) \div 2 \in 1 .. n
              /\ Dialogue(h)[i] = [turn |-> h[(i + 1) \div 2],
                                   role |-> IF i % 2 = 1 THEN "user" ELSE "assistant"]
         /\ \A i \in 1 .. n : /\ Dialogue(h)[2 * i - 1] = [turn |-> h[i], role |-> "user"]
                              /\ Dialogue(h)[2 * i] = [turn |-> h[i], role |-> "assistant"]
  <1> DEFINE d == Dialogue(h)
  <1>1. Len(h) = n
    OBVIOUS
  <1>2. d = [i \in 1 .. 2 * n |-> [turn |-> h[(i + 1) \div 2],
                                   role |-> IF i % 2 = 1 THEN "user" ELSE "assistant"]]
    BY <1>1 DEF Dialogue
  <1>3. \A i \in 1 .. 2 * n : (i + 1) \div 2 \in 1 .. n
    OBVIOUS
  <1> HIDE DEF d
  <1>4. \A i \in 1 .. 2 * n : d[i] = [turn |-> h[(i + 1) \div 2],
                                      role |-> IF i % 2 = 1 THEN "user" ELSE "assistant"]
    BY <1>2
  <1>5. \A i \in 1 .. 2 * n : d[i] \in Message
    <2> TAKE i \in 1 .. 2 * n
    <2> DEFINE role == IF i % 2 = 1 THEN "user" ELSE "assistant"
               turn == h[(i + 1) \div 2]
    <2>1. turn \in Turns
      BY <1>3
    <2>2. role \in {"user", "assistant"}
      OBVIOUS
    <2>3. d[i] = [turn |-> turn, role |-> role]
      BY <1>4
    <2> HIDE DEF role, turn
    <2>4. QED
      BY <2>1, <2>2, <2>3 DEF Message
  <1>6. d \in Seq(Message) /\ Len(d) = 2 * n
    <2>1. 2 * n \in Nat /\ d = [i \in 1 .. 2 * n |-> d[i]]
      BY <1>2
    <2>2. QED
      BY <1>5, <2>1, IsSequence
  <1>7. ASSUME NEW i \in 1 .. n
        PROVE  /\ d[2 * i - 1] = [turn |-> h[i], role |-> "user"]
               /\ d[2 * i] = [turn |-> h[i], role |-> "assistant"]
    <2>1. /\ 2 * i - 1 \in 1 .. 2 * n /\ 2 * i \in 1 .. 2 * n
          /\ (2 * i - 1 + 1) \div 2 = i /\ (2 * i + 1) \div 2 = i
          /\ (2 * i - 1) % 2 = 1 /\ (2 * i) % 2 = 0
      OBVIOUS
    <2>2. d[2 * i - 1] = [turn |-> h[(2 * i - 1 + 1) \div 2],
                          role |-> IF (2 * i - 1) % 2 = 1 THEN "user" ELSE "assistant"]
      BY <1>4, <2>1
    <2>3. d[2 * i] = [turn |-> h[(2 * i + 1) \div 2],
                      role |-> IF (2 * i) % 2 = 1 THEN "user" ELSE "assistant"]
      BY <1>4, <2>1
    <2>4. QED
      BY <2>1, <2>2, <2>3
  <1>8. QED
    BY <1>3, <1>4, <1>6, <1>7 DEF d

(* An older turn comes before the others.                                  *)
LEMMA DialogueAdds ==
  ASSUME NEW k \in Nat, NEW f \in [1 .. k -> Turns], NEW t \in Turns,
         NEW e \in [1 .. k + 1 -> Turns], e[1] = t, \A i \in 1 .. k : e[i + 1] = f[i]
  PROVE  Exchange(t) \o Dialogue(f) = Dialogue(e)
  <1> DEFINE all == Exchange(t) \o Dialogue(f)
  <1>1. /\ Dialogue(f) \in Seq(Message) /\ Len(Dialogue(f)) = 2 * k
        /\ \A i \in 1 .. 2 * k :
             /\ (i + 1) \div 2 \in 1 .. k
             /\ Dialogue(f)[i] = [turn |-> f[(i + 1) \div 2],
                                  role |-> IF i % 2 = 1 THEN "user" ELSE "assistant"]
    BY DialogueProperties
  <1>2. /\ Dialogue(e) \in Seq(Message) /\ Len(Dialogue(e)) = 2 * (k + 1)
        /\ \A i \in 1 .. 2 * (k + 1) :
             /\ (i + 1) \div 2 \in 1 .. k + 1
             /\ Dialogue(e)[i] = [turn |-> e[(i + 1) \div 2],
                                  role |-> IF i % 2 = 1 THEN "user" ELSE "assistant"]
    <2>1. k + 1 \in Nat
      OBVIOUS
    <2>2. QED
      BY <2>1, DialogueProperties
  <1>3. /\ Exchange(t) \in Seq(Message) /\ Len(Exchange(t)) = 2
        /\ Exchange(t)[1] = [turn |-> t, role |-> "user"]
        /\ Exchange(t)[2] = [turn |-> t, role |-> "assistant"]
    BY ExchangeIsTurn DEF Exchange
  <1>4. /\ all \in Seq(Message) /\ Len(all) = 2 + 2 * k
        /\ \A i \in 1 .. 2 + 2 * k :
             all[i] = IF i <= 2 THEN Exchange(t)[i] ELSE Dialogue(f)[i - 2]
    <2>0. Exchange(t) \in Seq(Message) /\ Dialogue(f) \in Seq(Message)
      BY <1>1, <1>3
    <2>1. /\ all \in Seq(Message)
          /\ Len(all) = Len(Exchange(t)) + Len(Dialogue(f))
          /\ \A i \in 1 .. Len(Exchange(t)) + Len(Dialogue(f)) :
               all[i] = IF i <= Len(Exchange(t)) THEN Exchange(t)[i]
                        ELSE Dialogue(f)[i - Len(Exchange(t))]
      BY ONLY <2>0, ConcatProperties, Zenon
    <2>2. QED
      BY <1>1, <1>3, <2>1
  <1> HIDE DEF all
  <1>5. ASSUME NEW i \in 1 .. 2 + 2 * k PROVE all[i] = Dialogue(e)[i]
    <2>1. i \in 1 .. 2 * (k + 1)
      OBVIOUS
    <2>2. CASE i = 1
      <3>1. (1 + 1) \div 2 = 1 /\ 1 % 2 = 1
        OBVIOUS
      <3>2. Dialogue(e)[1] = [turn |-> t, role |-> "user"]
        BY <1>2, <2>1, <2>2, <3>1
      <3>3. all[1] = Exchange(t)[1]
        BY <1>4, <2>2
      <3>4. QED
        BY <1>3, <2>2, <3>2, <3>3
    <2>3. CASE i = 2
      <3>1. (2 + 1) \div 2 = 1 /\ 2 % 2 = 0
        OBVIOUS
      <3>2. Dialogue(e)[2] = [turn |-> t, role |-> "assistant"]
        BY <1>2, <2>1, <2>3, <3>1
      <3>3. all[2] = Exchange(t)[2]
        BY <1>4, <2>3
      <3>4. QED
        BY <1>3, <2>3, <3>2, <3>3
    <2>4. CASE i > 2
      <3>1. /\ i - 2 \in 1 .. 2 * k
            /\ (i + 1) \div 2 = ((i - 2) + 1) \div 2 + 1
            /\ i % 2 = (i - 2) % 2
        BY <2>4
      <3>2. e[(i + 1) \div 2] = f[((i - 2) + 1) \div 2]
        BY <1>1, <3>1
      <3>3. all[i] = Dialogue(f)[i - 2]
        BY <1>4, <2>4
      <3>4. QED
        BY <1>1, <1>2, <2>1, <3>1, <3>2, <3>3
    <2>5. QED
      BY <2>2, <2>3, <2>4
  <1>6. all = Dialogue(e)
    BY <1>2, <1>4, <1>5, SeqEqual
  <1>7. QED
    BY <1>6 DEF all

(* The smaller and the greater of two numbers.                              *)
LEMMA Extremes ==
  ASSUME NEW a \in Int, NEW b \in Int
  PROVE  /\ Min({a, b}) = IF a <= b THEN a ELSE b
         /\ Max({a, b}) = IF a <= b THEN b ELSE a
  <1>1. \A x \in {a, b} : (\A y \in {a, b} : x <= y) <=> x = IF a <= b THEN a ELSE b
    OBVIOUS
  <1>2. \A x \in {a, b} : (\A y \in {a, b} : x >= y) <=> x = IF a <= b THEN b ELSE a
    OBVIOUS
  <1>3. QED
    BY <1>1, <1>2 DEF Min, Max

(* A piece of a sequence, entry by entry.                                   *)
LEMMA SubSeqIs ==
  ASSUME NEW S, NEW s, NEW m \in Int, NEW n \in Int, NEW l \in Nat, l = n - m + 1,
         \A i \in m .. n : s[i] \in S
  PROVE  SubSeq(s, m, n) = [i \in 1 .. l |-> s[m + i - 1]]
  OBVIOUS

(* Taken in twos, the messages are the turns they were stored by.          *)
LEMMA TakenInTwos ==
  ASSUME NEW n \in Nat, NEW h \in [1 .. n -> Turns]
  PROVE  PriorTurns(Dialogue(h)) = [i \in 1 .. n |-> Exchange(h[i])]
  <1> DEFINE d == Dialogue(h)
  <1>1. /\ d \in Seq(Message) /\ Len(d) = 2 * n
        /\ \A i \in 1 .. n : /\ d[2 * i - 1] = [turn |-> h[i], role |-> "user"]
                             /\ d[2 * i] = [turn |-> h[i], role |-> "assistant"]
    BY DialogueProperties
  <1> HIDE DEF d
  <1>2. (2 * n + 1) \div 2 = n
    OBVIOUS
  <1>3. ASSUME NEW i \in 1 .. n
        PROVE  SubSeq(d, 2 * i - 1, Min({2 * i, Len(d)})) = Exchange(h[i])
    <2>1. 2 * i \in Int /\ 2 * n \in Int /\ 2 * i <= 2 * n
      OBVIOUS
    <2>2. Min({2 * i, Len(d)}) = 2 * i
      BY <1>1, <2>1, Extremes
    <2> DEFINE s == SubSeq(d, 2 * i - 1, 2 * i)
    <2>3. Len(s) = 2 /\ s \in Seq(Message) /\ s[1] = d[2 * i - 1] /\ s[2] = d[2 * i]
      <3>1. /\ 2 * i - 1 \in Int /\ 2 * i \in Int /\ 2 \in Nat
            /\ 2 = 2 * i - (2 * i - 1) + 1
            /\ \A j \in 2 * i - 1 .. 2 * i : d[j] \in Message
        BY <1>1
      <3>2. s = [j \in 1 .. 2 |-> d[2 * i - 1 + j - 1]]
        BY ONLY <3>1, SubSeqIs
      <3>3. /\ \A j \in 1 .. 2 : d[2 * i - 1 + j - 1] \in Message
            /\ 2 * i - 1 + 1 - 1 = 2 * i - 1 /\ 2 * i - 1 + 2 - 1 = 2 * i
        BY <1>1
      <3> HIDE DEF s
      <3>4. s = [j \in 1 .. 2 |-> s[j]] /\ (\A j \in 1 .. 2 : s[j] \in Message)
            /\ s[1] = d[2 * i - 1] /\ s[2] = d[2 * i]
        BY <3>2, <3>3
      <3>5. QED
        BY <3>4, IsSequence
    <2> HIDE DEF s
    <2>4. /\ Exchange(h[i]) \in Seq(Message) /\ Len(Exchange(h[i])) = 2
          /\ Exchange(h[i])[1] = [turn |-> h[i], role |-> "user"]
          /\ Exchange(h[i])[2] = [turn |-> h[i], role |-> "assistant"]
      BY ExchangeIsTurn DEF Exchange
    <2>5. \A j \in 1 .. 2 : s[j] = Exchange(h[i])[j]
      <3>1. \A j \in 1 .. 2 : j = 1 \/ j = 2
        OBVIOUS
      <3>2. QED
        BY <1>1, <2>3, <2>4, <3>1
    <2>6. s = Exchange(h[i])
      BY <2>3, <2>4, <2>5, SeqEqual
    <2>7. QED
      BY <2>2, <2>6 DEF s
  <1>4. PriorTurns(d) = [i \in 1 .. n |-> SubSeq(d, 2 * i - 1, Min({2 * i, Len(d)}))]
    BY <1>1, <1>2 DEF PriorTurns
  <1>5. QED
    BY <1>3, <1>4 DEF d

(* The candidates are the newest turns.                                    *)
LEMMA CandidatesAreNewest ==
  ASSUME NEW n \in Nat, NEW turns, turns = [i \in 1 .. n |-> turns[i]], NEW limit \in Nat
  PROVE  LET l == Min({n, limit})
         IN  /\ l \in 0 .. n /\ Len(Candidates(turns, limit)) = l
             /\ \A i \in 1 .. l : /\ n + 1 - i \in 1 .. n
                                  /\ Candidates(turns, limit)[l + 1 - i] = turns[n + 1 - i]
  <1> DEFINE l == Min({n, limit})
             a == Max({1, n - limit + 1})
             S == {turns[i] : i \in 1 .. n}
             s == SubSeq(turns, a, n)
  <1>1. n \in Int /\ limit \in Int /\ 1 \in Int /\ n - limit + 1 \in Int
    OBVIOUS
  <1>2. /\ l = IF n <= limit THEN n ELSE limit
        /\ a = IF 1 <= n - limit + 1 THEN n - limit + 1 ELSE 1
    BY ONLY <1>1, Extremes, Zenon
  <1> HIDE DEF l, a
  <1>3. l \in 0 .. n /\ a \in Int /\ a >= 1 /\ n - a + 1 = l /\ (a <= n <=> l # 0)
    BY <1>2
  <1>4. Len(turns) = n
    OBVIOUS
  <1>5. \A i \in a .. n : turns[i] \in S
    BY <1>3
  <1> HIDE DEF S
  <1>6. s = [i \in 1 .. l |-> turns[a + i - 1]]
    <2>1. l \in Nat /\ l = n - a + 1
      BY <1>3
    <2>2. QED
      BY ONLY <1>1, <1>3, <1>5, <2>1, SubSeqIs
  <1>7. Candidates(turns, limit) = s
    BY <1>4 DEF Candidates, a
  <1> HIDE DEF s
  <1>8. Len(s) = l
    BY <1>3, <1>6
  <1>9. ASSUME NEW i \in 1 .. l PROVE n + 1 - i \in 1 .. n /\ s[l + 1 - i] = turns[n + 1 - i]
    <2>1. /\ l + 1 - i \in 1 .. l /\ a + (l + 1 - i) - 1 = n + 1 - i
          /\ n + 1 - i \in 1 .. n
      BY <1>3
    <2>2. s[l + 1 - i] = turns[a + (l + 1 - i) - 1]
      BY <1>6, <2>1
    <2>3. QED
      BY <2>1, <2>2
  <1>10. QED
    BY <1>3, <1>7, <1>8, <1>9 DEF l

\* The newest k of n turns.
Latest(h, n, k) == [i \in 1 .. k |-> h[n - k + i]]

(* The latest turns are a piece of the turns.                               *)
LEMMA LatestIsSubSeq ==
  ASSUME NEW n \in Nat, NEW h \in [1 .. n -> Turns], NEW k \in 0 .. n
  PROVE  /\ Latest(h, n, k) \in [1 .. k -> Turns]
         /\ SubSeq(h, n - k + 1, n) = Latest(h, n, k)
  <1> DEFINE s == SubSeq(h, n - k + 1, n)
             e == Latest(h, n, k)
  <1>1. \A i \in 1 .. k : n - k + i \in 1 .. n
    OBVIOUS
  <1>2. e \in [1 .. k -> Turns] /\ \A i \in 1 .. k : e[i] = h[n - k + i]
    BY <1>1 DEF Latest
  <1> HIDE DEF e
  <1>3. /\ n - k + 1 \in Int /\ n \in Int /\ k \in Nat /\ k = n - (n - k + 1) + 1
        /\ \A i \in n - k + 1 .. n : h[i] \in Turns
    OBVIOUS
  <1>4. s = [i \in 1 .. k |-> h[n - k + 1 + i - 1]]
    BY ONLY <1>3, SubSeqIs
  <1>5. \A i \in 1 .. k : n - k + 1 + i - 1 = n - k + i
    OBVIOUS
  <1>6. s = e
    BY <1>4, <1>5 DEF e, Latest
  <1>7. QED
    BY <1>2, <1>6 DEF s, e

(* The next older turn comes before the latest ones.                       *)
LEMMA LatestAdds ==
  ASSUME NEW n \in Nat, NEW h \in [1 .. n -> Turns], NEW k \in 0 .. n - 1
  PROVE  Exchange(h[n - k]) \o Dialogue(Latest(h, n, k)) = Dialogue(Latest(h, n, k + 1))
  <1> DEFINE p == Latest(h, n, k)
             q == Latest(h, n, k + 1)
             t == h[n - k]
  <1>1. k \in Nat /\ k \in 0 .. n /\ k + 1 \in 0 .. n /\ t \in Turns
    OBVIOUS
  <1>2. p \in [1 .. k -> Turns] /\ q \in [1 .. k + 1 -> Turns]
    BY <1>1, LatestIsSubSeq
  <1>3. q[1] = t
    <2>1. n - (k + 1) + 1 = n - k /\ 1 \in 1 .. k + 1
      OBVIOUS
    <2>2. QED
      BY <2>1 DEF Latest
  <1>4. \A i \in 1 .. k : q[i + 1] = p[i]
    <2>1. \A i \in 1 .. k : i + 1 \in 1 .. k + 1 /\ n - (k + 1) + (i + 1) = n - k + i
      OBVIOUS
    <2>2. QED
      BY <2>1 DEF Latest
  <1> HIDE DEF p, q, t
  <1>5. Exchange(t) \o Dialogue(p) = Dialogue(q)
    BY <1>1, <1>2, <1>3, <1>4, DialogueAdds, ZenonT(60)
  <1>6. QED
    BY <1>5 DEF p, q, t

\* The lengths of n turns.
Lengths(h, n) == [i \in 1 .. n |-> Length[h[i]]]

\* With k of m turns the room is full, going by their partial sums.
Full(g, m, room, k) ==
  /\ k = 0 \/ CurrentLength + 2 * g[k] <= room
  /\ k < m => CurrentLength + 2 * g[k + 1] > room

(* What the loop over the newest turns of a dialogue selects: as many of   *)
(* them as there is room for.  After i rounds these are the newest k turns,*)
(* and k is i unless a turn did not fit.                                   *)
LEMMA ContextOfDialogue ==
  ASSUME NEW n \in Nat, NEW h \in [1 .. n -> Turns], NEW limit \in Nat, NEW room \in Nat,
         NEW g \in [0 .. n -> Nat], Sums(g, Lengths(h, n), n)
  PROVE  LET l == Min({n, limit})
             context == AssembleContext(Dialogue(h), limit, room)
         IN  /\ l \in 0 .. n /\ context.completed = n
             /\ \E k \in 0 .. l : /\ context.messages = Dialogue(Latest(h, n, k))
                                  /\ Full(g, l, room, k)
  <1> DEFINE l == Min({n, limit})
             turns == Candidates(PriorTurns(Dialogue(h)), limit)
             Fits(k) == CurrentLength + 2 * g[k] <= room
             Kept(k, full) == [messages |-> Dialogue(Latest(h, n, k)),
                               count |-> CurrentLength + 2 * g[k], full |-> full]
  <1>1. /\ l \in 0 .. n /\ Len(turns) = l
        /\ \A i \in 1 .. l : n + 1 - i \in 1 .. n /\ turns[l + 1 - i] = Exchange(h[n + 1 - i])
    <2> DEFINE all == PriorTurns(Dialogue(h))
    <2>1. all = [i \in 1 .. n |-> Exchange(h[i])]
      BY TakenInTwos
    <2> HIDE DEF all
    <2>2. all = [i \in 1 .. n |-> all[i]] /\ \A i \in 1 .. n : all[i] = Exchange(h[i])
      BY <2>1
    <2>3. /\ l \in 0 .. n /\ Len(Candidates(all, limit)) = l
          /\ \A i \in 1 .. l : /\ n + 1 - i \in 1 .. n
                               /\ Candidates(all, limit)[l + 1 - i] = all[n + 1 - i]
      BY <2>2, CandidatesAreNewest, ZenonT(60)
    <2>4. QED
      BY <2>2, <2>3 DEF all
  <1> HIDE DEF turns, l
  <1>2. l \in Nat /\ \A k \in 0 .. l : k \in 0 .. n
    BY <1>1
  <1>3. PICK a : Rounds(a, turns, l, room) /\ Selected(turns, room) = a[l]
    <2>1. l \in Nat /\ Len(turns) = l
      BY <1>1, <1>2
    <2>2. \E b : Rounds(b, turns, l, room) /\ Selected(turns, room) = b[l]
      BY ONLY <2>1, SelectedRounds
    <2>3. QED
      BY <2>2
  <1>4. /\ g[0] = 0
        /\ \A k \in 1 .. n : g[k] = g[k - 1] + Length[h[n + 1 - k]]
    <2>1. \A k \in 1 .. n : n + 1 - k \in 1 .. n
      OBVIOUS
    <2>2. QED
      BY <2>1 DEF Sums, Lengths
  <1> DEFINE After(i, k) ==
               /\ k = 0 \/ Fits(k)
               /\ \/ k = i /\ a[i] = Kept(k, FALSE)
                  \/ k < i /\ ~Fits(k + 1) /\ a[i] = Kept(k, TRUE)
             Good == {i \in 0 .. l : \E k \in 0 .. i : After(i, k)}
  <1>5. 0 \in Good
    <2>1. Latest(h, n, 0) \in [1 .. 0 -> Turns]
      BY LatestIsSubSeq
    <2>2. Dialogue(Latest(h, n, 0)) = <<>>
      <3>1. 0 \in Nat /\ 2 * 0 = 0
        OBVIOUS
      <3>2. Dialogue(Latest(h, n, 0)) \in Seq(Message) /\ Len(Dialogue(Latest(h, n, 0))) = 0
        BY <2>1, <3>1, DialogueProperties
      <3>3. QED
        BY <3>2, EmptySeq
    <2>3. a[0] = Kept(0, FALSE)
      <3>1. a[0] = [messages |-> <<>>, count |-> CurrentLength, full |-> FALSE]
        BY <1>3 DEF Rounds, NothingSelected
      <3>2. CurrentLength + 2 * g[0] = CurrentLength
        BY <1>4, MemoryAssumption
      <3>3. QED
        BY <2>2, <3>1, <3>2
    <2> HIDE DEF Kept
    <2>4. After(0, 0) /\ 0 \in 0 .. 0 /\ 0 \in 0 .. l
      BY <1>2, <2>3
    <2> HIDE DEF After
    <2>5. QED
      BY <2>4
  <1>6. ASSUME NEW i \in 1 .. l, i - 1 \in Good PROVE i \in Good
    <2>1. PICK k \in 0 .. i - 1 : After(i - 1, k)
      BY <1>6
    <2>2. i \in 1 .. n /\ k \in 0 .. n /\ n + 1 - i \in 1 .. n
      BY <1>1
    <2> DEFINE t == h[n + 1 - i]
    <2>3. t \in Turns /\ Length[t] \in Nat
      BY <2>2, MemoryAssumption
    <2>4. a[i] = Keep(Exchange(t), a[i - 1], room)
      BY <1>1, <1>3 DEF Rounds
    <2>5. TurnLength(Exchange(t)) = 2 * Length[t]
      BY <2>3, ExchangeIsTurn
    <2>6. CASE k < i - 1
      <3>1. k # i - 1 /\ a[i - 1] = Kept(k, TRUE) /\ (k = 0 \/ Fits(k)) /\ ~Fits(k + 1)
        BY <2>1, <2>6
      <3> HIDE DEF t, Fits
      <3>2. Keep(Exchange(t), Kept(k, TRUE), room) = Kept(k, TRUE)
        BY DEF Keep
      <3>3. After(i, k) /\ k \in 0 .. i
        BY <2>4, <2>6, <3>1, <3>2
      <3> HIDE DEF After
      <3>4. QED
        BY <1>2, <3>3
    <2>7. CASE k = i - 1
      <3>1. a[i - 1] = Kept(k, FALSE) /\ (k = 0 \/ Fits(k)) /\ i = k + 1
        BY <2>1, <2>7
      <3>2. g[i] = g[k] + Length[t] /\ g[k] \in Nat /\ g[i] \in Nat
        BY <1>4, <2>2, <2>7
      <3>3. CurrentLength + 2 * g[k] + 2 * Length[t] = CurrentLength + 2 * g[i]
        <4> DEFINE x == Length[t]
        <4>1. x \in Nat /\ g[i] = g[k] + x /\ g[k] \in Nat /\ CurrentLength \in Nat
          BY <2>3, <3>2, MemoryAssumption
        <4> HIDE DEF x
        <4>2. CurrentLength + 2 * g[k] + 2 * x = CurrentLength + 2 * g[i]
          BY <4>1
        <4>3. QED
          BY <4>2 DEF x
      <3>4. Kept(k, FALSE).count = CurrentLength + 2 * g[k]
        OBVIOUS
      <3>5. Exchange(t) \o Dialogue(Latest(h, n, k)) = Dialogue(Latest(h, n, i))
        <4>1. n + 1 - i = n - k /\ k \in 0 .. n - 1 /\ k + 1 = i
          BY <2>2, <3>1
        <4>2. Exchange(h[n - k]) \o Dialogue(Latest(h, n, k)) = Dialogue(Latest(h, n, k + 1))
          BY <4>1, LatestAdds
        <4>3. QED
          BY <4>1, <4>2
      <3> HIDE DEF t
      <3>6. CASE Fits(i)
        <4>1. Keep(Exchange(t), Kept(k, FALSE), room) = Kept(i, FALSE)
          <5>1. Keep(Exchange(t), Kept(k, FALSE), room)
                  = [messages |-> Exchange(t) \o Dialogue(Latest(h, n, k)),
                     count |-> CurrentLength + 2 * g[i], full |-> FALSE]
            <6>1. ~(CurrentLength + 2 * g[i] > room)
              BY <3>2, <3>6, MemoryAssumption
            <6>2. QED
              BY <2>5, <3>3, <6>1 DEF Keep
          <5>2. QED
            BY <3>5, <5>1
        <4>2. After(i, i) /\ i \in 0 .. i
          BY <2>4, <3>1, <3>6, <4>1
        <4> HIDE DEF After
        <4>3. QED
          BY <1>2, <4>2
      <3>7. CASE ~Fits(i)
        <4>1. Keep(Exchange(t), Kept(k, FALSE), room) = Kept(k, TRUE)
          <5>1. CurrentLength + 2 * g[i] > room
            BY <3>2, <3>7, MemoryAssumption
          <5>2. QED
            BY <2>5, <3>3, <5>1 DEF Keep
        <4>2. After(i, k) /\ k \in 0 .. i
          BY <2>4, <3>1, <3>7, <4>1
        <4> HIDE DEF After
        <4>3. QED
          BY <1>2, <4>2
      <3>8. QED
        BY <3>6, <3>7
    <2>8. k < i - 1 \/ k = i - 1
      OBVIOUS
    <2> HIDE DEF Good
    <2>9. QED
      BY <2>6, <2>7, <2>8
  <1> HIDE DEF Good
  <1>7. l \in Good
    <2>1. \A i \in 1 .. l : i - 1 \in Good => i \in Good
      BY <1>6
    <2>2. \A i \in 0 .. l : i \in Good
      BY <1>2, <1>5, <2>1, EveryRound
    <2>3. QED
      BY <1>2, <2>2
  <1>8. PICK k \in 0 .. l : After(l, k)
    BY <1>7 DEF Good
  <1>9. Selected(turns, room).messages = Dialogue(Latest(h, n, k))
    BY <1>3, <1>8
  <1>10. ASSUME k < l, ~Fits(k + 1) PROVE CurrentLength + 2 * g[k + 1] > room
    <2>1. k + 1 \in 0 .. n
      BY <1>1, <1>10
    <2>2. g[k + 1] \in Nat /\ CurrentLength \in Nat
      BY <2>1, MemoryAssumption
    <2>3. QED
      BY <1>10, <2>2
  <1>11. AssembleContext(Dialogue(h), limit, room).completed = n
    <2>1. Len(Dialogue(h)) = 2 * n
      BY DialogueProperties
    <2>2. QED
      BY <2>1 DEF AssembleContext
  <1>12. AssembleContext(Dialogue(h), limit, room).messages = Dialogue(Latest(h, n, k))
    BY <1>9 DEF AssembleContext, turns
  <1>13. Full(g, l, room, k)
    BY <1>8, <1>10 DEF Full
  <1>14. QED
    BY <1>1, <1>11, <1>12, <1>13 DEF l

(* The stored messages are the dialogue of the stored turns.               *)
LEMMA StoredIsDialogue ==
  ASSUME StoreInv, Dialogues, NEW c \in Conversations, NEW n \in Nat, Holds(c, n),
         row[c] = "live"
  PROVE  StoredHistory(c) = Dialogue(History(c))
  <1> DEFINE O == 0 .. 2 * n - 1
             h == History(c)
             Place(i) == CHOOSE o \in O : Cardinality({p \in O : p <= o}) = i
  <1>1. Ordinals(c) = O
    BY DEF Holds
  <1>2. \A k \in Nat : Cardinality(0 .. k - 1) = k
    <2> TAKE k \in Nat
    <2>1. /\ 0 \in Int /\ k - 1 \in Int
          /\ (IF 0 > k - 1 THEN 0 ELSE (k - 1) - 0 + 1) = k
      OBVIOUS
    <2>2. QED
      BY ONLY <2>1, FS_Interval, Zenon
  <1>3. Cardinality(O) = 2 * n
    <2>1. 2 * n \in Nat
      OBVIOUS
    <2>2. QED
      BY <1>2, <2>1
  <1>4. \A o \in O : Cardinality({p \in O : p <= o}) = o + 1
    <2> TAKE o \in O
    <2>1. {p \in O : p <= o} = 0 .. (o + 1) - 1 /\ o + 1 \in Nat
      OBVIOUS
    <2> HIDE DEF O
    <2>2. QED
      BY <1>2, <2>1
  <1>5. ASSUME NEW i \in 1 .. 2 * n PROVE Place(i) = i - 1
    <2>1. i - 1 \in O /\ \A o \in O : o + 1 = i <=> o = i - 1
      OBVIOUS
    <2> HIDE DEF O
    <2>2. \A o \in O : Cardinality({p \in O : p <= o}) = i <=> o = i - 1
      BY <1>4, <2>1
    <2>3. QED
      BY <2>1, <2>2
  <1>6. /\ h \in [1 .. n -> Turns]
        /\ h = [i \in 1 .. n |-> messages[c][2 * i - 2].turn]
    <2>1. /\ h = [i \in 1 .. n |-> messages[c][2 * i - 2].turn]
          /\ \A i \in 1 .. n : h[i] \in Turns
      BY HistoryOfPairs
    <2> HIDE DEF h
    <2>2. QED
      BY <2>1
  <1>7. StoredHistory(c) = [i \in 1 .. 2 * n |-> messages[c][i - 1]]
    <2>1. StoredHistory(c) = [i \in 1 .. 2 * n |-> messages[c][Place(i)]]
      BY <1>1, <1>3 DEF StoredHistory
    <2> HIDE DEF Place, O
    <2>2. QED
      BY <1>5, <2>1
  <1> HIDE DEF h, Place
  <1>8. ASSUME NEW j \in 1 .. n
        PROVE  /\ messages[c][2 * j - 2] = [turn |-> h[j], role |-> "user"]
               /\ messages[c][2 * j - 1] = [turn |-> h[j], role |-> "assistant"]
    <2>1. /\ j - 1 \in Nat /\ 2 * (j - 1) = 2 * j - 2 /\ 2 * (j - 1) + 1 = 2 * j - 1
          /\ 2 * (j - 1) \in O
      OBVIOUS
    <2> DEFINE t == messages[c][2 * (j - 1)].turn
    <2>2. /\ messages[c][2 * (j - 1)] = [turn |-> t, role |-> "user"]
          /\ messages[c][2 * (j - 1) + 1] = [turn |-> t, role |-> "assistant"]
      BY <1>1, <2>1 DEF Dialogues
    <2>3. h[j] = t
      BY <1>6, <2>1
    <2> HIDE DEF t
    <2>4. QED
      BY <2>1, <2>2, <2>3
  <1>9. /\ Len(Dialogue(h)) = 2 * n /\ Dialogue(h) \in Seq(Message)
        /\ \A j \in 1 .. n : /\ Dialogue(h)[2 * j - 1] = [turn |-> h[j], role |-> "user"]
                             /\ Dialogue(h)[2 * j] = [turn |-> h[j], role |-> "assistant"]
    BY <1>6, DialogueProperties
  <1>10. ASSUME NEW i \in 1 .. 2 * n PROVE messages[c][i - 1] = Dialogue(h)[i]
    <2>1. PICK j \in 1 .. n : i = 2 * j - 1 \/ i = 2 * j
      <3>1. (i + 1) \div 2 \in 1 .. n
            /\ (i = 2 * ((i + 1) \div 2) - 1 \/ i = 2 * ((i + 1) \div 2))
        OBVIOUS
      <3>2. QED
        BY <3>1
    <2>2. CASE i = 2 * j - 1
      <3>1. i - 1 = 2 * j - 2
        BY <2>2
      <3>2. QED
        BY <1>8, <1>9, <2>2, <3>1
    <2>3. CASE i = 2 * j
      <3>1. i - 1 = 2 * j - 1
        BY <2>3
      <3>2. QED
        BY <1>8, <1>9, <2>3, <3>1
    <2>4. QED
      BY <2>1, <2>2, <2>3
  <1>11. Dialogue(h) = [i \in 1 .. 2 * n |-> Dialogue(h)[i]]
    BY <1>9
  <1>12. QED
    BY <1>7, <1>10, <1>11 DEF h

(* The characters of the newest turns are the partial sums.                *)
LEMMA CharactersAreSums ==
  ASSUME NEW n \in Nat, NEW h \in [1 .. n -> Turns], NEW g \in [0 .. n -> Nat],
         Sums(g, Lengths(h, n), n), NEW k \in 0 .. n
  PROVE  Characters(Latest(h, n, k)) = CurrentLength + 2 * g[k]
  <1> DEFINE f == Lengths(h, n)
             e == Latest(h, n, k)
  <1>1. f \in [1 .. n -> Nat]
    BY MemoryAssumption DEF Lengths
  <1>2. Total([i \in 1 .. k |-> f[n - k + i]]) = g[k]
    BY <1>1, TotalOfEnd
  <1>3. e \in [1 .. k -> Turns] /\ k \in Nat
    BY LatestIsSubSeq
  <1>4. ASSUME NEW i \in 1 .. k PROVE f[n - k + i] = Length[e[i]]
    <2>1. n - k + i \in 1 .. n
      OBVIOUS
    <2>2. QED
      BY <2>1 DEF Latest, Lengths
  <1> HIDE DEF e, f
  <1>5. [i \in 1 .. Len(e) |-> Length[e[i]]] = [i \in 1 .. k |-> f[n - k + i]]
    <2>1. Len(e) = k
      BY <1>3
    <2>2. QED
      BY <1>4, <2>1
  <1>6. QED
    BY <1>2, <1>5 DEF Characters, e

\* How many of m turns there is room for, given their partial sums.
WithinSums(g, m, room) == {j \in 0 .. m : j = 0 \/ CurrentLength + 2 * g[j] <= room}

(* Turns do not get shorter as there are more of them, so the first that   *)
(* does not fit is the end.                                                *)
LEMMA LongestThatFits ==
  ASSUME NEW n \in Nat, NEW f \in [1 .. n -> Nat], NEW g \in [0 .. n -> Nat], Sums(g, f, n),
         NEW m \in 0 .. n, NEW room \in Nat, NEW k \in 0 .. m, Full(g, m, room, k)
  PROVE  Max(WithinSums(g, m, room)) = k
  <1> DEFINE fitting == WithinSums(g, m, room)
  <1> USE DEF WithinSums, Full
  <1>1. k \in fitting /\ fitting \subseteq Int
    OBVIOUS
  <1>2. ASSUME NEW j \in 0 .. m, k < j PROVE CurrentLength + 2 * g[j] > room
    <2>1. k + 1 \in 0 .. n /\ j \in k + 1 .. n /\ k < m /\ j \in 0 .. n
      BY <1>2
    <2>2. g[k + 1] <= g[j]
      BY <2>1, SumsGrow
    <2>3. g[k + 1] \in Nat /\ g[j] \in Nat /\ CurrentLength \in Nat
      BY <2>1, MemoryAssumption
    <2>4. QED
      BY <2>1, <2>2, <2>3, SMTT(30)
  <1>3. \A j \in fitting : k >= j
    <2> SUFFICES ASSUME NEW j \in fitting, k < j PROVE FALSE
      OBVIOUS
    <2>1. j \in 0 .. m /\ j \in 0 .. n /\ j # 0
      OBVIOUS
    <2>2. CurrentLength + 2 * g[j] > room
      BY <1>2, <2>1
    <2>3. g[j] \in Nat /\ CurrentLength \in Nat
      BY <2>1, MemoryAssumption
    <2>4. QED
      BY <2>1, <2>2, <2>3
  <1> HIDE DEF fitting, WithinSums
  <1>4. \A x \in fitting : (\A y \in fitting : x >= y) => x = k
    BY <1>1, <1>3
  <1>5. Max(fitting) = k
    BY <1>1, <1>3, <1>4 DEF Max
  <1>6. QED
    BY <1>5 DEF fitting

\* How many of the latest turns, up to l, fit in the room.
Fitting(h, n, l, room) == {k \in 0 .. l : k = 0 \/ Characters(Latest(h, n, k)) <= room}

(* Of a dialogue, assemble_context keeps as many of the newest turns as    *)
(* both limits leave room for.                                             *)
LEMMA ContextIsLongest ==
  ASSUME NEW n \in Nat, NEW h \in [1 .. n -> Turns], NEW limit \in Nat, NEW room \in Nat
  PROVE  LET l == Min({n, limit})
             fitting == Fitting(h, n, l, room)
             context == AssembleContext(Dialogue(h), limit, room)
         IN  /\ l \in 0 .. n /\ Max(fitting) \in 0 .. l
             /\ context.completed = n
             /\ context.messages = Dialogue(Latest(h, n, Max(fitting)))
  <1> DEFINE l == Min({n, limit})
             fitting == Fitting(h, n, l, room)
             context == AssembleContext(Dialogue(h), limit, room)
             f == Lengths(h, n)
  <1>1. f \in [1 .. n -> Nat]
    BY MemoryAssumption DEF Lengths
  <1>2. PICK g \in [0 .. n -> Nat] : Sums(g, f, n)
    BY <1>1, TotalSums
  <1>3. /\ l \in 0 .. n /\ context.completed = n
        /\ \E k \in 0 .. l : context.messages = Dialogue(Latest(h, n, k)) /\ Full(g, l, room, k)
    BY <1>2, ContextOfDialogue
  <1> HIDE DEF context, l
  <1>4. PICK k \in 0 .. l :
          context.messages = Dialogue(Latest(h, n, k)) /\ Full(g, l, room, k)
    BY <1>3
  <1>5. fitting = WithinSums(g, l, room)
    <2>1. ASSUME NEW j \in 0 .. l
          PROVE  Characters(Latest(h, n, j)) = CurrentLength + 2 * g[j]
      <3>1. j \in 0 .. n
        BY <1>3
      <3>2. QED
        BY <1>2, <3>1, CharactersAreSums
    <2>2. QED
      BY <2>1 DEF Fitting, WithinSums
  <1> HIDE DEF f
  <1>6. Max(WithinSums(g, l, room)) = k
    <2>1. \A m \in 0 .. n : \A j \in 0 .. m : Full(g, m, room, j) => Max(WithinSums(g, m, room)) = j
      BY <1>1, <1>2, LongestThatFits
    <2>2. l \in 0 .. n /\ Full(g, l, room, k)
      BY <1>3, <1>4
    <2>3. QED
      BY <2>1, <2>2
  <1>7. QED
    BY <1>3, <1>4, <1>5, <1>6 DEF context, l

(* The context of every conversation is what the property asks.             *)
LEMMA ContextOfStored ==
  ASSUME StoreInv, Dialogues
  PROVE  ContextIsNewestTurns
  <1> SUFFICES ASSUME NEW c \in Conversations, NEW limits \in Limits
               PROVE  LET limit   == limits[1]
                          room    == limits[2]
                          context == AssembleContext(StoredHistory(c), limit, room)
                          stored  == IF row[c] = "live" THEN TurnsIn(c) ELSE 0
                          fitting == {k \in 0 .. Min({stored, limit}) :
                                        k = 0 \/ Characters(Newest(c, k)) <= room}
                      IN  /\ context.completed = stored
                          /\ context.messages = Dialogue(Newest(c, Max(fitting)))
    BY DEF ContextIsNewestTurns
  <1> DEFINE limit   == limits[1]
             room    == limits[2]
             stored  == IF row[c] = "live" THEN TurnsIn(c) ELSE 0
             seen    == IF row[c] = "live" THEN History(c) ELSE <<>>
             l       == Min({stored, limit})
             fitting == {k \in 0 .. l : k = 0 \/ Characters(Newest(c, k)) <= room}
  <1>1. limit \in Nat /\ room \in Nat
    BY MemoryAssumption
  <1>2. PICK n \in Nat : Holds(c, n)
    BY DEF StoreInv, Paired
  <1>3. TurnsIn(c) = n /\ History(c) \in [1 .. n -> Turns]
    <2>1. /\ TurnsIn(c) = n /\ History(c) = [i \in 1 .. n |-> messages[c][2 * i - 2].turn]
          /\ \A i \in 1 .. n : History(c)[i] \in Turns
      BY <1>2, HistoryOfPairs
    <2>2. QED
      BY <2>1
  <1>4. stored \in 0 .. n /\ seen \in [1 .. stored -> Turns]
    BY <1>3
  <1>5. StoredHistory(c) = Dialogue(seen)
    <2>1. CASE row[c] = "live"
      BY <1>2, <2>1, StoredIsDialogue
    <2>2. CASE row[c] # "live"
      <3>1. 0 \in Nat /\ 2 * 0 = 0 /\ seen = <<>> /\ seen \in [1 .. 0 -> Turns]
        BY <2>2
      <3>2. Dialogue(seen) \in Seq(Message) /\ Len(Dialogue(seen)) = 0
        BY <3>1, DialogueProperties
      <3>3. QED
        BY <2>2, <3>2, EmptySeq DEF StoredHistory
    <2>3. QED
      BY <2>1, <2>2
  <1>6. ASSUME NEW k \in 0 .. stored PROVE Newest(c, k) = Latest(seen, stored, k)
    <2>1. k \in 0 .. n
      BY <1>4
    <2>2. Newest(c, k) = Latest(History(c), n, k)
      BY <1>3, <2>1, LatestIsSubSeq DEF Newest
    <2>3. CASE row[c] = "live"
      BY <1>3, <2>2, <2>3
    <2>4. CASE row[c] # "live"
      BY <2>2, <2>4 DEF Latest
    <2>5. QED
      BY <2>3, <2>4
  <1> HIDE DEF stored, seen, limit, room
  <1> DEFINE latest == Fitting(seen, stored, l, room)
             context == AssembleContext(Dialogue(seen), limit, room)
  <1>7. stored \in Nat
    BY <1>4
  <1>8. /\ l \in 0 .. stored /\ Max(latest) \in 0 .. l
        /\ context.completed = stored
        /\ context.messages = Dialogue(Latest(seen, stored, Max(latest)))
    BY <1>1, <1>4, <1>7, ContextIsLongest
  <1> HIDE DEF context, l
  <1>9. \A k \in 0 .. l : Newest(c, k) = Latest(seen, stored, k)
    BY <1>6, <1>7, <1>8
  <1>10. fitting = latest
    BY <1>9 DEF Fitting
  <1> HIDE DEF latest, fitting
  <1>11. context.messages = Dialogue(Newest(c, Max(fitting)))
    BY <1>8, <1>9, <1>10
  <1>12. QED
    BY <1>5, <1>8, <1>11 DEF context, stored, limit, room, l, fitting

(* Whatever other turns have under way, a turn is given whole turns of its *)
(* conversation, the newest that fit, without a gap                        *)
(* (chat/memory.py:62-91 over chat/storage.py:172-224).                    *)
THEOREM StoreContextIsNewestTurns == Spec => []ContextIsNewestTurns
  <1>1. Init => Dialogues
    <2>1. DOMAIN Nothing = {}
      BY DEF Nothing
    <2>2. QED
      BY <2>1 DEF Init, Dialogues, Ordinals
  <1>2. Spec => []Dialogues
    BY <1>1, DialoguesStep, AlwaysStore, PTL DEF Spec
  <1>3. QED
    BY <1>2, ContextOfStored, AlwaysStore, PTL
==============================================================================
