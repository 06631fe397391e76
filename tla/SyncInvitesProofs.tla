-------------------------- MODULE SyncInvitesProofs --------------------------
(***************************************************************************)
(* What check_rate_limit (p2p/sync.rs) guarantees for every limit, window  *)
(* length and set of senders.  The invariant ties the limiter's entry to   *)
(* the history: the entry counts the last calls let through, all of its    *)
(* window; the calls before them belong to windows that had ended before   *)
(* this one opened; and calls Max apart belong to different windows.       *)
(***************************************************************************)
EXTENDS SyncInvites, SequenceTheorems, TLAPS

WindowOf(s, i) == accepted[s][i].window

Entry(s) == rate_limit_cache[s]

(* How many of the calls let through the entry stands for.                 *)
Counting(s) == IF Entry(s).count <= Max THEN Entry(s).count ELSE Max

(* A call lies in its window, and in the past.                             *)
CallsInWindows(s) ==
    \A i \in 1..Calls(s) : /\ WindowOf(s, i) <= At(s, i)
                           /\ At(s, i) <= WindowOf(s, i) + Window
                           /\ At(s, i) <= now

(* The entry and the end of the history agree.                             *)
EntryMatches(s) ==
    IF Entry(s) = NoLimit THEN Calls(s) = 0
    ELSE /\ Entry(s).count >= 1
         /\ Entry(s).reset_time >= Window
         /\ Entry(s).reset_time <= now + Window
         /\ Counting(s) <= Calls(s)
         /\ \A i \in 1..Calls(s) :
               IF i > Calls(s) - Counting(s)
               THEN WindowOf(s, i) = Entry(s).reset_time - Window
               ELSE WindowOf(s, i) + Window < Entry(s).reset_time - Window

(* Calls Max apart are in different windows, the first of which has ended. *)
WindowsApart(s) ==
    \A i \in 1..Calls(s) :
        i + Max <= Calls(s) => WindowOf(s, i) + Window < WindowOf(s, i + Max)

IInv == /\ TypeOK
        /\ \A s \in Sender : CallsInWindows(s) /\ EntryMatches(s) /\ WindowsApart(s)

------------------------------------------------------------------------------
(* The numbers in an entry and in a history.                               *)
LEMMA LimitNumbers ==
    ASSUME NEW l \in Limit
    PROVE  l.count \in Nat /\ l.count <= Max + 1 /\ l.reset_time \in Nat
  BY LimitAssumption DEF Limit

LEMMA CallNumbers ==
    ASSUME NEW s \in Sender, accepted[s] \in Seq(Call)
    PROVE  /\ Calls(s) \in Nat
           /\ \A i \in 1..Calls(s) : At(s, i) \in Nat /\ WindowOf(s, i) \in Nat
  <1>1. \A i \in 1..Calls(s) : accepted[s][i] \in Call
    BY ElementOfSeq DEF Calls
  <1> QED
    BY <1>1 DEF At, WindowOf, Call, Calls

(* One more message: what check_rate_limit makes of an entry.              *)
LEMMA CheckedEntry ==
    ASSUME TypeOK, NEW s \in Sender
    PROVE  /\ CheckRateLimit(Entry(s)) \in Limit
           /\ CheckRateLimit(Entry(s)).count >= 1
           /\ \/ /\ CheckRateLimit(Entry(s)) = Opened
                 /\ Entry(s) = NoLimit \/ now > Entry(s).reset_time
              \/ /\ Entry(s) # NoLimit
                 /\ now <= Entry(s).reset_time
                 /\ CheckRateLimit(Entry(s)).reset_time = Entry(s).reset_time
                 /\ CheckRateLimit(Entry(s)).count
                      = IF Entry(s).count <= Max THEN Entry(s).count + 1 ELSE Entry(s).count
           /\ CheckRateLimit(Entry(s)).reset_time >= now
  <1>1. Entry(s) \in Limit /\ now \in Nat
    BY DEF TypeOK, Entry
  <1>2. Opened \in Limit /\ Opened.count = 1 /\ Opened.reset_time >= now
    BY <1>1, LimitAssumption DEF Opened, Limit
  <1>3. CASE Entry(s) = NoLimit \/ now > Entry(s).reset_time
    BY <1>2, <1>3 DEF CheckRateLimit
  <1>4. CASE ~(Entry(s) = NoLimit \/ now > Entry(s).reset_time)
    <2>1. CheckRateLimit(Entry(s)) = Counted(Entry(s))
      BY <1>4 DEF CheckRateLimit
    <2>2. Counted(Entry(s)) = [count |-> IF Entry(s).count <= Max THEN Entry(s).count + 1
                                         ELSE Entry(s).count,
                               reset_time |-> Entry(s).reset_time]
      BY <1>1 DEF Counted, Limit
    <2>3. Entry(s).count >= 1 \/ Entry(s).count = 0
      BY <1>1, LimitAssumption DEF Limit
    <2> QED
      BY <1>1, <1>4, <2>1, <2>2, <2>3, LimitAssumption DEF Limit
  <1> QED
    BY <1>3, <1>4

(* A message of s, let through or not, says nothing about other senders.   *)
LEMMA OthersKeep ==
    ASSUME IInv, NEW s \in Sender, now' = now,
           Entry(s)' = Entry(s), accepted'[s] = accepted[s]
    PROVE  (CallsInWindows(s) /\ EntryMatches(s) /\ WindowsApart(s))'
  BY DEF IInv, CallsInWindows, EntryMatches, WindowsApart, Calls, At, WindowOf, Entry, Counting

------------------------------------------------------------------------------
(* A call let through: InviteAccepted in both of its cases, a new window   *)
(* and a window that goes on.                                              *)
LEMMA AcceptedKeepsIInv ==
    ASSUME IInv, NEW s \in Sender, InviteAccepted(s)
    PROVE  IInv'
  <1> USE LimitAssumption
  <1> DEFINE e == Entry(s)
             f == CheckRateLimit(e)
             c == [at |-> now, window |-> f.reset_time - Window]
  <1>1. TypeOK /\ now' = now /\ now \in Nat
    BY DEF IInv, TypeOK, InviteAccepted
  <1>2. /\ e \in Limit /\ f \in Limit /\ f.count >= 1 /\ f.count <= Max
        /\ \/ f = Opened /\ (e = NoLimit \/ now > e.reset_time)
           \/ /\ e # NoLimit /\ now <= e.reset_time
              /\ f.reset_time = e.reset_time /\ f.count = e.count + 1
        /\ f.reset_time >= now
    <2>1. f.count <= Max
      BY DEF InviteAccepted, LetThrough, Entry
    <2>2. e \in Limit
      BY <1>1 DEF TypeOK, Entry
    <2>3. /\ e.count \in Nat /\ f \in Limit /\ f.count >= 1 /\ f.reset_time >= now
          /\ \/ f = Opened /\ (e = NoLimit \/ now > e.reset_time)
             \/ /\ e # NoLimit /\ now <= e.reset_time /\ f.reset_time = e.reset_time
                /\ f.count = IF e.count <= Max THEN e.count + 1 ELSE e.count
      BY <1>1, <2>2, CheckedEntry, LimitNumbers
    <2> QED
      BY <2>1, <2>2, <2>3
  <1>n. /\ e.count \in Nat /\ e.reset_time \in Nat
        /\ f.count \in Nat /\ f.reset_time \in Nat
    BY <1>2, LimitNumbers
  <1>3. /\ rate_limit_cache' = [rate_limit_cache EXCEPT ![s] = f]
        /\ Entry(s)' = f
    BY <1>1 DEF InviteAccepted, Entry, TypeOK
  <1>4. EntryMatches(s) /\ CallsInWindows(s) /\ WindowsApart(s)
    BY DEF IInv
  <1>5. f.reset_time >= Window /\ f.reset_time <= now + Window /\ f # NoLimit
    BY <1>1, <1>2, <1>4 DEF Opened, EntryMatches, NoLimit
  <1>6. c \in Call
    BY <1>1, <1>2, <1>5 DEF Call, Limit
  <1>t. accepted[s] \in Seq(Call)
    BY <1>1 DEF TypeOK
  <1>7. PICK n \in Nat : n = Calls(s)
    BY <1>t, CallNumbers
  <1>8. accepted' = [accepted EXCEPT ![s] = Append(@, c)]
    BY <1>3 DEF InviteAccepted, Entry
  <1>9. /\ accepted'[s] \in Seq(Call)
        /\ Calls(s)' = n + 1
        /\ \A i \in 1..n : accepted'[s][i] = accepted[s][i]
        /\ accepted'[s][n + 1] = c
    BY <1>1, <1>t, <1>6, <1>7, <1>8, AppendProperties DEF TypeOK, Calls
  <1>10. /\ \A i \in 1..n : At(s, i)' = At(s, i) /\ WindowOf(s, i)' = WindowOf(s, i)
         /\ \A i \in 1..n : At(s, i) \in Nat /\ WindowOf(s, i) \in Nat
         /\ At(s, n + 1)' = now /\ WindowOf(s, n + 1)' = f.reset_time - Window
    <2>1. n + 1 \in 1..(n + 1)
      BY <1>7
    <2>2. /\ accepted'[s][n + 1].at = now
          /\ accepted'[s][n + 1].window = f.reset_time - Window
      BY <1>9
    <2>3. \A i \in 1..n : At(s, i) \in Nat /\ WindowOf(s, i) \in Nat
      BY <1>t, <1>7, CallNumbers
    <2> QED
      BY <1>9, <2>2, <2>3 DEF At, WindowOf
  <1>11. TypeOK'
    <2>1. rate_limit_cache' \in [Sender -> Limit] /\ accepted' \in [Sender -> Seq(Call)]
      BY <1>1, <1>2, <1>3, <1>8, <1>9 DEF TypeOK
    <2>2. /\ active_invites_cache' \in [Token -> Nat \cup {NotCached}]
          /\ carried' \subseteq Token \X Nat
      <3>1. CASE UNCHANGED <<active_invites_cache, carried>>
        BY <1>1, <3>1 DEF TypeOK
      <3>2. CASE \E t \in Token, created_at \in CreatedAt : ProcessDirectInvite(t, created_at)
        <4>1. PICK t \in Token, created_at \in CreatedAt : ProcessDirectInvite(t, created_at)
          BY <3>2
        <4>2. Expiration(created_at) \in Nat
          <5>1. created_at + Life \in Nat /\ Width \in Nat \ {0}
            BY LimitAssumption
          <5> QED
            BY <5>1 DEF Expiration
        <4> QED
          BY <1>1, <4>1, <4>2 DEF TypeOK, ProcessDirectInvite
      <3> QED
        BY <3>1, <3>2 DEF InviteAccepted
    <2> QED
      BY <1>1, <2>1, <2>2 DEF TypeOK
  <1> HIDE DEF f, c, e
  <1>12. CallsInWindows(s)'
    <2> SUFFICES ASSUME NEW i \in 1..(n + 1)
                 PROVE  /\ WindowOf(s, i)' <= At(s, i)'
                        /\ At(s, i)' <= WindowOf(s, i)' + Window
                        /\ At(s, i)' <= now
      BY <1>1, <1>9 DEF CallsInWindows
    <2>1. CASE i = n + 1
      BY <1>1, <1>2, <1>n, <1>5, <1>10, <2>1
    <2>2. CASE i \in 1..n
      BY <1>4, <1>7, <1>10, <2>2 DEF CallsInWindows
    <2> QED
      BY <1>7, <2>1, <2>2
  <1>13. /\ Counting(s)' = f.count
         /\ \A i \in 1..n :
               IF i > n + 1 - f.count
               THEN WindowOf(s, i) = f.reset_time - Window
               ELSE WindowOf(s, i) + Window < f.reset_time - Window
         /\ f.count <= n + 1
    <2>1. Counting(s)' = f.count
      BY <1>2, <1>3 DEF Counting, Entry
    <2>2. CASE f = Opened /\ e = NoLimit
      BY <1>2, <1>4, <1>7, <2>1, <2>2 DEF EntryMatches, Opened, e
    <2>3. CASE f = Opened /\ e # NoLimit /\ now > e.reset_time
      <3>1. f.count = 1 /\ f.reset_time = now + Window
        BY <2>3 DEF Opened
      <3>2. \A i \in 1..n : WindowOf(s, i) + Window <= e.reset_time
        BY <1>4, <1>n, <1>7, <1>10, <2>3 DEF EntryMatches, e
      <3> QED
        BY <1>1, <1>n, <1>7, <1>10, <2>1, <2>3, <3>1, <3>2
    <2>4. CASE /\ e # NoLimit /\ now <= e.reset_time
               /\ f.reset_time = e.reset_time /\ f.count = e.count + 1
      <3>1. Counting(s) = e.count
        BY <1>2, <1>n, <2>4 DEF Counting, e
      <3> QED
        BY <1>n, <1>4, <1>7, <2>1, <2>4, <3>1 DEF EntryMatches, e
    <2> QED
      BY <1>2, <2>2, <2>3, <2>4
  <1>14. EntryMatches(s)'
    <2>1. \A i \in 1..(n + 1) :
               IF i > n + 1 - f.count
               THEN WindowOf(s, i)' = f.reset_time - Window
               ELSE WindowOf(s, i)' + Window < f.reset_time - Window
      BY <1>2, <1>n, <1>7, <1>10, <1>13
    <2> QED
      BY <1>1, <1>2, <1>n, <1>3, <1>5, <1>9, <1>13, <2>1 DEF EntryMatches
  <1>15. WindowsApart(s)'
    <2> SUFFICES ASSUME NEW i \in 1..(n + 1), i + Max <= n + 1
                 PROVE  WindowOf(s, i)' + Window < WindowOf(s, i + Max)'
      BY <1>9 DEF WindowsApart
    <2>1. CASE i + Max = n + 1
      <3>1. i \in 1..n /\ i <= n + 1 - f.count
        BY <1>2, <1>n, <1>7, <2>1
      <3> QED
        BY <1>n, <1>7, <1>10, <1>13, <2>1, <3>1
    <2>2. CASE i + Max <= n
      BY <1>4, <1>7, <1>10, <2>2 DEF WindowsApart
    <2> QED
      BY <1>7, <2>1, <2>2
  <1>16. ASSUME NEW q \in Sender, q # s
         PROVE  (CallsInWindows(q) /\ EntryMatches(q) /\ WindowsApart(q))'
    BY <1>1, <1>3, <1>8, <1>16, OthersKeep DEF Entry, TypeOK
  <1> QED
    BY <1>11, <1>12, <1>14, <1>15, <1>16 DEF IInv

(* A refusal keeps the history; the entry counts Max calls as before.      *)
LEMMA RefusedKeepsIInv ==
    ASSUME IInv, NEW s \in Sender, InviteRefused(s)
    PROVE  IInv'
  <1> USE LimitAssumption
  <1> DEFINE e == Entry(s)
             f == CheckRateLimit(e)
  <1>1. TypeOK /\ now' = now /\ now \in Nat /\ accepted' = accepted
    BY DEF IInv, TypeOK, InviteRefused
  <1>2. /\ e \in Limit /\ f \in Limit /\ f.count > Max
        /\ e # NoLimit /\ f.reset_time = e.reset_time /\ e.count >= Max
    <2>1. f.count > Max
      BY <1>1, CheckedEntry DEF InviteRefused, LetThrough, Entry, Limit
    <2>2. e \in Limit
      BY <1>1 DEF TypeOK, Entry
    <2> QED
      BY <1>1, <2>1, <2>2, CheckedEntry DEF Opened, Limit
  <1>3. rate_limit_cache' = [rate_limit_cache EXCEPT ![s] = f] /\ Entry(s)' = f
    BY <1>1 DEF InviteRefused, Entry, TypeOK
  <1>4. TypeOK'
    BY <1>1, <1>2, <1>3 DEF TypeOK, InviteRefused
  <1>5. EntryMatches(s) /\ CallsInWindows(s) /\ WindowsApart(s)
    BY DEF IInv
  <1> HIDE DEF e, f
  <1>6. f # NoLimit
    BY <1>2 DEF NoLimit
  <1>7. Counting(s)' = Max /\ Counting(s) = Max
    BY <1>2, <1>3 DEF Counting, Limit, Entry, e
  <1>8. \A i \in 1..Calls(s) : WindowOf(s, i)' = WindowOf(s, i) /\ At(s, i)' = At(s, i)
    BY <1>1 DEF WindowOf, At
  <1>9. Calls(s)' = Calls(s)
    BY <1>1 DEF Calls
  <1>10. EntryMatches(s)'
    BY <1>1, <1>2, <1>3, <1>5, <1>6, <1>7, <1>8, <1>9 DEF EntryMatches, e, Limit
  <1>11. CallsInWindows(s)' /\ WindowsApart(s)'
    BY <1>1, <1>5 DEF CallsInWindows, WindowsApart, Calls, At, WindowOf
  <1>12. ASSUME NEW q \in Sender, q # s
         PROVE  (CallsInWindows(q) /\ EntryMatches(q) /\ WindowsApart(q))'
    BY <1>1, <1>3, <1>12, OthersKeep DEF Entry, TypeOK
  <1> QED
    BY <1>4, <1>10, <1>11, <1>12 DEF IInv

(* A new session starts with no entry and no history.                      *)
LEMMA FreshIsIInv == (Init => IInv) /\ (TypeOK /\ shutdown => IInv')
  <1>1. Init => IInv
    BY LimitAssumption DEF Init, IInv, TypeOK, CallsInWindows, EntryMatches, WindowsApart,
       Calls, Entry, Limit, NoLimit
  <1>2. TypeOK /\ shutdown => IInv'
    BY LimitAssumption DEF shutdown, IInv, TypeOK, CallsInWindows, EntryMatches, WindowsApart,
       Calls, Entry, Limit, NoLimit
  <1> QED
    BY <1>1, <1>2

(* Time passes: every comparison with now is an upper bound.               *)
LEMMA TickKeepsIInv ==
    ASSUME IInv, Tick
    PROVE  IInv'
  <1>1. TypeOK /\ now \in Nat /\ now' = now + 1 /\ TypeOK'
    BY DEF IInv, TypeOK, Tick
  <1>2. rate_limit_cache' = rate_limit_cache /\ accepted' = accepted
    BY DEF Tick
  <1> SUFFICES ASSUME NEW s \in Sender
               PROVE  (CallsInWindows(s) /\ EntryMatches(s) /\ WindowsApart(s))'
    BY <1>1 DEF IInv
  <1>3. CallsInWindows(s) /\ EntryMatches(s) /\ WindowsApart(s)
    BY DEF IInv
  <1>4. Entry(s) \in Limit /\ accepted[s] \in Seq(Call)
    BY <1>1 DEF TypeOK, Entry
  <1>5. \A i \in 1..Calls(s) : At(s, i) \in Nat
    BY <1>4, CallNumbers
  <1>6. CallsInWindows(s)'
    BY <1>1, <1>2, <1>3, <1>5 DEF CallsInWindows, Calls, At, WindowOf
  <1>7. EntryMatches(s)'
    BY <1>1, <1>2, <1>3, <1>4, LimitAssumption
       DEF EntryMatches, Entry, Counting, Calls, WindowOf, Limit
  <1>8. WindowsApart(s)'
    BY <1>2, <1>3 DEF WindowsApart, Calls, WindowOf
  <1> QED
    BY <1>6, <1>7, <1>8

(* Every call, the cleanup, a shutdown and the clock keep the invariant.   *)
LEMMA NextKeepsIInv == IInv /\ [Next]_vars => IInv'
  <1> SUFFICES ASSUME IInv, [Next]_vars PROVE IInv'
    OBVIOUS
  <1>1. ASSUME NEW s \in Sender, InviteAccepted(s) PROVE IInv'
    BY <1>1, AcceptedKeepsIInv
  <1>2. ASSUME NEW s \in Sender, InviteRefused(s) PROVE IInv'
    BY <1>2, RefusedKeepsIInv
  <1>3. CASE cleanup_expired_invites
    <2>1. TypeOK'
      BY <1>3 DEF cleanup_expired_invites, IInv, TypeOK
    <2>2. now' = now /\ rate_limit_cache' = rate_limit_cache /\ accepted' = accepted
      BY <1>3 DEF cleanup_expired_invites
    <2> QED
      BY <2>1, <2>2, OthersKeep DEF IInv, Entry
  <1>4. CASE shutdown
    BY <1>4, FreshIsIInv DEF IInv
  <1>5. CASE Tick
    BY <1>5, TickKeepsIInv
  <1>6. CASE UNCHANGED vars
    <2>1. TypeOK' /\ now' = now /\ rate_limit_cache' = rate_limit_cache /\ accepted' = accepted
      BY <1>6 DEF vars, IInv, TypeOK
    <2> QED
      BY <2>1, OthersKeep DEF IInv, Entry
  <1> QED
    BY <1>1, <1>2, <1>3, <1>4, <1>5, <1>6 DEF Next

------------------------------------------------------------------------------
(* The invariant holds in every reachable state.                           *)
THEOREM LimiterInvariant == Spec => []IInv
  <1>1. Init => IInv
    BY FreshIsIInv
  <1> QED
    BY <1>1, NextKeepsIInv, PTL DEF Spec

(* Counters, deadlines and the history stay numbers of their types.        *)
THEOREM LimiterTypeCorrect == Spec => []TypeOK
  <1>1. IInv => TypeOK
    BY DEF IInv
  <1> QED
    BY <1>1, LimiterInvariant, PTL

(* check_rate_limit lets at most 2 * Max calls of a sender through in any  *)
(* Window + 2 consecutive seconds.                                         *)
THEOREM TwoWindowsBounded == Spec => []TwoWindowsBound
  <1>1. IInv => TwoWindowsBound
    <2> SUFFICES ASSUME IInv, NEW s \in Sender, NEW i \in 1..Calls(s),
                        i + 2 * Max <= Calls(s)
                 PROVE  At(s, i + 2 * Max) > At(s, i) + Window + 1
      BY DEF TwoWindowsBound
    <2> USE LimitAssumption
    <2>1. Calls(s) \in Nat /\ accepted[s] \in Seq(Call)
      BY DEF IInv, TypeOK, Calls
    <2>2. /\ i + Max \in 1..Calls(s) /\ i + 2 * Max \in 1..Calls(s)
          /\ (i + Max) + Max = i + 2 * Max /\ i + Max <= Calls(s)
      BY <2>1
    <2>3. \A j \in 1..Calls(s) : At(s, j) \in Nat /\ WindowOf(s, j) \in Nat
      BY <2>1, CallNumbers
    <2>4. /\ At(s, i) <= WindowOf(s, i) + Window
          /\ WindowOf(s, i + 2 * Max) <= At(s, i + 2 * Max)
      BY <2>2 DEF IInv, CallsInWindows
    <2>5. WindowOf(s, i) + Window < WindowOf(s, i + Max)
      BY <2>2 DEF IInv, WindowsApart
    <2>6. WindowOf(s, i + Max) + Window < WindowOf(s, i + 2 * Max)
      BY <2>2 DEF IInv, WindowsApart
    <2> QED
      BY <2>2, <2>3, <2>4, <2>5, <2>6
  <1> QED
    BY <1>1, LimiterInvariant, PTL

(* What the limiter refuses leaves no token in active_invites_cache        *)
(* (handle_invite asks it before process_direct_invite stores).            *)
THEOREM CacheIsEarned == Spec => []CacheEarned
  <1>1. Init => CacheEarned
    BY DEF Init, CacheEarned
  <1>2. IInv /\ CacheEarned /\ [Next]_vars => CacheEarned'
    <2> SUFFICES ASSUME IInv, CacheEarned, [Next]_vars, NEW t \in Token,
                        active_invites_cache'[t] # NotCached
                 PROVE  <<t, active_invites_cache'[t]>> \in carried'
      BY DEF CacheEarned
    <2>1. active_invites_cache \in [Token -> Nat \cup {NotCached}]
      BY DEF IInv, TypeOK
    <2>2. ASSUME NEW s \in Sender, InviteAccepted(s)
          PROVE  <<t, active_invites_cache'[t]>> \in carried'
      BY <2>1, <2>2 DEF InviteAccepted, ProcessDirectInvite, CacheEarned
    <2>3. ASSUME NEW s \in Sender, InviteRefused(s)
          PROVE  <<t, active_invites_cache'[t]>> \in carried'
      BY <2>3 DEF InviteRefused, CacheEarned
    <2>4. CASE cleanup_expired_invites
      BY <2>4 DEF cleanup_expired_invites, CacheEarned
    <2>5. CASE shutdown
      BY <2>5 DEF shutdown
    <2>6. CASE Tick \/ UNCHANGED vars
      BY <2>6 DEF Tick, vars, CacheEarned
    <2> QED
      BY <2>2, <2>3, <2>4, <2>5, <2>6 DEF Next
  <1> QED
    BY <1>1, <1>2, LimiterInvariant, PTL DEF Spec

(* check_rate_limit refuses only a sender that has just had its Max calls. *)
THEOREM RefusalsAreEarned == Spec => []RefusalEarned
  <1>1. IInv => RefusalEarned
    <2> SUFFICES ASSUME IInv, NEW s \in Sender, ~LetThrough(rate_limit_cache[s])
                 PROVE  Calls(s) >= Max /\ At(s, Calls(s) - Max + 1) + Window >= now
      BY DEF RefusalEarned
    <2> USE LimitAssumption
    <2>1. TypeOK /\ EntryMatches(s) /\ CallsInWindows(s)
      BY DEF IInv
    <2>2. Entry(s) \in Limit /\ now \in Nat /\ Calls(s) \in Nat /\ accepted[s] \in Seq(Call)
      BY <2>1 DEF TypeOK, Entry, Calls
    <2>3. Entry(s) # NoLimit /\ now <= Entry(s).reset_time /\ Entry(s).count >= Max
      BY <2>1, <2>2, CheckedEntry DEF LetThrough, Entry, Opened, Limit
    <2>4. Counting(s) = Max
      BY <2>2, <2>3 DEF Counting, Limit
    <2>5. Calls(s) >= Max
      BY <2>1, <2>3, <2>4 DEF EntryMatches
    <2> DEFINE k == Calls(s) - Max + 1
    <2>6. k \in 1..Calls(s) /\ k > Calls(s) - Max
      BY <2>2, <2>5
    <2>7. WindowOf(s, k) = Entry(s).reset_time - Window
      BY <2>1, <2>3, <2>4, <2>6 DEF EntryMatches
    <2>8. WindowOf(s, k) <= At(s, k) /\ At(s, k) \in Nat
      BY <2>1, <2>2, <2>6, CallNumbers DEF CallsInWindows
    <2> QED
      BY <2>2, <2>3, <2>5, <2>7, <2>8 DEF Limit
  <1> QED
    BY <1>1, LimiterInvariant, PTL
==============================================================================
