----------------------------- MODULE SyncInvites -----------------------------
(***************************************************************************)
(* The intake of invites by SyncManager (p2p/sync.rs): the rate limiter,   *)
(* keyed by the sender hash of the payload, in front of the cache of       *)
(* active invites.  A limiter entry counts the messages of one window; it  *)
(* is opened by a message, and replaced by the first message after it.     *)
(*                                                                         *)
(* Every call comes from SpotkaBehaviour's handler, which holds &mut self: *)
(* the calls run one after another, so each one is an action.  now is the  *)
(* clock of the device in seconds, which is taken to be monotone.          *)
(***************************************************************************)
EXTENDS Integers, Sequences

CONSTANTS Sender,       \* payload.sender_id_hash
          Token,        \* hashes of invite tokens
          Max,          \* messages per window (10)
          Window,       \* seconds added to the opening time of a window (60)
          Life,         \* seconds added to created_at (86400)
          CreatedAt,    \* values of created_at, which the sender chooses
          Width,        \* 2^64: the addition wraps, as in a release build
          MaxClock      \* bound of the clock

ASSUME LimitAssumption ==
    /\ Max \in Nat \ {0} /\ Window \in Nat
    /\ Life \in Nat /\ MaxClock \in Nat
    /\ Width \in Nat \ {0} /\ CreatedAt \subseteq 0..(Width - 1)

VARIABLES now,
          rate_limit_cache,      \* sender -> (count, reset_time)
          active_invites_cache,  \* token -> expiry
          accepted,              \* history: sender -> the calls let through
          carried                \* history: (token, expiry) of accepted invites

vars == <<now, rate_limit_cache, active_invites_cache, accepted, carried>>

------------------------------------------------------------------------------
(* A count above Max + 1 is refused like Max + 1 is.  Entries in the code  *)
(* start at 1, so count 0 stands for "no entry".                           *)
Limit == [count : 0..(Max + 1), reset_time : Nat]

NoLimit == [count |-> 0, reset_time |-> 0]

NotCached == -1

(* A call let through: when, and the opening time of its window.           *)
Call == [at : Nat, window : Nat]

TypeOK == /\ now \in Nat
          /\ rate_limit_cache \in [Sender -> Limit]
          /\ active_invites_cache \in [Token -> Nat \cup {NotCached}]
          /\ accepted \in [Sender -> Seq(Call)]
          /\ carried \subseteq Token \X Nat

Init == /\ now = 0
        /\ rate_limit_cache = [s \in Sender |-> NoLimit]
        /\ active_invites_cache = [t \in Token |-> NotCached]
        /\ accepted = [s \in Sender |-> <<>>]
        /\ carried = {}

------------------------------------------------------------------------------
Opened == [count |-> 1, reset_time |-> now + Window]

Counted(e) == [e EXCEPT !.count = IF @ <= Max THEN @ + 1 ELSE @]

(* Plausible slips in check_rate_limit: the window lapses a second early;  *)
(* every message pushes the end of the window.                             *)
CheckRateLimit_EarlyReset(e) ==
    IF e = NoLimit \/ now >= e.reset_time THEN Opened ELSE Counted(e)

CheckRateLimit_Sliding(e) ==
    IF e = NoLimit \/ now > e.reset_time THEN Opened
    ELSE [Counted(e) EXCEPT !.reset_time = now + Window]

(* The entry after one more message, which is let through when its count   *)
(* is at most Max.                                                         *)
CheckRateLimit(e) ==
    IF e = NoLimit \/ now > e.reset_time THEN Opened ELSE Counted(e)

LetThrough(e) == CheckRateLimit(e).count <= Max

Expiration(created_at) == (created_at + Life) % Width

(* process_direct_invite, which a second arrival of a token overwrites;    *)
(* and with the lifetime counted backwards.                                *)
ProcessDirectInvite_Backwards(t, created_at) ==
    /\ active_invites_cache' = [active_invites_cache EXCEPT ![t] = created_at - Life - 1]
    /\ carried' = carried \cup {<<t, Expiration(created_at)>>}

ProcessDirectInvite(t, created_at) ==
    /\ active_invites_cache' = [active_invites_cache EXCEPT ![t] = Expiration(created_at)]
    /\ carried' = carried \cup {<<t, Expiration(created_at)>>}

(* An invite that is let through; one for somebody else changes nothing    *)
(* but the limiter.                                                        *)
InviteAccepted(s) ==
    /\ LetThrough(rate_limit_cache[s])
    /\ rate_limit_cache' = [rate_limit_cache EXCEPT ![s] = CheckRateLimit(@)]
    /\ accepted' = [accepted EXCEPT ![s] =
           Append(@, [at |-> now, window |-> rate_limit_cache'[s].reset_time - Window])]
    /\ \/ \E t \in Token, created_at \in CreatedAt : ProcessDirectInvite(t, created_at)
       \/ UNCHANGED <<active_invites_cache, carried>>
    /\ UNCHANGED now

(* A refusal that stores the invite before it looks at the limiter.        *)
InviteRefused_StoredFirst(s) ==
    /\ ~LetThrough(rate_limit_cache[s])
    /\ rate_limit_cache' = [rate_limit_cache EXCEPT ![s] = CheckRateLimit(@)]
    /\ \E t \in Token : active_invites_cache' = [active_invites_cache EXCEPT ![t] = now + Life]
    /\ UNCHANGED <<now, accepted, carried>>

InviteRefused(s) ==
    /\ ~LetThrough(rate_limit_cache[s])
    /\ rate_limit_cache' = [rate_limit_cache EXCEPT ![s] = CheckRateLimit(@)]
    /\ UNCHANGED <<now, active_invites_cache, accepted, carried>>

cleanup_expired_invites ==
    /\ active_invites_cache' = [t \in Token |->
           IF active_invites_cache[t] > now THEN active_invites_cache[t] ELSE NotCached]
    /\ UNCHANGED <<now, rate_limit_cache, accepted, carried>>

(* The histories are those of one session and end with it.                 *)
shutdown ==
    /\ rate_limit_cache' = [s \in Sender |-> NoLimit]
    /\ active_invites_cache' = [t \in Token |-> NotCached]
    /\ accepted' = [s \in Sender |-> <<>>]
    /\ carried' = {}
    /\ UNCHANGED now

Tick == /\ now < MaxClock
        /\ now' = now + 1
        /\ UNCHANGED <<rate_limit_cache, active_invites_cache, accepted, carried>>

Next == \/ \E s \in Sender : InviteAccepted(s) \/ InviteRefused(s)
        \/ cleanup_expired_invites \/ shutdown \/ Tick

Spec == Init /\ [][Next]_vars

------------------------------------------------------------------------------
(* The i-th call of s let through, and how many there were.                *)
At(s, i) == accepted[s][i].at

Calls(s) == Len(accepted[s])

(* What a fixed window really limits: at most 2 * Max calls of one sender  *)
(* are let through in any Window + 2 consecutive seconds, however the      *)
(* windows lie (check_rate_limit).                                         *)
TwoWindowsBound ==
    \A s \in Sender : \A i \in 1..Calls(s) :
        i + 2 * Max <= Calls(s) => At(s, i + 2 * Max) > At(s, i) + Window + 1

(* The limiter is not hasty: a refused sender has had Max calls let        *)
(* through within the last Window + 1 seconds.  Refused calls count on but *)
(* do not prolong the refusal, and no sender pays for another.             *)
RefusalEarned ==
    \A s \in Sender : ~LetThrough(rate_limit_cache[s]) =>
        /\ Calls(s) >= Max
        /\ At(s, Calls(s) - Max + 1) + Window >= now

(* What the limiter refuses leaves no trace: a cached token came with an   *)
(* invite that was let through, and expires when that invite says.         *)
CacheEarned ==
    \A t \in Token : active_invites_cache[t] # NotCached =>
        <<t, active_invites_cache[t]>> \in carried

==============================================================================
