--------------------------- MODULE ChallengeCache ---------------------------
(***************************************************************************)
(* The proof-of-work challenges of the faucet that were used recently      *)
(* (bin/faucet/src/server/pow.rs): the challenges by time stamp, and the   *)
(* number of them for each API key and each account.                       *)
(*                                                                         *)
(* Time is relative: a challenge carries its age in place of its time      *)
(* stamp, and ages beyond the lifetime are not told apart.                 *)
(***************************************************************************)
EXTENDS Naturals, FiniteSets

CONSTANT Lifetime \* challenge_lifetime, in seconds

ASSUME LifetimeAssumption == Lifetime \in Nat

Ages == 0..(Lifetime + 1)

\* Challenge::is_expired
IsExpired(age) == age > Lifetime

Older(age) == IF IsExpired(age) THEN age ELSE age + 1

\* challenges: a set of [account, key, age]; the counters have an entry for
\* the keys and accounts with a positive count.
EmptyCache == [challenges |-> {}, challenges_per_key |-> << >>, account_ids |-> << >>]

HasChallengeForAccount(cache, account) == account \in DOMAIN cache.account_ids

Count(counter, x) == IF x \in DOMAIN counter THEN counter[x] ELSE 0

Increment(counter, x) ==
    [y \in DOMAIN counter \cup {x} |->
        IF y = x THEN Count(counter, x) + 1 ELSE counter[y]]

\* Mistake: the counters of a challenge are dropped with the first one that
\* expires.
DecrementToZero(counter, n) ==
    [x \in {y \in DOMAIN counter : n[y] = 0} |-> counter[x]]

\* Take away n[x] from every counter and drop the ones that reach zero.
Decrement(counter, n) ==
    [x \in {y \in DOMAIN counter : counter[y] > n[y]} |-> counter[x] - n[x]]

IsNewChallenge(cache, ch) == ch \notin cache.challenges

InsertChallenge(cache, ch) ==
    IF IsNewChallenge(cache, ch)
    THEN [challenges |-> cache.challenges \cup {ch},
          challenges_per_key |-> Increment(cache.challenges_per_key, ch.key),
          account_ids |-> Increment(cache.account_ids, ch.account)]
    ELSE cache

\* Mistake: challenges are forgotten in their last second.
ExpiredEarly(cache) == {ch \in cache.challenges : ch.age >= Lifetime}

Expired(cache) == {ch \in cache.challenges : IsExpired(ch.age)}

ExpiredOfKey(cache, k) == Cardinality({ch \in Expired(cache) : ch.key = k})
ExpiredOfAccount(cache, a) == Cardinality({ch \in Expired(cache) : ch.account = a})

CleanupExpiredChallenges(cache) ==
    [challenges |-> cache.challenges \ Expired(cache),
     challenges_per_key |->
        Decrement(cache.challenges_per_key,
                  [k \in DOMAIN cache.challenges_per_key |-> ExpiredOfKey(cache, k)]),
     account_ids |->
        Decrement(cache.account_ids,
                  [a \in DOMAIN cache.account_ids |-> ExpiredOfAccount(cache, a)])]

\* Whether the clean-up runs into one of its two expects: an expired challenge
\* whose counter is missing, or was already counted down to zero.
CleanupPanics(cache) ==
    \E ch \in Expired(cache) :
        \/ ExpiredOfKey(cache, ch.key) > Count(cache.challenges_per_key, ch.key)
        \/ ExpiredOfAccount(cache, ch.account) > Count(cache.account_ids, ch.account)

\* One second later.
Aged(cache) ==
    [cache EXCEPT !.challenges = {[ch EXCEPT !.age = Older(@)] : ch \in @}]

\* The counters say what the challenges are, and the clean-up cannot panic.
CacheConsistent(cache) ==
    /\ \A ch \in cache.challenges :
          /\ Count(cache.challenges_per_key, ch.key) =
                Cardinality({o \in cache.challenges : o.key = ch.key})
          /\ Count(cache.account_ids, ch.account) =
                Cardinality({o \in cache.challenges : o.account = ch.account})
    /\ DOMAIN cache.challenges_per_key = {ch.key : ch \in cache.challenges}
    /\ DOMAIN cache.account_ids = {ch.account : ch \in cache.challenges}
    /\ ~CleanupPanics(cache)

=============================================================================
