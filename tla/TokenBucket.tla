---------------------------- MODULE TokenBucket -----------------------------
(***************************************************************************)
(* The max_rps cap of one provider: its token bucket, the limiter that     *)
(* hot reload installs, retunes and removes (HealthMonitor::               *)
(* apply_rate_limit), and the requests that spend its tokens.              *)
(*                                                                         *)
(* The code's f64 tokens are counted in units, Unit of them to a token and *)
(* Unit ticks to a second, so a tick accrues `rate' units exactly; the     *)
(* rounding of f64 is left out.  The code stores when a bucket was last    *)
(* refilled, the model how many ticks ago (`idle').                        *)
(*                                                                         *)
(* try_acquire and snapshots_with_tips clone the Arc of the limiter under  *)
(* the map's lock and spend, or peek, under the bucket's lock afterwards:  *)
(* a reload may come between, and the token then comes from a limiter      *)
(* nobody else sees any more.  So every bucket ever installed stays in     *)
(* `buckets'.                                                              *)
(***************************************************************************)
EXTENDS Integers

CONSTANTS
    Unit,           \* units per token, and ticks per second
    Rates,          \* the max_rps values the config may give
    Request,        \* the dispatches that may run at once
    MaxInstalls,    \* bound: limiters installed in all
    MaxTicks        \* bound: ticks that pass

ASSUME BucketAssumption ==
    /\ Unit \in Nat \ {0}
    /\ Rates \subseteq Nat
    /\ MaxInstalls \in Nat /\ MaxTicks \in Nat

VARIABLES
    buckets,    \* [1..MaxInstalls -> Bucket]
    installed,  \* how many of them were installed so far
    limiter,    \* ProviderEntry.limiter: the current one, or None
    holding,    \* [Request -> the limiter it has cloned, or None]
    ticks       \* time passed (bounds the model only)

vars == <<buckets, installed, limiter, holding, ticks>>

None == 0

(* spent and allowance are histories: the units taken out, and the most the *)
(* configured rates permit, one burst and `rate' per tick.                  *)
Bucket == [tokens : Nat, capacity : Nat, rate : Nat, idle : Nat,
           spent : Nat, allowance : Nat]

New(max_rps) ==
    [tokens |-> max_rps * Unit, capacity |-> max_rps * Unit, rate |-> max_rps,
     idle |-> 0, spent |-> 0, allowance |-> max_rps * Unit]

Least(x, y) == IF x <= y THEN x ELSE y

(* What a refill now would leave in the bucket. *)
Level(b) == Least(b.tokens + b.idle * b.rate, b.capacity)

(* Mutant: the time since `last' is rounded down to whole seconds. *)
refill_whole(b) ==
    [b EXCEPT !.tokens = Least(@ + (b.idle \div Unit) * b.capacity, b.capacity),
              !.idle = 0]

refill(b) == [b EXCEPT !.tokens = Level(b), !.idle = 0]

(* Mutant: any fraction of a token is enough. *)
HasFraction(b) == b.tokens > 0

HasToken(b) == b.tokens >= Unit

(* Mutant: the token is granted but stays in the bucket. *)
take_nothing(b) == [b EXCEPT !.spent = @ + Unit]

take(b) == [b EXCEPT !.tokens = @ - Unit, !.spent = @ + Unit]

try_acquire(b) ==
    LET full == refill(b) IN IF HasToken(full) THEN take(full) ELSE full

(* Mutant: the bucket is built anew. *)
reconfigure_afresh(b, max_rps) ==
    [New(max_rps) EXCEPT !.spent = b.spent, !.allowance = b.allowance]

reconfigure(b, max_rps) ==
    [refill(b) EXCEPT !.capacity = max_rps * Unit, !.rate = max_rps,
                      !.tokens = Least(@, max_rps * Unit)]

-----------------------------------------------------------------------------
(* The provider starts with a cap, or without one (build_limiter). *)
Init ==
    /\ ticks = 0
    /\ holding = [r \in Request |-> None]
    /\ \/ /\ MaxInstalls > 0
          /\ \E max_rps \in Rates :
                buckets = [g \in 1..MaxInstalls |-> New(IF g = 1 THEN max_rps ELSE 0)]
          /\ installed = 1 /\ limiter = 1
       \/ /\ buckets = [g \in 1..MaxInstalls |-> New(0)]
          /\ installed = 0 /\ limiter = None

(* The first half of HealthMonitor::try_acquire and of snapshots_with_tips: *)
(* the Arc is cloned.  Without a cap there is nothing to peek at or spend.  *)
CloneLimiter(r) ==
    /\ holding[r] = None /\ limiter # None
    /\ holding' = [holding EXCEPT ![r] = limiter]
    /\ UNCHANGED <<buckets, installed, limiter, ticks>>

Uncapped(r) ==
    /\ holding[r] = None /\ limiter = None
    /\ UNCHANGED vars

(* The second half of snapshots_with_tips: the peek refills. *)
has_capacity(r) ==
    /\ holding[r] # None
    /\ buckets' = [buckets EXCEPT ![holding[r]] = refill(@)]
    /\ holding' = [holding EXCEPT ![r] = None]
    /\ UNCHANGED <<installed, limiter, ticks>>

(* The second half of HealthMonitor::try_acquire. *)
Spend(r) ==
    /\ holding[r] # None
    /\ buckets' = [buckets EXCEPT ![holding[r]] = try_acquire(@)]
    /\ holding' = [holding EXCEPT ![r] = None]
    /\ UNCHANGED <<installed, limiter, ticks>>

(* apply_rate_limit, by cases of (new max_rps, current limiter). *)
Retune(max_rps) ==
    /\ limiter # None
    /\ buckets' = [buckets EXCEPT ![limiter] = reconfigure(@, max_rps)]
    /\ UNCHANGED <<installed, limiter, holding, ticks>>

Install(max_rps) ==
    /\ limiter = None /\ installed < MaxInstalls
    /\ installed' = installed + 1
    /\ limiter' = installed + 1
    /\ buckets' = [buckets EXCEPT ![installed + 1] = New(max_rps)]
    /\ UNCHANGED <<holding, ticks>>

Uninstall ==
    /\ limiter # None
    /\ limiter' = None
    /\ UNCHANGED <<buckets, installed, holding, ticks>>

Aged(b) == [b EXCEPT !.idle = @ + 1, !.allowance = @ + b.rate]

Tick ==
    /\ ticks < MaxTicks
    /\ ticks' = ticks + 1
    /\ buckets' = [g \in 1..MaxInstalls |-> Aged(buckets[g])]
    /\ UNCHANGED <<installed, limiter, holding>>

Next ==
    \/ \E r \in Request :
        CloneLimiter(r) \/ Uncapped(r) \/ has_capacity(r) \/ Spend(r)
    \/ \E max_rps \in Rates : Retune(max_rps) \/ Install(max_rps)
    \/ Uninstall
    \/ Tick

Spec == Init /\ [][Next]_vars

-----------------------------------------------------------------------------
(* The values are of the expected shape. *)
TypeOK ==
    /\ buckets \in [1..MaxInstalls -> Bucket]
    /\ installed \in 0..MaxInstalls
    /\ limiter \in 0..installed
    /\ holding \in [Request -> 0..installed]
    /\ ticks \in 0..MaxTicks

(* The cap holds: whatever the order of peeks, dispatches, retunes and      *)
(* swaps, the tokens taken out of a bucket since it was installed never     *)
(* exceed one burst plus what its configured rates let accrue.              *)
NoOverspend == \A g \in 1..MaxInstalls : buckets[g].spent <= buckets[g].allowance

(* Why it holds: what is left, and what a refill could add, was not spent.  *)
Conserved ==
    \A g \in 1..MaxInstalls :
        LET b == buckets[g]
        IN  b.spent + b.tokens + b.idle * b.rate <= b.allowance

(* Reading is free and a retune gives nothing away: without time passing, a *)
(* bucket's level never rises, whether it is peeked at, spent from, left    *)
(* empty by a failed acquire, or given a new rate ("so a rate tweak doesn't *)
(* reset the bucket or hand out a fresh burst").                            *)
OnlyTimeRefills ==
    [][ \A g \in 1..MaxInstalls :
            ticks' = ticks /\ g <= installed =>
                Level(buckets'[g]) <= Level(buckets[g]) ]_vars

(* A peek loses nothing: it leaves a later dispatch exactly the level it    *)
(* would have found (refill adds the fraction since the last one and moves  *)
(* `last' with it), also when a reload replaced the limiter under it.       *)
PeekIsFree ==
    [][ \A r \in Request : has_capacity(r) =>
            \A g \in 1..MaxInstalls : Level(buckets'[g]) = Level(buckets[g]) ]_vars
=============================================================================
