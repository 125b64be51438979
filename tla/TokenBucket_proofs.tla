------------------------- MODULE TokenBucket_proofs -------------------------
(***************************************************************************)
(* TokenBucket for every Unit, set of rates, number of requests, installs  *)
(* and ticks.  NoOverspend is not inductive: a bucket could have spent its *)
(* whole allowance and still hold tokens.  Conserved adds what is left and *)
(* what a refill could still add to what was spent.                        *)
(***************************************************************************)
EXTENDS TokenBucket, TLAPS

Inv == TypeOK /\ Conserved

(* A bucket whose units are all accounted for. *)
Sound(b) ==
    /\ b \in Bucket
    /\ b.spent + b.tokens + b.idle * b.rate <= b.allowance

-----------------------------------------------------------------------------
(* The products that occur are natural numbers, and one more tick adds one  *)
(* more rate.                                                               *)
LEMMA Products ==
    ASSUME NEW x \in Nat, NEW y \in Nat
    PROVE  x * y \in Nat /\ 0 * y = 0 /\ (x + 1) * y = x * y + y
  OBVIOUS

(* TokenBucket::new: a fresh bucket holds its whole allowance. *)
LEMMA NewIsSound ==
    ASSUME NEW max_rps \in Nat
    PROVE  Sound(New(max_rps))
<1> DEFINE cap == max_rps * Unit
<1>1. cap \in Nat /\ 0 * max_rps = 0
  BY Products, BucketAssumption
<1>2. New(max_rps) = [tokens |-> cap, capacity |-> cap, rate |-> max_rps,
                      idle |-> 0, spent |-> 0, allowance |-> cap]
  BY DEF New
<1> HIDE DEF cap
<1> QED  BY <1>1, <1>2 DEF Sound, Bucket

(* The level is between nothing and the capacity. *)
LEMMA LevelBounds ==
    ASSUME NEW b \in Bucket
    PROVE  /\ Level(b) \in Nat
           /\ Level(b) <= b.capacity
           /\ Level(b) <= b.tokens + b.idle * b.rate
<1>1. b.idle * b.rate \in Nat
  BY Products DEF Bucket
<1> QED  BY <1>1 DEF Level, Least, Bucket

(* TokenBucket::refill turns the time since the last one into tokens, and   *)
(* leaves the level as it was.                                              *)
LEMMA RefillIsSound ==
    ASSUME NEW b, Sound(b)
    PROVE  /\ Sound(refill(b))
           /\ refill(b).tokens = Level(b)
           /\ refill(b).idle = 0
           /\ Level(refill(b)) = Level(b)
<1>1. b \in Bucket
  BY DEF Sound
<1>2. /\ Level(b) \in Nat /\ Level(b) <= b.capacity
      /\ Level(b) <= b.tokens + b.idle * b.rate
  BY <1>1, LevelBounds
<1>3. /\ refill(b) \in Bucket
      /\ refill(b).tokens = Level(b) /\ refill(b).idle = 0
      /\ refill(b).capacity = b.capacity /\ refill(b).rate = b.rate
      /\ refill(b).spent = b.spent /\ refill(b).allowance = b.allowance
  BY <1>1, <1>2 DEF refill, Bucket
<1>4. refill(b).idle * refill(b).rate = 0
  BY <1>1, <1>3, Products DEF Bucket
<1>5. Level(refill(b)) = Level(b)
  BY <1>1, <1>2, <1>3, <1>4 DEF Level, Least, Bucket
<1>6. b.idle * b.rate \in Nat
  BY <1>1, Products DEF Bucket
<1>7. refill(b).spent + refill(b).tokens + refill(b).idle * refill(b).rate
        <= refill(b).allowance
  BY <1>1, <1>2, <1>3, <1>4, <1>6 DEF Sound, Bucket
<1> QED  BY <1>3, <1>5, <1>7 DEF Sound

(* TokenBucket::try_acquire moves at most one token from the bucket to what *)
(* was spent.                                                               *)
LEMMA AcquireIsSound ==
    ASSUME NEW b, Sound(b)
    PROVE  /\ Sound(try_acquire(b))
           /\ Level(try_acquire(b)) <= Level(b)
<1> DEFINE full == refill(b)
<1>1. /\ Sound(full) /\ full \in Bucket
      /\ full.tokens = Level(b) /\ full.idle = 0 /\ Level(full) = Level(b)
  BY RefillIsSound DEF Sound
<1>2. full.idle * full.rate = 0
  BY <1>1, Products DEF Bucket
<1>3. CASE HasToken(full)
  <2>1. try_acquire(b) = take(full)
    BY <1>3 DEF try_acquire
  <2> HIDE DEF full
  <2>2. full.tokens - Unit \in Nat /\ full.spent + Unit \in Nat
    BY <1>1, <1>3, BucketAssumption DEF HasToken, Bucket
  <2>3. /\ take(full) \in Bucket
        /\ take(full).tokens = full.tokens - Unit
        /\ take(full).spent = full.spent + Unit
        /\ take(full).idle = full.idle /\ take(full).rate = full.rate
        /\ take(full).capacity = full.capacity
        /\ take(full).allowance = full.allowance
    BY <1>1, <2>2 DEF take, Bucket
  <2>4. take(full).idle * take(full).rate = 0
    BY <1>2, <2>3
  <2>5. Sound(take(full))
    BY <1>1, <1>2, <2>2, <2>3, <2>4, BucketAssumption DEF Sound, Bucket
  <2>6. Level(take(full)) <= Level(full)
    BY <1>1, <1>2, <2>2, <2>3, <2>4, BucketAssumption DEF Level, Least, Bucket
  <2> QED  BY <1>1, <2>1, <2>5, <2>6
<1>4. CASE ~HasToken(full)
  <2>1. try_acquire(b) = full
    BY <1>4 DEF try_acquire
  <2>2. Level(b) \in Nat
    BY LevelBounds DEF Sound
  <2> QED  BY <1>1, <2>1, <2>2
<1> QED  BY <1>3, <1>4

(* TokenBucket::reconfigure keeps the level, or lowers it to the new cap.   *)
LEMMA ReconfigureIsSound ==
    ASSUME NEW b, Sound(b), NEW max_rps \in Nat
    PROVE  /\ Sound(reconfigure(b, max_rps))
           /\ Level(reconfigure(b, max_rps)) <= Level(b)
<1> DEFINE full == refill(b)
           cap == max_rps * Unit
           new == reconfigure(b, max_rps)
<1>1. /\ Sound(full) /\ full \in Bucket
      /\ full.tokens = Level(b) /\ full.idle = 0
  BY RefillIsSound DEF Sound
<1>2. cap \in Nat /\ 0 * max_rps = 0 /\ 0 * full.rate = 0
  BY <1>1, Products, BucketAssumption DEF Bucket
<1>3. new = [full EXCEPT !.capacity = cap, !.rate = max_rps,
                         !.tokens = Least(full.tokens, cap)]
  BY DEF reconfigure
<1> HIDE DEF full, cap, new
<1>4. Least(full.tokens, cap) \in Nat /\ Least(full.tokens, cap) <= full.tokens
  BY <1>1, <1>2 DEF Least, Bucket
<1>5. /\ new \in Bucket
      /\ new.tokens = Least(full.tokens, cap) /\ new.capacity = cap
      /\ new.rate = max_rps /\ new.idle = 0
      /\ new.spent = full.spent /\ new.allowance = full.allowance
  BY <1>1, <1>2, <1>3, <1>4 DEF Bucket
<1>6. new.idle * new.rate = 0 /\ full.idle * full.rate = 0
  BY <1>1, <1>2, <1>5
<1>7. Sound(new)
  BY <1>1, <1>4, <1>5, <1>6 DEF Sound, Bucket
<1>8. Level(new) <= Level(b)
  BY <1>1, <1>2, <1>4, <1>5, <1>6 DEF Level, Least, Bucket
<1> QED  BY <1>7, <1>8 DEF new

(* A tick adds as much to the allowance as to what a refill would add. *)
LEMMA AgedIsSound ==
    ASSUME NEW b, Sound(b)
    PROVE  Sound(Aged(b))
<1>1. b \in Bucket
  BY DEF Sound
<1>2. /\ Aged(b) \in Bucket
      /\ Aged(b).idle = b.idle + 1 /\ Aged(b).allowance = b.allowance + b.rate
      /\ Aged(b).tokens = b.tokens /\ Aged(b).rate = b.rate /\ Aged(b).spent = b.spent
  <2>1. b.idle + 1 \in Nat /\ b.allowance + b.rate \in Nat
    BY <1>1 DEF Bucket
  <2>2. Aged(b) = [b EXCEPT !.idle = b.idle + 1, !.allowance = b.allowance + b.rate]
    BY DEF Aged
  <2> QED  BY <1>1, <2>1, <2>2 DEF Bucket
<1>3. /\ b.idle * b.rate \in Nat
      /\ (b.idle + 1) * b.rate = b.idle * b.rate + b.rate
  BY <1>1, Products DEF Bucket
<1>4. Aged(b).idle * Aged(b).rate = b.idle * b.rate + b.rate
  BY <1>2, <1>3
<1>5. b.spent + b.tokens + b.idle * b.rate <= b.allowance
  BY DEF Sound
<1>6. b.spent \in Nat /\ b.tokens \in Nat /\ b.rate \in Nat /\ b.allowance \in Nat
  BY <1>1 DEF Bucket
<1>7. Aged(b).spent + Aged(b).tokens + Aged(b).idle * Aged(b).rate <= Aged(b).allowance
  BY <1>2, <1>3, <1>4, <1>5, <1>6
<1> QED  BY <1>2, <1>7 DEF Sound

-----------------------------------------------------------------------------
(* The inductive invariant. *)

LEMMA InvIsSound ==
    Inv <=> /\ buckets \in [1..MaxInstalls -> Bucket]
            /\ \A g \in 1..MaxInstalls : Sound(buckets[g])
            /\ installed \in 0..MaxInstalls
            /\ limiter \in 0..installed
            /\ holding \in [Request -> 0..installed]
            /\ ticks \in 0..MaxTicks
  BY DEF Inv, TypeOK, Conserved, Sound

LEMMA InvInit == Init => Inv
<1> SUFFICES ASSUME Init PROVE Inv
  OBVIOUS
<1> USE BucketAssumption
<1>1. /\ installed \in 0..MaxInstalls /\ limiter \in 0..installed
      /\ holding \in [Request -> 0..installed] /\ ticks \in 0..MaxTicks
  BY DEF Init, None
<1>2. \A g \in 1..MaxInstalls : \E max_rps \in Nat : buckets[g] = New(max_rps)
  BY DEF Init
<1>3. \A g \in 1..MaxInstalls : Sound(buckets[g])
  BY <1>2, NewIsSound
<1>4. buckets = [g \in 1..MaxInstalls |-> buckets[g]]
  BY DEF Init
<1>5. buckets \in [1..MaxInstalls -> Bucket]
  BY <1>3, <1>4 DEF Sound
<1> QED  BY <1>1, <1>3, <1>5, InvIsSound

(* One bucket is replaced by a sound one, the others stay. *)
LEMMA OneReplaced ==
    ASSUME Inv, NEW g \in 1..MaxInstalls, NEW b, Sound(b),
           buckets' = [buckets EXCEPT ![g] = b]
    PROVE  /\ buckets' \in [1..MaxInstalls -> Bucket]
           /\ \A h \in 1..MaxInstalls : Sound(buckets'[h])
           /\ buckets'[g] = b
           /\ \A h \in (1..MaxInstalls) \ {g} : buckets'[h] = buckets[h]
  BY InvIsSound DEF Sound

LEMMA InvNext == Inv /\ [Next]_vars => Inv'
<1> SUFFICES ASSUME Inv, [Next]_vars PROVE Inv'
  OBVIOUS
<1> USE BucketAssumption
<1>0. /\ buckets \in [1..MaxInstalls -> Bucket]
      /\ \A g \in 1..MaxInstalls : Sound(buckets[g])
      /\ installed \in 0..MaxInstalls
      /\ limiter \in 0..installed
      /\ holding \in [Request -> 0..installed]
      /\ ticks \in 0..MaxTicks
  BY InvIsSound
<1>a. ASSUME /\ buckets' \in [1..MaxInstalls -> Bucket]
             /\ \A g \in 1..MaxInstalls : Sound(buckets'[g])
             /\ installed' \in 0..MaxInstalls
             /\ limiter' \in 0..installed'
             /\ holding' \in [Request -> 0..installed']
             /\ ticks' \in 0..MaxTicks
      PROVE  Inv'
  BY <1>a DEF Inv, TypeOK, Conserved, Sound
<1>1. ASSUME NEW r \in Request, has_capacity(r) PROVE Inv'
  <2>1. holding[r] \in 1..MaxInstalls
    BY <1>0, <1>1 DEF has_capacity, None
  <2>2. Sound(refill(buckets[holding[r]]))
    BY <1>0, <2>1, RefillIsSound
  <2>3. buckets' = [buckets EXCEPT ![holding[r]] = refill(buckets[holding[r]])]
    BY <1>1 DEF has_capacity
  <2>4. /\ buckets' \in [1..MaxInstalls -> Bucket]
        /\ \A h \in 1..MaxInstalls : Sound(buckets'[h])
    BY <2>1, <2>2, <2>3, OneReplaced
  <2>5. holding' \in [Request -> 0..installed]
    BY <1>0, <1>1 DEF has_capacity, None
  <2> QED  BY <1>0, <1>1, <2>4, <2>5, <1>a DEF has_capacity
<1>2. ASSUME NEW r \in Request, CloneLimiter(r) PROVE Inv'
  <2>1. holding' \in [Request -> 0..installed]
    BY <1>0, <1>2 DEF CloneLimiter
  <2> QED  BY <1>0, <1>2, <2>1, <1>a DEF CloneLimiter
<1>3. ASSUME NEW r \in Request, Spend(r) PROVE Inv'
  <2>1. holding[r] \in 1..MaxInstalls
    BY <1>0, <1>3 DEF Spend, None
  <2>2. Sound(try_acquire(buckets[holding[r]]))
    BY <1>0, <2>1, AcquireIsSound
  <2>3. buckets' = [buckets EXCEPT ![holding[r]] = try_acquire(buckets[holding[r]])]
    BY <1>3 DEF Spend
  <2>4. /\ buckets' \in [1..MaxInstalls -> Bucket]
        /\ \A h \in 1..MaxInstalls : Sound(buckets'[h])
    BY <2>1, <2>2, <2>3, OneReplaced
  <2>5. holding' \in [Request -> 0..installed]
    BY <1>0, <1>3 DEF Spend, None
  <2> QED  BY <1>0, <1>3, <2>4, <2>5, <1>a DEF Spend
<1>4. ASSUME NEW max_rps \in Rates, Retune(max_rps) PROVE Inv'
  <2>1. limiter \in 1..MaxInstalls /\ max_rps \in Nat
    BY <1>0, <1>4 DEF Retune, None
  <2>2. Sound(reconfigure(buckets[limiter], max_rps))
    BY <1>0, <2>1, ReconfigureIsSound
  <2>3. buckets' = [buckets EXCEPT ![limiter] = reconfigure(buckets[limiter], max_rps)]
    BY <1>4 DEF Retune
  <2>4. /\ buckets' \in [1..MaxInstalls -> Bucket]
        /\ \A h \in 1..MaxInstalls : Sound(buckets'[h])
    BY <2>1, <2>2, <2>3, OneReplaced
  <2> QED  BY <1>0, <1>4, <2>4, <1>a DEF Retune
<1>5. ASSUME NEW max_rps \in Rates, Install(max_rps) PROVE Inv'
  <2>1. installed + 1 \in 1..MaxInstalls /\ max_rps \in Nat
    BY <1>0, <1>5 DEF Install
  <2>2. Sound(New(max_rps))
    BY <2>1, NewIsSound
  <2>3. buckets' = [buckets EXCEPT ![installed + 1] = New(max_rps)]
    BY <1>5 DEF Install
  <2>4. /\ buckets' \in [1..MaxInstalls -> Bucket]
        /\ \A h \in 1..MaxInstalls : Sound(buckets'[h])
    BY <2>1, <2>2, <2>3, OneReplaced
  <2>5. /\ installed' \in 0..MaxInstalls /\ limiter' \in 0..installed'
        /\ holding' \in [Request -> 0..installed'] /\ ticks' \in 0..MaxTicks
    BY <1>0, <1>5, <2>1 DEF Install
  <2> QED  BY <2>4, <2>5, <1>a
<1>6. CASE Uninstall
  BY <1>0, <1>6, <1>a DEF Uninstall, None
<1>7. CASE Tick
  <2>1. buckets' = [g \in 1..MaxInstalls |-> Aged(buckets[g])]
    BY <1>7 DEF Tick
  <2>2. \A g \in 1..MaxInstalls : Sound(Aged(buckets[g]))
    BY <1>0, AgedIsSound
  <2>3. /\ buckets' \in [1..MaxInstalls -> Bucket]
        /\ \A g \in 1..MaxInstalls : Sound(buckets'[g])
    BY <2>1, <2>2 DEF Sound
  <2>4. ticks' \in 0..MaxTicks
    BY <1>0, <1>7 DEF Tick
  <2> QED  BY <1>0, <1>7, <2>3, <2>4, <1>a DEF Tick
<1>8. CASE UNCHANGED vars \/ \E r \in Request : Uncapped(r)
  BY <1>0, <1>8, <1>a DEF vars, Uncapped
<1> QED  BY <1>1, <1>2, <1>3, <1>4, <1>5, <1>6, <1>7, <1>8 DEF Next

LEMMA InvAlways == Spec => []Inv
  BY InvInit, InvNext, PTL DEF Spec

-----------------------------------------------------------------------------
(* Buckets, references and counters keep their shapes: no acquire takes     *)
(* tokens that are not there, and no dispatch holds a limiter that was      *)
(* never installed.                                                         *)
THEOREM TypeCorrect == Spec => []TypeOK
<1>1. Inv => TypeOK
  BY DEF Inv
<1> QED  BY <1>1, InvAlways, PTL

(* TokenBucket keeps the max_rps promise through any interleaving of peeks, *)
(* dispatches and hot reloads, for any rates and any number of requests.    *)
THEOREM CapHolds == Spec => []NoOverspend
<1>1. ASSUME Inv PROVE NoOverspend
  <2> SUFFICES ASSUME NEW g \in 1..MaxInstalls
               PROVE  buckets[g].spent <= buckets[g].allowance
    BY DEF NoOverspend
  <2> DEFINE b == buckets[g]
  <2>1. b \in Bucket /\ b.spent + b.tokens + b.idle * b.rate <= b.allowance
    BY <1>1 DEF Inv, TypeOK, Conserved
  <2>2. b.idle * b.rate \in Nat
    BY <2>1, Products DEF Bucket
  <2> HIDE DEF b
  <2>3. b.spent <= b.allowance
    BY <2>1, <2>2 DEF Bucket
  <2> QED  BY <2>3 DEF b
<1> QED  BY <1>1, InvAlways, PTL

(* No operation but the passing of time raises a bucket's level: a hot      *)
(* reload that retunes max_rps hands out no burst.                          *)
THEOREM NoFreshBurst == Spec => OnlyTimeRefills
<1> DEFINE Falls(g) == ticks' = ticks /\ g <= installed =>
                            Level(buckets'[g]) <= Level(buckets[g])
<1>1. ASSUME Inv, [Next]_vars, NEW g \in 1..MaxInstalls
      PROVE  Falls(g)
  <2> SUFFICES ASSUME ticks' = ticks, g <= installed
               PROVE  Level(buckets'[g]) <= Level(buckets[g])
    OBVIOUS
  <2> USE BucketAssumption
  <2>0. /\ \A h \in 1..MaxInstalls : Sound(buckets[h])
        /\ buckets \in [1..MaxInstalls -> Bucket]
        /\ installed \in 0..MaxInstalls /\ ticks \in 0..MaxTicks
        /\ limiter \in 0..installed /\ holding \in [Request -> 0..installed]
    BY <1>1, InvIsSound
  <2>a. Level(buckets[g]) \in Nat
    BY <2>0, LevelBounds
  <2>1. ASSUME buckets'[g] = buckets[g] PROVE Level(buckets'[g]) <= Level(buckets[g])
    BY <2>a, <2>1
  <2>2. ASSUME NEW r \in Request, has_capacity(r)
        PROVE  Level(buckets'[g]) <= Level(buckets[g])
    <3>1. buckets'[g] = buckets[g] \/ buckets'[g] = refill(buckets[g])
      BY <2>0, <2>2 DEF has_capacity
    <3> QED  BY <2>0, <2>1, <2>a, <3>1, RefillIsSound
  <2>3. ASSUME NEW r \in Request, Spend(r)
        PROVE  Level(buckets'[g]) <= Level(buckets[g])
    <3>1. buckets'[g] = buckets[g] \/ buckets'[g] = try_acquire(buckets[g])
      BY <2>0, <2>3 DEF Spend
    <3> QED  BY <2>0, <2>1, <3>1, AcquireIsSound
  <2>4. ASSUME NEW max_rps \in Rates, Retune(max_rps)
        PROVE  Level(buckets'[g]) <= Level(buckets[g])
    <3>1. buckets'[g] = buckets[g] \/ buckets'[g] = reconfigure(buckets[g], max_rps)
      BY <2>0, <2>4 DEF Retune
    <3> QED  BY <2>0, <2>1, <3>1, ReconfigureIsSound
  <2>5. ASSUME NEW max_rps \in Rates, Install(max_rps)
        PROVE  Level(buckets'[g]) <= Level(buckets[g])
    <3>1. buckets'[g] = buckets[g]
      BY <2>0, <2>5 DEF Install
    <3> QED  BY <2>1, <3>1
  <2>6. ASSUME NEW r \in Request, CloneLimiter(r)
        PROVE  Level(buckets'[g]) <= Level(buckets[g])
    BY <2>1, <2>6 DEF CloneLimiter
  <2>7. CASE Uninstall
    BY <2>1, <2>7 DEF Uninstall
  <2>8. CASE Tick
    BY <2>0, <2>8 DEF Tick
  <2>9. CASE UNCHANGED vars \/ \E r \in Request : Uncapped(r)
    BY <2>1, <2>9 DEF vars, Uncapped
  <2> QED  BY <1>1, <2>2, <2>3, <2>4, <2>5, <2>6, <2>7, <2>8, <2>9 DEF Next
<1>2. ASSUME Inv, [Next]_vars
      PROVE  [\A g \in 1..MaxInstalls : Falls(g)]_vars
  BY <1>1, <1>2
<1> QED  BY <1>2, InvAlways, PTL DEF Spec, OnlyTimeRefills

(* The routing peek is invisible to later dispatches. *)
THEOREM PeekCostsNothing == Spec => PeekIsFree
<1>1. ASSUME Inv, NEW r \in Request, has_capacity(r), NEW g \in 1..MaxInstalls
      PROVE  Level(buckets'[g]) = Level(buckets[g])
  <2>0. /\ \A h \in 1..MaxInstalls : Sound(buckets[h])
        /\ buckets \in [1..MaxInstalls -> Bucket]
    BY <1>1, InvIsSound
  <2>1. buckets'[g] = buckets[g] \/ buckets'[g] = refill(buckets[g])
    BY <1>1, <2>0 DEF has_capacity
  <2> QED  BY <2>0, <2>1, RefillIsSound
<1>2. ASSUME Inv, [Next]_vars
      PROVE  [\A r \in Request : has_capacity(r) =>
                  \A g \in 1..MaxInstalls : Level(buckets'[g]) = Level(buckets[g])]_vars
  BY <1>1, <1>2
<1> QED  BY <1>2, InvAlways, PTL DEF Spec, PeekIsFree

=============================================================================
