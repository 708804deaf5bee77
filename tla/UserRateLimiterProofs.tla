------------------------ MODULE UserRateLimiterProofs ------------------------
(***************************************************************************)
(* For any users, requests and burst: a bucket that can still be used      *)
(* holds at least its user's allowance, and the bucket in the map holds at *)
(* most that and what cleanup has not seen.                                *)
(***************************************************************************)
EXTENDS UserRateLimiter, TLAPS

\* No bucket is shared by two users, whether through the map or a request.
Owned ==
    /\ \A u, v \in User : limiters[u] = limiters[v] /\ u # v => limiters[u] = NoLimiter
    /\ \A r \in Request, u \in User :
          loaded[r] = limiters[u] /\ UserID[r] # u => loaded[r] = NoLimiter
    /\ \A r, q \in Request :
          loaded[r] = loaded[q] /\ UserID[r] # UserID[q] => loaded[r] = NoLimiter

HoldsAllowance ==
    /\ \A u \in User : allowance[u] <= Burst
    /\ \A u \in User : limiters[u] # NoLimiter => allowance[u] <= tokens[limiters[u]]
    /\ \A r \in Request : loaded[r] # NoLimiter => allowance[UserID[r]] <= tokens[loaded[r]]

Doomed == \A u \in doomed : limiters[u] # NoLimiter /\ Burst <= allowance[u] + stray[u]

BucketInv == TypeOK /\ Owned /\ HoldsAllowance /\ Doomed /\ NoSecondBurst

USE LimiterAssumption, BurstAssumption, UserAssumption

\* Nothing but the requests of a user takes from the user's buckets.
LEMMA AdmitInv ==
    ASSUME BucketInv, NEW r \in Request, Admit(r)
    PROVE  BucketInv'
<1> DEFINE w == UserID[r]
           l == loaded[r]
<1> USE DEF BucketInv, TypeOK
<1>1. /\ w \in User /\ l \in Limiter /\ l # NoLimiter /\ tokens[l] \in 0 .. Burst /\ tokens[l] > 0
      /\ allowance[w] \in Int /\ stray[w] \in Nat /\ allowance[w] <= Burst
  BY DEF Admit, HoldsAllowance
<1>2. /\ tokens' = [tokens EXCEPT ![l] = tokens[l] - 1]
      /\ allowance' = [allowance EXCEPT ![w] = allowance[w] - 1]
      /\ limiters' = limiters /\ doomed' = doomed /\ toVisit' = toVisit
      /\ loaded' = [loaded EXCEPT ![r] = NoLimiter]
  BY DEF Admit, cleaning
<1>3. /\ stray' = [stray EXCEPT ![w] = stray'[w]]
      /\ stray'[w] \in Nat
      /\ ~Unseen(r) => stray'[w] = stray[w]
      /\ Unseen(r) => allowance'[w] + stray'[w] = allowance[w] + stray[w]
                        \/ allowance'[w] + stray'[w] = Burst
  BY <1>1, <1>2 DEF Admit, Remember
<1>4. TypeOK'
  BY <1>1, <1>2, <1>3
<1>5. Owned'
  BY <1>1, <1>2 DEF Owned
<1>6. HoldsAllowance'
  <2>1. ASSUME NEW u \in User PROVE allowance'[u] <= Burst
    BY <1>1, <1>2 DEF HoldsAllowance
  <2>2. ASSUME NEW u \in User, limiters[u] # NoLimiter
        PROVE  allowance'[u] <= tokens'[limiters[u]]
    <3>1. allowance[u] <= tokens[limiters[u]] /\ limiters[u] \in Limiter
      BY <2>2 DEF HoldsAllowance
    <3>2. CASE u = w
      BY <1>1, <1>2, <3>1, <3>2
    <3>3. CASE u # w
      <4>1. limiters[u] # l
        BY <1>1, <3>3 DEF Owned
      <4> QED
        BY <1>1, <1>2, <3>1, <3>3, <4>1
    <3> QED
      BY <3>2, <3>3
  <2>3. ASSUME NEW q \in Request, loaded'[q] # NoLimiter
        PROVE  allowance'[UserID[q]] <= tokens'[loaded'[q]]
    <3>1. q # r /\ loaded'[q] = loaded[q] /\ loaded[q] \in Limiter /\ UserID[q] \in User
      BY <1>2, <2>3
    <3>2. allowance[UserID[q]] <= tokens[loaded[q]]
      BY <2>3, <3>1 DEF HoldsAllowance
    <3>3. CASE UserID[q] = w
      BY <1>1, <1>2, <3>1, <3>2, <3>3
    <3>4. CASE UserID[q] # w
      <4>1. loaded[q] # l
        BY <1>1, <3>4 DEF Owned
      <4> QED
        BY <1>1, <1>2, <3>1, <3>2, <3>4, <4>1
    <3> QED
      BY <3>3, <3>4
  <2> QED
    BY <1>2, <2>1, <2>2, <2>3 DEF HoldsAllowance
<1>7. Doomed'
  <2> SUFFICES ASSUME NEW u \in doomed PROVE Burst <= allowance'[u] + stray'[u]
    BY <1>2 DEF Doomed
  <2>1. Burst <= allowance[u] + stray[u] /\ u \in User
    BY DEF Doomed
  <2>2. CASE u = w
    BY <1>1, <1>2, <1>3, <2>1, <2>2 DEF Unseen
  <2>3. CASE u # w
    BY <1>1, <1>2, <1>3, <2>1, <2>3
  <2> QED
    BY <2>2, <2>3
<1>8. NoSecondBurst'
  <2> SUFFICES ASSUME NEW u \in User PROVE Tokens(u)' <= allowance'[u] + stray'[u]
    BY DEF NoSecondBurst
  <2>1. Tokens(u) <= allowance[u] + stray[u] /\ Tokens(u) \in 0 .. Burst
    BY DEF NoSecondBurst, Tokens
  <2>2. Tokens(u)' <= Tokens(u) /\ Tokens(u)' \in Int
    BY <1>1, <1>2 DEF Tokens
  <2>3. CASE u # w
    BY <1>1, <1>2, <1>3, <2>1, <2>2, <2>3
  <2>4. CASE u = w /\ Unseen(r)
    BY <1>1, <1>2, <1>3, <2>1, <2>2, <2>4
  <2>5. CASE u = w /\ ~Unseen(r)
    <3>1. Tokens(u)' = Tokens(u) - 1
      BY <1>1, <1>2, <2>5 DEF Tokens, Unseen
    <3> QED
      BY <1>1, <1>2, <1>3, <2>1, <2>5, <3>1
  <2> QED
    BY <2>3, <2>4, <2>5
<1> QED
  BY <1>4, <1>5, <1>6, <1>7, <1>8

\* A bucket is made full, and its address is nobody else's.
LEMMA StoreInv ==
    ASSUME BucketInv, NEW r \in Request, Store(r)
    PROVE  BucketInv'
<1> DEFINE w == UserID[r]
<1> USE DEF BucketInv, TypeOK
<1>1. PICK l \in Unreachable :
         /\ limiters' = [limiters EXCEPT ![w] = l]
         /\ tokens' = [tokens EXCEPT ![l] = Burst]
         /\ loaded' = [loaded EXCEPT ![r] = l]
  <2>1. (CHOOSE l \in Unreachable : TRUE) \in Unreachable
    BY DEF Store
  <2> QED
    BY <2>1 DEF Store
<1>2. /\ w \in User /\ limiters[w] = NoLimiter
      /\ doomed' = doomed /\ toVisit' = toVisit /\ allowance' = allowance /\ stray' = stray
  BY DEF Store, cleaning
<1>3. /\ l \in Limiter /\ l # NoLimiter
      /\ \A u \in User : limiters[u] # l
      /\ \A q \in Request : loaded[q] # l
  BY DEF Unreachable, Reachable
<1>4. TypeOK'
  BY <1>1, <1>2, <1>3
<1>5. Owned'
  BY <1>1, <1>2, <1>3 DEF Owned
<1>6. HoldsAllowance'
  BY <1>1, <1>2, <1>3 DEF HoldsAllowance
<1>7. Doomed'
  BY <1>1, <1>2, <1>3 DEF Doomed
<1>8. NoSecondBurst'
  BY <1>1, <1>2, <1>3 DEF NoSecondBurst, Tokens
<1> QED
  BY <1>4, <1>5, <1>6, <1>7, <1>8

\* Time keeps what a bucket holds and what its user is due in step.
LEMMA TickInv ==
    ASSUME BucketInv, Tick
    PROVE  BucketInv'
<1> USE DEF BucketInv, TypeOK
<1>1. /\ limiters' = limiters /\ loaded' = loaded /\ doomed' = doomed /\ toVisit' = toVisit
      /\ \A l \in Limiter : tokens'[l] = Fill(tokens[l])
      /\ \A u \in User : allowance'[u] = Fill(allowance[u])
      /\ \A u \in User : stray'[u] = Remember(stray[u], u)
  BY DEF Tick, cleaning
<1>2. \A u \in User : allowance[u] \in Int /\ allowance[u] <= Burst /\ stray[u] \in Nat
  BY DEF HoldsAllowance
<1>3. ASSUME NEW u \in User
      PROVE  /\ allowance'[u] \in Int /\ allowance'[u] <= Burst /\ stray'[u] \in Nat
             /\ \/ allowance'[u] + stray'[u] = Burst
                \/ allowance'[u] + stray'[u] = allowance[u] + 1 + stray[u]
  BY <1>1, <1>2 DEF Fill, Remember
<1>4. TypeOK'
  BY <1>1, <1>3 DEF Tick, Fill
<1>5. Owned'
  BY <1>1 DEF Owned
<1>6. HoldsAllowance'
  BY <1>1, <1>3 DEF HoldsAllowance, Fill
<1>7. Doomed'
  BY <1>1, <1>2, <1>3 DEF Doomed
<1>8. NoSecondBurst'
  BY <1>1, <1>2, <1>3 DEF NoSecondBurst, Tokens, Fill
<1> QED
  BY <1>4, <1>5, <1>6, <1>7, <1>8

\* The steps that only look, take a reference or drop one.
LEMMA QuietInv ==
    ASSUME BucketInv,
           \/ \E r \in Request : Load(r) \/ Refuse(r)
           \/ Sweep
           \/ \E u \in User : Visit(u) \/ Delete(u)
           \/ UNCHANGED vars
    PROVE  BucketInv'
<1> USE DEF BucketInv, TypeOK
<1>1. ASSUME NEW r \in Request, Load(r) PROVE BucketInv'
  <2>1. /\ UserID[r] \in User /\ limiters[UserID[r]] # NoLimiter
        /\ loaded' = [loaded EXCEPT ![r] = limiters[UserID[r]]]
        /\ UNCHANGED <<limiters, tokens, toVisit, doomed, allowance, stray>>
    BY <1>1 DEF Load, cleaning
  <2>2. Owned'
    BY <2>1 DEF Owned
  <2>3. HoldsAllowance'
    BY <2>1 DEF HoldsAllowance
  <2>4. TypeOK'
    BY <2>1
  <2> QED
    BY <2>1, <2>2, <2>3, <2>4 DEF Doomed, NoSecondBurst, Tokens
<1>2. ASSUME NEW r \in Request, Refuse(r) PROVE BucketInv'
  BY <1>2 DEF Refuse, cleaning, Owned, HoldsAllowance, Doomed, NoSecondBurst, Tokens
<1>3. CASE Sweep
  BY <1>3 DEF Sweep, Owned, HoldsAllowance, Doomed, NoSecondBurst, Tokens
<1>4. ASSUME NEW u \in User, Visit(u) PROVE BucketInv'
  <2>1. Doomed'
    BY <1>4 DEF Visit, Inactive, Doomed, NoSecondBurst, Tokens
  <2> QED
    BY <1>4, <2>1 DEF Visit, Owned, HoldsAllowance, NoSecondBurst, Tokens
<1>5. ASSUME NEW u \in User, Delete(u) PROVE BucketInv'
  <2>1. NoSecondBurst'
    BY <1>5 DEF Delete, Doomed, NoSecondBurst, Tokens
  <2>2. Owned'
    BY <1>5 DEF Delete, Owned
  <2> QED
    BY <1>5, <2>1, <2>2 DEF Delete, HoldsAllowance, Doomed
<1>6. CASE UNCHANGED vars
  BY <1>6 DEF vars, cleaning, Owned, HoldsAllowance, Doomed, NoSecondBurst, Tokens
<1> QED
  BY <1>1, <1>2, <1>3, <1>4, <1>5, <1>6

\* The invariant the theorems rest on.
LEMMA BucketInvariant == Spec => []BucketInv
<1>1. Init => BucketInv
  BY DEF Init, BucketInv, TypeOK, Owned, HoldsAllowance, Doomed, NoSecondBurst, Tokens
<1>2. BucketInv /\ [Next]_vars => BucketInv'
  BY AdmitInv, StoreInv, TickInv, QuietInv DEF Next, Cleanup, RateLimit
<1> QED
  BY <1>1, <1>2, PTL DEF Spec

\* Buckets hold between nothing and the burst, and every history has its type.
THEOREM LimiterTypeOK == Spec => []TypeOK
BY BucketInvariant, PTL DEF BucketInv

\* A user never has more than one bucket would give and cleanup failed to see.
THEOREM NoSecondBurstThm == Spec => []NoSecondBurst
BY BucketInvariant, PTL DEF BucketInv

\* Where cleanup has missed nothing of a user's, deleting and storing buckets
\* cannot be told from keeping one for ever: the next request finds exactly the
\* allowance, whether there is a bucket in the map or not.
THEOREM SeenBucketIsExact ==
    Spec => [](\A u \in User : stray[u] = 0 => Tokens(u) = allowance[u])
<1>1. BucketInv => \A u \in User : stray[u] = 0 => Tokens(u) = allowance[u]
  <2> SUFFICES ASSUME BucketInv, NEW u \in User, stray[u] = 0 PROVE Tokens(u) = allowance[u]
    OBVIOUS
  <2>1. allowance[u] \in Int /\ allowance[u] <= Burst /\ Tokens(u) <= allowance[u]
    BY DEF BucketInv, TypeOK, HoldsAllowance, NoSecondBurst
  <2>2. limiters[u] # NoLimiter => tokens[limiters[u]] \in Int /\ allowance[u] <= tokens[limiters[u]]
    BY DEF BucketInv, TypeOK, HoldsAllowance
  <2> QED
    BY <2>1, <2>2 DEF Tokens
<1> QED
  BY <1>1, BucketInvariant, PTL

\* Only a user who has used up the allowance is refused.
THEOREM NoWrongRefusalThm == Spec => NoWrongRefusal
<1>1. BucketInv /\ [Next]_vars
        => [\A r \in Request : Refuse(r) => allowance[UserID[r]] <= 0]_vars
  BY DEF BucketInv, TypeOK, HoldsAllowance, Refuse
<1> QED
  BY <1>1, BucketInvariant, PTL DEF Spec, NoWrongRefusal

=============================================================================
