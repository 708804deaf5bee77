--------------------------- MODULE UserRateLimiter ---------------------------
(***************************************************************************)
(* server/middleware.go's RateLimiter: a token bucket per user, found or   *)
(* made by each request, and the cleanup that drops the buckets of users   *)
(* who have not been active.  The buckets are golang.org/x/time/rate's; a  *)
(* Tick is the time in which one of them gains a token.                    *)
(***************************************************************************)
EXTENDS Integers

CONSTANTS
    User, Request,
    UserID,     \* UserID[r]: what GetUserID says of request r, sent again and again
    Limiter,    \* addresses of rate.Limiter objects, reused once unreachable
    NoLimiter,
    Burst,      \* NewRateLimiter's second argument
    MaxStray    \* bound: cleanup leaves a user alone who has had more than this

ASSUME UserAssumption == UserID \in [Request -> User]
ASSUME LimiterAssumption == NoLimiter \notin Limiter
ASSUME BurstAssumption == Burst \in Nat /\ MaxStray \in Nat

VARIABLES
    limiters,   \* the sync.Map
    tokens,     \* tokens[l]: what l.Tokens() would return
    loaded,     \* loaded[r]: the limiter r has got from LoadOrStore, if any
    toVisit,    \* users Range has yet to come to
    doomed,     \* those whose limiter cleanup found full and is about to delete
    allowance,  \* history: one bucket per user that every admission is taken from
    stray       \* history: admissions cleanup has not seen

cleaning == <<toVisit, doomed>>
vars == <<limiters, tokens, loaded, toVisit, doomed, allowance, stray>>

Init ==
    /\ limiters = [u \in User |-> NoLimiter]
    /\ tokens = [l \in Limiter |-> Burst]
    /\ loaded = [r \in Request |-> NoLimiter]
    /\ toVisit = {} /\ doomed = {}
    /\ allowance = [u \in User |-> Burst]
    /\ stray = [u \in User |-> 0]

Reachable == {limiters[u] : u \in User} \cup {loaded[r] : r \in Request}

Fill(n) == IF n < Burst THEN n + 1 ELSE n

\* An unseen admission is forgotten once the allowance is as full without it.
Remember(n, u) == IF n <= Burst - allowance'[u] THEN n ELSE Burst - allowance'[u]

\* Time refills every bucket.
Tick ==
    /\ tokens' = [l \in Limiter |-> Fill(tokens[l])]
    /\ allowance' = [u \in User |-> Fill(allowance[u])]
    /\ stray' = [u \in User |-> Remember(stray[u], u)]
    /\ UNCHANGED <<limiters, loaded, cleaning>>

-----------------------------------------------------------------------------
(* RateLimit.                                                              *)

\* limiter, _ := rl.limiters.LoadOrStore(userID, rate.NewLimiter(rl.rate, rl.burst))
Load(r) ==
    /\ loaded[r] = NoLimiter /\ limiters[UserID[r]] # NoLimiter
    /\ loaded' = [loaded EXCEPT ![r] = limiters[UserID[r]]]
    /\ UNCHANGED <<limiters, tokens, cleaning, allowance, stray>>

Unreachable == Limiter \ Reachable

\* Mutation: one key, and so one bucket, for everybody.
StoreShared(r) ==
    /\ loaded[r] = NoLimiter /\ limiters[UserID[r]] = NoLimiter
    /\ Unreachable # {}
    /\ LET l == CHOOSE l \in Unreachable : TRUE
       IN  /\ limiters' = [u \in User |-> l]
           /\ tokens' = [tokens EXCEPT ![l] = Burst]
           /\ loaded' = [loaded EXCEPT ![r] = l]
    /\ UNCHANGED <<cleaning, allowance, stray>>

Store(r) ==
    /\ loaded[r] = NoLimiter /\ limiters[UserID[r]] = NoLimiter
    /\ Unreachable # {}
    /\ LET l == CHOOSE l \in Unreachable : TRUE
       IN  /\ limiters' = [limiters EXCEPT ![UserID[r]] = l]
           /\ tokens' = [tokens EXCEPT ![l] = Burst]
           /\ loaded' = [loaded EXCEPT ![r] = l]
    /\ UNCHANGED <<cleaning, allowance, stray>>

\* Cleanup does not see what is taken from a limiter it has judged already.
Unseen(r) == limiters[UserID[r]] # loaded[r] \/ UserID[r] \in doomed

\* Mutation: the answer of Allow is not looked at.
AdmitAlways(r) ==
    /\ loaded[r] # NoLimiter
    /\ tokens' = [tokens EXCEPT ![loaded[r]] = @ - 1]
    /\ allowance' = [allowance EXCEPT ![UserID[r]] = @ - 1]
    /\ loaded' = [loaded EXCEPT ![r] = NoLimiter]
    /\ UNCHANGED <<limiters, cleaning, stray>>

\* l.Allow(), and the request goes on to handleExecute
Admit(r) ==
    /\ loaded[r] # NoLimiter /\ tokens[loaded[r]] > 0
    /\ tokens' = [tokens EXCEPT ![loaded[r]] = @ - 1]
    /\ allowance' = [allowance EXCEPT ![UserID[r]] = @ - 1]
    /\ stray' = [stray EXCEPT ![UserID[r]] =
                    IF Unseen(r) THEN Remember(@ + 1, UserID[r]) ELSE @]
    /\ loaded' = [loaded EXCEPT ![r] = NoLimiter]
    /\ UNCHANGED <<limiters, cleaning>>

\* http.StatusTooManyRequests
Refuse(r) ==
    /\ loaded[r] # NoLimiter /\ tokens[loaded[r]] = 0
    /\ loaded' = [loaded EXCEPT ![r] = NoLimiter]
    /\ UNCHANGED <<limiters, tokens, cleaning, allowance, stray>>

-----------------------------------------------------------------------------
(* cleanup, one pass of Range.  A key stored meanwhile may be met or not.  *)

Idle == toVisit = {} /\ doomed = {}

Sweep ==
    /\ Idle
    /\ \E S \in SUBSET User : {u \in User : limiters[u] # NoLimiter} \subseteq S /\ toVisit' = S
    /\ toVisit' # {}
    /\ UNCHANGED <<limiters, tokens, loaded, doomed, allowance, stray>>

\* Mutation: a bucket one short of full will do.
InactiveAlmost(u) == limiters[u] # NoLimiter /\ tokens[limiters[u]] >= Burst - 1

\* Mutation: more than full, which no bucket ever is.
InactiveNever(u) == limiters[u] # NoLimiter /\ tokens[limiters[u]] > Burst

\* l.Tokens() >= float64(rl.burst)
Inactive(u) == limiters[u] # NoLimiter /\ tokens[limiters[u]] >= Burst

Visit(u) ==
    /\ u \in toVisit /\ doomed = {}
    /\ toVisit' = toVisit \ {u}
    /\ doomed' = IF Inactive(u) /\ stray[u] <= MaxStray THEN {u} ELSE {}
    /\ UNCHANGED <<limiters, tokens, loaded, allowance, stray>>

\* rl.limiters.Delete(key)
Delete(u) ==
    /\ u \in doomed
    /\ limiters' = [limiters EXCEPT ![u] = NoLimiter]
    /\ doomed' = {}
    /\ UNCHANGED <<tokens, loaded, toVisit, allowance, stray>>

-----------------------------------------------------------------------------
RateLimit(r) == Load(r) \/ Store(r) \/ Admit(r) \/ Refuse(r)

Cleanup == Sweep \/ \E u \in User : Visit(u) \/ Delete(u)

Next == Tick \/ Cleanup \/ \E r \in Request : RateLimit(r)

Spec == Init /\ [][Next]_vars

\* Time passes, the ticker fires, Range comes to every key, and a request that
\* has loaded its limiter goes on.  Nobody has to send one.
Fairness ==
    /\ WF_vars(Tick) /\ WF_vars(Sweep)
    /\ WF_vars(\E u \in User : Visit(u) \/ Delete(u))
    /\ \A r \in Request : WF_vars(Admit(r) \/ Refuse(r))

FairSpec == Spec /\ Fairness

-----------------------------------------------------------------------------
(* Properties.                                                             *)

TypeOK ==
    /\ limiters \in [User -> Limiter \cup {NoLimiter}]
    /\ tokens \in [Limiter -> 0 .. Burst]
    /\ loaded \in [Request -> Limiter \cup {NoLimiter}]
    /\ toVisit \subseteq User /\ doomed \subseteq User
    /\ allowance \in [User -> Int] /\ stray \in [User -> Nat]

Tokens(u) == IF limiters[u] = NoLimiter THEN Burst ELSE tokens[limiters[u]]

\* Buckets come and go with cleanup, yet a user gets what one bucket kept for
\* ever would allow: the bucket the next request finds holds no more than that.
\* What exceeds it is exactly what was admitted between cleanup's look at a
\* bucket and the end of the requests that had loaded it.
NoSecondBurst == \A u \in User : Tokens(u) <= allowance[u] + stray[u]

\* A request is refused only if its user has used up what one bucket allows:
\* neither another user's requests nor a deleted bucket is held against it.
NoWrongRefusal ==
    [][\A r \in Request : Refuse(r) => allowance[UserID[r]] <= 0]_vars

\* Whoever stops sending requests is forgotten: the map does not keep a bucket
\* for every X-User-ID there ever was.
InactiveForgotten ==
    \A u \in User :
      <>[](\A r \in Request : ~(loaded[r] # NoLimiter /\ UserID[r] = u))
        => <>[](limiters[u] = NoLimiter)

=============================================================================
