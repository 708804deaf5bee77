---------------------------- MODULE RateLimitGate ----------------------------
(***************************************************************************)
(* The Daytona client's memory of a 429 (daytona/client.go: rateLimitedAt, *)
(* retryAfter) and the calls that share it.  Every method of the client is *)
(* one of two kinds: the control calls go through doWithRetry, which looks *)
(* at the memory once and then sends up to MaxRetries + 1 requests; the    *)
(* toolbox calls Execute, UploadFile and DownloadFile send one.  Times are *)
(* what is left of them: Tick is a second for everybody.                   *)
(*                                                                         *)
(* There is one memory for two services, the API and the toolbox proxy,    *)
(* and any call may find either of them, or a gateway before it, limiting, *)
(* failing or serving at any time: what a call is answered does not depend *)
(* on what another has been told.                                          *)
(***************************************************************************)
EXTENDS Integers

CONSTANTS
    Control,        \* callers of Create, Get, List, Delete, Start, ListFiles, CreateFolder
    Toolbox,        \* callers of Execute, UploadFile, DownloadFile
    MaxRetries,     \* doWithRetry's third argument
    MaxWait,        \* bound: the longest Retry-After a service sends
    DefaultWait     \* parseRetryAfter without a header it can read: 30 seconds

ASSUME CallersAssumption == Control \cap Toolbox = {}
ASSUME TimesAssumption ==
    MaxRetries \in Nat /\ MaxWait \in Nat /\ DefaultWait \in Nat
\* Arithmetic that TLC evaluates and the provers have no rule for.
ASSUME PowersAssumption == \A n \in 0 .. MaxRetries : 2 ^ n \in Nat

Caller == Control \cup Toolbox

VARIABLES
    left,       \* how long isRateLimited still answers true
    at,         \* at[c]: where the call of c is
    attempt,    \* attempt[c]: the loop variable of doWithRetry
    backoff,    \* backoff[c]: what is left of time.After(backoff)
    answer,     \* answer[c]: the outcome of httpClient.Do
    overlap,    \* history: the calls under way since before the gate shut
    sent        \* history: sent[c]: requests c has sent since it shut

calls == <<at, attempt, backoff, answer>>
vars == <<left, at, attempt, backoff, answer, overlap, sent>>

Where == {"idle", "flying", "answered", "backing"}

\* "served" is the 200, 201 or 204 the method wants, "failed" any other status
\* but 429, "lost" an error of the transport.  wait is the Retry-After that
\* parseRetryAfter read.
Answer == [kind : {"served", "failed", "lost", "refused"}, wait : Nat]
NoAnswer == [kind |-> "lost", wait |-> 0]

Init ==
    /\ left = 0
    /\ at = [c \in Caller |-> "idle"]
    /\ attempt = [c \in Caller |-> 0]
    /\ backoff = [c \in Caller |-> 0]
    /\ answer = [c \in Caller |-> NoAnswer]
    /\ overlap = {}
    /\ sent = [c \in Caller |-> 0]

IsRateLimited == left > 0

Underway == {c \in Caller : at[c] # "idle"}

\* What every step adds to the history of the time the gate is shut.
Record ==
    /\ overlap' = IF left' = 0 THEN {}
                  ELSE IF left = 0 THEN Underway' ELSE overlap \cap Underway'
    /\ sent' = [c \in Caller |->
          IF left' = 0 THEN 0
          ELSE IF at[c] # "flying" /\ at'[c] = "flying" THEN sent[c] + 1 ELSE sent[c]]

-----------------------------------------------------------------------------
(* The services and the network.                                           *)

\* The header, or the default where it is missing or no number of seconds;
\* 0, or a negative number, leaves the gate open.
Waits == 0 .. MaxWait \cup {DefaultWait}

Respond(c, kind, wait) ==
    /\ at[c] = "flying"
    /\ answer' = [answer EXCEPT ![c] = [kind |-> kind, wait |-> wait]]
    /\ at' = [at EXCEPT ![c] = "answered"]
    /\ UNCHANGED <<left, attempt, backoff>>
    /\ Record

Refuse(c) == \E w \in Waits : Respond(c, "refused", w)

Serve(c) == \E kind \in {"served", "failed"} : Respond(c, kind, 0)

Lose(c) == Respond(c, "lost", 0)

\* Time passes for the gate and for those who back off.
Tick ==
    /\ left > 0 \/ \E c \in Caller : backoff[c] > 0
    /\ left' = IF left > 0 THEN left - 1 ELSE 0
    /\ backoff' = [c \in Caller |-> IF backoff[c] > 0 THEN backoff[c] - 1 ELSE 0]
    /\ UNCHANGED <<at, attempt, answer>>
    /\ Record

-----------------------------------------------------------------------------
(* A call.                                                                 *)

\* Mutation: the gate is not looked at.
BeginAnyway(c) ==
    /\ at[c] = "idle"
    /\ at' = [at EXCEPT ![c] = "flying"]
    /\ UNCHANGED <<left, attempt, backoff, answer>>
    /\ Record

\* Mutation: ErrRateLimited is taken for a refusal, also where no call was made.
BeginProlonging(c) ==
    /\ at[c] = "idle"
    /\ IF IsRateLimited THEN left' = DefaultWait /\ UNCHANGED at
                        ELSE at' = [at EXCEPT ![c] = "flying"] /\ UNCHANGED left
    /\ UNCHANGED <<attempt, backoff, answer>>
    /\ Record

\* if c.isRateLimited() { return nil, ErrRateLimited }, and the first request
Begin(c) ==
    /\ at[c] = "idle" /\ ~IsRateLimited
    /\ at' = [at EXCEPT ![c] = "flying"]
    /\ UNCHANGED <<left, attempt, backoff, answer>>
    /\ Record

SetRateLimited(c) == left' = answer[c].wait

ClearRateLimit == left' = 0

Return(c) ==
    /\ at' = [at EXCEPT ![c] = "idle"]
    /\ attempt' = [attempt EXCEPT ![c] = 0]
    /\ answer' = [answer EXCEPT ![c] = NoAnswer]
    /\ UNCHANGED backoff

\* Mutation: the loop has no bound.
ContinueForever(c) ==
    /\ at' = [at EXCEPT ![c] = "backing"]
    /\ answer' = [answer EXCEPT ![c] = NoAnswer]
    /\ backoff' = [backoff EXCEPT ![c] = 1]
    /\ UNCHANGED attempt

\* Mutation: a linear backoff that is one short.
ContinueLinear(c) ==
    /\ at' = [at EXCEPT ![c] = "backing"]
    /\ attempt' = [attempt EXCEPT ![c] = @ + 1]
    /\ backoff' = [backoff EXCEPT ![c] = attempt[c] - 1]
    /\ answer' = [answer EXCEPT ![c] = NoAnswer]

\* continue: the next attempt waits 2^(attempt - 1) seconds, or there is none:
\* "max retries exceeded".
Continue(c) ==
    IF attempt[c] < MaxRetries
    THEN /\ at' = [at EXCEPT ![c] = "backing"]
         /\ attempt' = [attempt EXCEPT ![c] = @ + 1]
         /\ backoff' = [backoff EXCEPT ![c] = 2 ^ attempt[c]]
         /\ answer' = [answer EXCEPT ![c] = NoAnswer]
    ELSE Return(c)

Outcome(c, kinds) == at[c] = "answered" /\ answer[c].kind \in kinds

\* Mutation: a transport error clears the gate as an answer does.
RetryLostClearing(c) ==
    /\ c \in Control /\ Outcome(c, {"lost"})
    /\ ClearRateLimit
    /\ Continue(c)
    /\ Record

RetryLost(c) ==
    /\ c \in Control /\ Outcome(c, {"lost"})
    /\ Continue(c)
    /\ UNCHANGED left
    /\ Record

RetryRefused(c) ==
    /\ c \in Control /\ Outcome(c, {"refused"})
    /\ SetRateLimited(c)
    /\ Continue(c)
    /\ Record

\* doWithRetry returns any other response, whatever its status.
ControlReturns(c) ==
    /\ c \in Control /\ Outcome(c, {"served", "failed"})
    /\ ClearRateLimit
    /\ Return(c)
    /\ Record

\* <-time.After(backoff), without a second look at the gate
Resend(c) ==
    /\ at[c] = "backing" /\ backoff[c] = 0
    /\ at' = [at EXCEPT ![c] = "flying"]
    /\ UNCHANGED <<left, attempt, backoff, answer>>
    /\ Record

\* <-ctx.Done()
GiveUp(c) ==
    /\ at[c] = "backing"
    /\ at' = [at EXCEPT ![c] = "idle"]
    /\ attempt' = [attempt EXCEPT ![c] = 0]
    /\ backoff' = [backoff EXCEPT ![c] = 0]
    /\ UNCHANGED <<left, answer>>
    /\ Record

ToolboxRefused(c) ==
    /\ c \in Toolbox /\ Outcome(c, {"refused"})
    /\ SetRateLimited(c)
    /\ Return(c)
    /\ Record

\* ErrSandboxNotFound, parseError and "sending request" leave the gate alone.
ToolboxFails(c) ==
    /\ c \in Toolbox /\ Outcome(c, {"failed", "lost"})
    /\ Return(c)
    /\ UNCHANGED left
    /\ Record

ToolboxReturns(c) ==
    /\ c \in Toolbox /\ Outcome(c, {"served"})
    /\ ClearRateLimit
    /\ Return(c)
    /\ Record

-----------------------------------------------------------------------------
Handle(c) ==
    RetryLost(c) \/ RetryRefused(c) \/ ControlReturns(c)
      \/ ToolboxRefused(c) \/ ToolboxFails(c) \/ ToolboxReturns(c)

Next ==
    \/ Tick
    \/ \E c \in Caller :
          Begin(c) \/ Refuse(c) \/ Serve(c) \/ Lose(c) \/ Handle(c) \/ Resend(c)
            \/ GiveUp(c)

Spec == Init /\ [][Next]_vars

\* Time passes, goroutines run, and httpClient.Timeout ends a request that
\* gets no answer.  Nobody has to call, and nothing has to be served.
Fairness ==
    /\ WF_vars(Tick)
    /\ \A c \in Caller :
          WF_vars(Refuse(c) \/ Serve(c) \/ Lose(c)) /\ WF_vars(Handle(c) \/ Resend(c))

FairSpec == Spec /\ Fairness

-----------------------------------------------------------------------------
(* Properties.                                                             *)

TypeOK ==
    /\ left \in Nat
    /\ at \in [Caller -> Where]
    /\ attempt \in [Caller -> Nat]
    /\ backoff \in [Caller -> Nat]
    /\ answer \in [Caller -> Answer]
    /\ overlap \subseteq Caller
    /\ sent \in [Caller -> Nat]

\* The answers of c after which the client touches its memory: a toolbox call
\* returns a failure without doing so.
Telling(c) ==
    /\ at[c] = "answered"
    /\ answer[c].kind \in IF c \in Control THEN {"served", "failed", "refused"}
                                          ELSE {"served", "refused"}

\* A limit that one call has been told of holds for all of them.  Nothing takes
\* time off it but time itself, and the answer to a call that was under way
\* already when it was set, which may be of the other service or older than the
\* refusal: no error of the transport does, and no call begun since.
LimitKept ==
    [][left' < left =>
         \/ at' = at /\ left' = left - 1
         \/ \E c \in overlap : Telling(c) /\ at'[c] # "answered"]_vars

\* From the refusal that shuts the gate until it opens, whatever opens it, a
\* service gets no request but the retries of the calls under way, and of each
\* of them no more than it is allowed in all.
LimitedTraffic ==
    \A c \in Caller : sent[c] <= IF c \in Control THEN MaxRetries ELSE 0

\* What the call of c may still go through: three steps for each attempt it has
\* left, and those to the end of the present one.
Remaining(c) ==
    CASE at[c] = "idle" -> 0
      [] at[c] = "flying" -> 3 * (MaxRetries - attempt[c]) + 2
      [] at[c] = "answered" -> 3 * (MaxRetries - attempt[c]) + 1
      [] at[c] = "backing" -> 3 * (MaxRetries - attempt[c]) + 3

\* The gate cannot keep itself shut: while it is, no call is begun and none
\* starts over, and every answer that prolongs it uses one of them up.
GateDrains ==
    [][IsRateLimited =>
         /\ \A c \in Caller : Remaining(c)' <= Remaining(c)
         /\ left' > left => \E c \in Caller : Remaining(c)' < Remaining(c)]_vars

\* Every call returns, whatever the service answers: the retries are bounded,
\* and so is every wait between them.
CallReturns == \A c \in Caller : at[c] # "idle" ~> at[c] = "idle"

\* However often calls are made and refused, the gate opens again: those it
\* turns away do not prolong it, and those under way can do so only so often.
GateReopens == IsRateLimited ~> ~IsRateLimited

=============================================================================
