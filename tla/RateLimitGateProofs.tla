------------------------- MODULE RateLimitGateProofs -------------------------
(***************************************************************************)
(* For any callers, number of retries and times, and whatever the services *)
(* answer: a limit is given up only for an answer that was already on its  *)
(* way, the traffic a shut gate lets through is bounded, and it drains.    *)
(* The invariant says which calls can be under way while the gate is shut, *)
(* and how many of its attempts each of them has used since.               *)
(***************************************************************************)
EXTENDS RateLimitGate, TLAPS

\* While the gate is shut nobody has begun a call.
OverlapInv ==
    /\ overlap \subseteq Caller
    /\ left > 0 => Underway \subseteq overlap

\* A call that backs off has an attempt counted that it has not yet made.
Attempts(c) ==
    /\ attempt[c] <= MaxRetries
    /\ c \notin Control => attempt[c] = 0
    /\ at[c] = "backing" => attempt[c] >= 1

\* Each request sent since the gate shut is one of the call's counted attempts.
Allowance(c) ==
    /\ at[c] \in {"flying", "answered"} => sent[c] <= attempt[c]
    /\ at[c] = "backing" => sent[c] + 1 <= attempt[c]
    /\ sent[c] <= IF c \in Control THEN MaxRetries ELSE 0

Traffic == \A c \in Caller : Attempts(c) /\ Allowance(c)

\* The history is a set of callers and a count.
LEMMA RecordType ==
    ASSUME TypeOK, Record
    PROVE  overlap' \subseteq Caller /\ sent' \in [Caller -> Nat]
BY DEF TypeOK, Record, Underway

\* Every variable keeps its type: the waits and the counters stay natural.
THEOREM GateTypeOK == Spec => []TypeOK
<1>0. NoAnswer \in Answer
  BY DEF NoAnswer, Answer
<1>1. Init => TypeOK
  <2> SUFFICES ASSUME Init PROVE TypeOK
    OBVIOUS
  <2>1. answer \in [Caller -> Answer]
    BY <1>0 DEF Init
  <2> QED
    BY <2>1 DEF Init, TypeOK, Where
<1>2. TypeOK /\ [Next]_vars => TypeOK'
  <2> SUFFICES ASSUME TypeOK, [Next]_vars PROVE TypeOK'
    OBVIOUS
  <2>r. Record => overlap' \subseteq Caller /\ sent' \in [Caller -> Nat]
    BY RecordType
  <2> USE TimesAssumption DEF TypeOK
  <2>a. ASSUME NEW c \in Caller, NEW k \in {"served", "failed", "lost", "refused"},
               NEW w \in Nat, Respond(c, k, w)
        PROVE  TypeOK'
    <3>1. at' \in [Caller -> Where] /\ answer' \in [Caller -> Answer]
      BY <2>a DEF Respond, Where, Answer
    <3> QED
      BY <2>a, <2>r, <3>1 DEF Respond
  <2>b. ASSUME NEW c \in Caller, Return(c)
        PROVE  /\ at' \in [Caller -> Where] /\ answer' \in [Caller -> Answer]
               /\ attempt' \in [Caller -> Nat] /\ backoff' \in [Caller -> Nat]
    BY <2>b, <1>0 DEF Return, Where
  <2>c. ASSUME NEW c \in Caller, Continue(c)
        PROVE  /\ at' \in [Caller -> Where] /\ answer' \in [Caller -> Answer]
               /\ attempt' \in [Caller -> Nat] /\ backoff' \in [Caller -> Nat]
    <3>1. CASE attempt[c] < MaxRetries
      <4>1. 2 ^ attempt[c] \in Nat
        BY <3>1, PowersAssumption
      <4> QED
        BY <2>c, <3>1, <4>1, <1>0 DEF Continue, Where
    <3>2. CASE ~(attempt[c] < MaxRetries)
      BY <2>c, <3>2, <2>b DEF Continue
    <3> QED
      BY <3>1, <3>2
  <2>d. ASSUME NEW c \in Caller, SetRateLimited(c) \/ ClearRateLimit
        PROVE  left' \in Nat
    BY <2>d DEF SetRateLimited, ClearRateLimit, Answer
  <2>1. CASE Tick
    <3>1. backoff' \in [Caller -> Nat]
      BY <2>1 DEF Tick
    <3> QED
      BY <2>1, <2>r, <3>1 DEF Tick
  <2>2. ASSUME NEW c \in Caller, Begin(c) \/ Resend(c) \/ GiveUp(c) PROVE TypeOK'
    BY <2>2, <2>r DEF Begin, Resend, GiveUp, Where
  <2>3. ASSUME NEW c \in Caller, Refuse(c) PROVE TypeOK'
    <3>1. PICK w \in Waits : Respond(c, "refused", w)
      BY <2>3 DEF Refuse
    <3>2. w \in Nat
      BY DEF Waits
    <3> QED
      BY <3>1, <3>2, <2>a
  <2>4. ASSUME NEW c \in Caller, Serve(c) \/ Lose(c) PROVE TypeOK'
    <3>1. \E k \in {"served", "failed", "lost"} : Respond(c, k, 0)
      BY <2>4 DEF Serve, Lose
    <3> QED
      BY <3>1, <2>a
  <2>5. ASSUME NEW c \in Caller, Handle(c) PROVE TypeOK'
    BY <2>5, <2>b, <2>c, <2>d, <2>r
    DEF Handle, RetryLost, RetryRefused, ControlReturns, ToolboxRefused, ToolboxFails,
        ToolboxReturns
  <2>6. CASE UNCHANGED vars
    BY <2>6 DEF vars
  <2> QED
    BY <2>1, <2>2, <2>3, <2>4, <2>5, <2>6 DEF Next
<1> QED
  BY <1>1, <1>2, PTL DEF Spec

-----------------------------------------------------------------------------
(* What the steps of a call do.                                            *)

\* The steps of call c move c alone; they are recorded; and a call is begun
\* only while the gate is open, which leaves it open.
LEMMA StepOfCall ==
    ASSUME TypeOK, NEW c \in Caller,
           Begin(c) \/ Refuse(c) \/ Serve(c) \/ Lose(c) \/ Handle(c) \/ Resend(c) \/ GiveUp(c)
    PROVE  /\ Record
           /\ at' = [at EXCEPT ![c] = at'[c]]
           /\ attempt' = [attempt EXCEPT ![c] = attempt'[c]]
           /\ left' \in Nat
           /\ at[c] = "idle" => left = 0 /\ left' = 0
<1>1. CASE Begin(c)
  BY <1>1 DEF Begin, IsRateLimited, TypeOK
<1>2. CASE Refuse(c) \/ Serve(c) \/ Lose(c)
  BY <1>2 DEF Refuse, Serve, Lose, Respond, TypeOK
<1>3. CASE Handle(c)
  <2>1. Record /\ at[c] = "answered" /\ (Return(c) \/ Continue(c))
    BY <1>3 DEF Handle, RetryLost, RetryRefused, ControlReturns, ToolboxRefused, ToolboxFails,
       ToolboxReturns, Outcome
  <2>2. left' \in Nat
    BY <1>3 DEF Handle, RetryLost, RetryRefused, ControlReturns, ToolboxRefused, ToolboxFails,
       ToolboxReturns, SetRateLimited, ClearRateLimit, Answer, TypeOK
  <2> QED
    BY <2>1, <2>2 DEF Return, Continue, TypeOK
<1>4. CASE Resend(c)
  BY <1>4 DEF Resend, TypeOK
<1>5. CASE GiveUp(c)
  BY <1>5 DEF GiveUp, TypeOK
<1> QED
  BY <1>1, <1>2, <1>3, <1>4, <1>5

\* A step of the history that begins no call while the gate is shut keeps all
\* who are under way in the overlap.
LEMMA OverlapStep ==
    ASSUME TypeOK, OverlapInv, [Next]_vars
    PROVE  OverlapInv'
<1> USE DEF OverlapInv, TypeOK
<1>1. ASSUME NEW c \in Caller,
             Begin(c) \/ Refuse(c) \/ Serve(c) \/ Lose(c) \/ Handle(c) \/ Resend(c) \/ GiveUp(c)
      PROVE  OverlapInv'
  <2>1. /\ Record /\ at' = [at EXCEPT ![c] = at'[c]]
        /\ at[c] = "idle" => left = 0 /\ left' = 0
        /\ left' \in Nat
    BY <1>1, StepOfCall
  <2>2. CASE left' = 0
    BY <2>1, <2>2 DEF Record
  <2>3. CASE left' > 0 /\ left = 0
    BY <2>1, <2>3 DEF Record, Underway
  <2>4. CASE left' > 0 /\ left > 0
    <3>1. Underway' \subseteq Underway
      BY <2>1, <2>4 DEF Underway
    <3> QED
      BY <2>1, <2>4, <3>1 DEF Record
  <2> QED
    BY <2>1, <2>2, <2>3, <2>4
<1>2. CASE Tick
  BY <1>2 DEF Tick, Record, Underway
<1>3. CASE UNCHANGED vars
  BY <1>3 DEF vars, Underway
<1> QED
  BY <1>1, <1>2, <1>3 DEF Next

\* A request is counted against the attempt it is; a call that is not the one
\* that moves has no more counted against it than before.
LEMMA CountedSends ==
    ASSUME TypeOK, Record, left' \in Nat, NEW c \in Caller
    PROVE  /\ sent'[c] \in Nat
           /\ sent'[c] <= sent[c] + 1
           /\ ~(at[c] # "flying" /\ at'[c] = "flying") => sent'[c] <= sent[c]
           /\ left' = 0 => sent'[c] = 0
BY DEF TypeOK, Record

\* Every step keeps what has been sent within the attempts that are counted.
LEMMA TrafficStep ==
    ASSUME TypeOK, Traffic, [Next]_vars
    PROVE  Traffic'
<1> USE TimesAssumption
<1>0. ASSUME NEW c \in Caller
      PROVE  /\ attempt[c] \in Nat /\ sent[c] \in Nat /\ at[c] \in Where
             /\ Attempts(c) /\ Allowance(c)
  BY DEF TypeOK, Traffic
<1>a. ASSUME Record, left' \in Nat, NEW d \in Caller, at'[d] = at[d], attempt'[d] = attempt[d]
      PROVE  Attempts(d)' /\ Allowance(d)'
  <2>1. sent'[d] \in Nat /\ sent'[d] <= sent[d]
    BY <1>a, CountedSends
  <2> QED
    BY <1>a, <1>0, <2>1 DEF Attempts, Allowance
<1>1. ASSUME NEW c \in Caller,
             Begin(c) \/ Refuse(c) \/ Serve(c) \/ Lose(c) \/ Handle(c) \/ Resend(c) \/ GiveUp(c)
      PROVE  Traffic'
  <2>1. /\ Record /\ left' \in Nat
        /\ \A d \in Caller \ {c} : at'[d] = at[d] /\ attempt'[d] = attempt[d]
    BY <1>1, StepOfCall DEF TypeOK
  <2>2. \A d \in Caller \ {c} : Attempts(d)' /\ Allowance(d)'
    BY <2>1, <1>a
  <2>3. /\ sent'[c] \in Nat /\ sent'[c] <= sent[c] + 1
        /\ ~(at[c] # "flying" /\ at'[c] = "flying") => sent'[c] <= sent[c]
        /\ left' = 0 => sent'[c] = 0
    BY <2>1, CountedSends
  <2>4. Attempts(c)' /\ Allowance(c)'
    <3>1. CASE Begin(c)
      <4>1. left' = 0 /\ at'[c] = "flying" /\ attempt'[c] = attempt[c]
        BY <3>1 DEF Begin, IsRateLimited, TypeOK
      <4> QED
        BY <4>1, <2>3, <1>0 DEF Attempts, Allowance
    <3>2. CASE Refuse(c) \/ Serve(c) \/ Lose(c)
      <4>1. at[c] = "flying" /\ at'[c] = "answered" /\ attempt'[c] = attempt[c]
        BY <3>2 DEF Refuse, Serve, Lose, Respond, TypeOK
      <4> QED
        BY <4>1, <2>3, <1>0 DEF Attempts, Allowance
    <3>3. CASE Handle(c)
      <4>1. /\ at[c] = "answered"
            /\ \/ at'[c] = "idle" /\ attempt'[c] = 0
               \/ /\ c \in Control /\ at'[c] = "backing"
                  /\ attempt[c] < MaxRetries /\ attempt'[c] = attempt[c] + 1
        BY <3>3 DEF Handle, RetryLost, RetryRefused, ControlReturns, ToolboxRefused,
           ToolboxFails, ToolboxReturns, Outcome, Return, Continue, TypeOK
      <4>2. sent'[c] <= sent[c] /\ sent[c] <= attempt[c]
        BY <4>1, <2>3, <1>0 DEF Allowance
      <4> QED
        BY <4>1, <4>2, <2>3, <1>0 DEF Attempts, Allowance
    <3>4. CASE Resend(c)
      <4>1. at[c] = "backing" /\ at'[c] = "flying" /\ attempt'[c] = attempt[c]
        BY <3>4 DEF Resend, TypeOK
      <4>2. sent'[c] <= attempt[c]
        BY <4>1, <2>3, <1>0 DEF Allowance
      <4> QED
        BY <4>1, <4>2, <2>3, <1>0 DEF Attempts, Allowance
    <3>5. CASE GiveUp(c)
      <4>1. at'[c] = "idle" /\ attempt'[c] = 0
        BY <3>5 DEF GiveUp, TypeOK
      <4> QED
        BY <4>1, <2>3, <1>0 DEF Attempts, Allowance
    <3> QED
      BY <1>1, <3>1, <3>2, <3>3, <3>4, <3>5
  <2> QED
    BY <2>2, <2>4 DEF Traffic
<1>2. CASE Tick
  <2>1. Record /\ left' \in Nat /\ at' = at /\ attempt' = attempt
    BY <1>2 DEF Tick, TypeOK
  <2> QED
    BY <2>1, <1>a DEF Traffic
<1>3. CASE UNCHANGED vars
  BY <1>3 DEF vars, Traffic, Attempts, Allowance
<1> QED
  BY <1>1, <1>2, <1>3 DEF Next

\* What is known of the calls under way, in every state.
LEMMA GateInvariant == Spec => [](TypeOK /\ OverlapInv /\ Traffic)
<1>1. Init => OverlapInv /\ Traffic
  BY TimesAssumption DEF Init, OverlapInv, Traffic, Attempts, Allowance
<1>2. TypeOK /\ OverlapInv /\ Traffic /\ [Next]_vars => (OverlapInv /\ Traffic)'
  BY OverlapStep, TrafficStep
<1> QED
  BY <1>1, <1>2, GateTypeOK, PTL DEF Spec

\* A shut gate lets through the retries of the calls under way and nothing else,
\* whatever the services answer and however the gate comes to open.
THEOREM LimitedTrafficThm == Spec => []LimitedTraffic
<1>1. Traffic => LimitedTraffic
  BY DEF Traffic, Allowance, LimitedTraffic
<1> QED
  BY <1>1, GateInvariant, PTL

\* A limit that is known is given up, or cut short, only for the answer to a call
\* that was under way when the gate shut: nobody else can have one.
THEOREM LimitKeptThm == Spec => LimitKept
<1> DEFINE Kept ==
      left' < left =>
        \/ at' = at /\ left' = left - 1
        \/ \E c \in overlap : Telling(c) /\ at'[c] # "answered"
<1>1. TypeOK /\ OverlapInv /\ [Next]_vars => [Kept]_vars
  <2> SUFFICES ASSUME TypeOK, OverlapInv, [Next]_vars, left' < left PROVE Kept
    OBVIOUS
  <2>0. left \in Nat
    BY DEF TypeOK
  <2>1. ASSUME NEW c \in Caller, RetryRefused(c) \/ ControlReturns(c) \/ ToolboxRefused(c)
                                   \/ ToolboxReturns(c)
        PROVE  Kept
    <3>1. Telling(c) /\ at'[c] # "answered"
      BY <2>1, CallersAssumption DEF RetryRefused, ControlReturns, ToolboxRefused,
         ToolboxReturns, Telling, Outcome, Return, Continue, TypeOK
    <3>2. left' \in Nat
      BY <2>1, StepOfCall DEF Handle
    <3>3. c \in overlap
      BY <2>0, <3>1, <3>2 DEF Telling, OverlapInv, Underway
    <3> QED
      BY <3>1, <3>3
  <2>2. CASE Tick
    BY <2>2, <2>0 DEF Tick
  <2>3. ASSUME NEW c \in Caller, Begin(c) \/ Refuse(c) \/ Serve(c) \/ Lose(c) \/ Resend(c)
                                   \/ GiveUp(c) \/ RetryLost(c) \/ ToolboxFails(c)
        PROVE  left' = left
    BY <2>3 DEF Begin, Refuse, Serve, Lose, Respond, Resend, GiveUp, RetryLost, ToolboxFails
  <2>4. CASE UNCHANGED vars
    BY <2>4, <2>0 DEF vars
  <2> QED
    BY <2>0, <2>1, <2>2, <2>3, <2>4 DEF Next, Handle
<1> HIDE DEF Kept
<1>2. Spec => [][Kept]_vars
  BY <1>1, GateInvariant, PTL DEF Spec
<1> QED
  BY <1>2 DEF Kept, LimitKept

-----------------------------------------------------------------------------
(* How a call comes to its end.                                            *)

\* A call that has been begun has steps left, and uses one up with each step of
\* its own; an answer that is handled is one.  A call that is not begun has none.
LEMMA CallShrinks ==
    ASSUME TypeOK, NEW c \in Caller, Attempts(c)
    PROVE  /\ Remaining(c) \in Nat
           /\ Refuse(c) \/ Serve(c) \/ Lose(c) \/ Handle(c) \/ Resend(c) \/ GiveUp(c)
                => Remaining(c)' \in Int /\ Remaining(c)' < Remaining(c)
<1>1. attempt[c] \in 0 .. MaxRetries /\ at[c] \in Where
  BY DEF TypeOK, Attempts
<1>2. MaxRetries - attempt[c] \in Nat
  BY <1>1, TimesAssumption
<1>3. Remaining(c) \in Nat
  BY <1>1, <1>2 DEF Remaining, Where
<1>4. ASSUME Refuse(c) \/ Serve(c) \/ Lose(c)
      PROVE  Remaining(c)' \in Int /\ Remaining(c)' < Remaining(c)
  <2>1. at[c] = "flying" /\ at'[c] = "answered" /\ attempt'[c] = attempt[c]
    BY <1>4 DEF Refuse, Serve, Lose, Respond, TypeOK
  <2>2. /\ Remaining(c) = 3 * (MaxRetries - attempt[c]) + 2
        /\ Remaining(c)' = 3 * (MaxRetries - attempt[c]) + 1
    BY <2>1 DEF Remaining
  <2> QED
    BY <1>2, <2>2
<1>5. ASSUME Handle(c)
      PROVE  Remaining(c)' \in Int /\ Remaining(c)' < Remaining(c)
  <2>1. /\ at[c] = "answered"
        /\ \/ at'[c] = "idle"
           \/ at'[c] = "backing" /\ attempt'[c] = attempt[c] + 1
    BY <1>5 DEF Handle, RetryLost, RetryRefused, ControlReturns, ToolboxRefused,
       ToolboxFails, ToolboxReturns, Outcome, Return, Continue, TypeOK
  <2>2. Remaining(c) = 3 * (MaxRetries - attempt[c]) + 1
    BY <2>1 DEF Remaining
  <2>3. CASE at'[c] = "idle"
    <3>1. Remaining(c)' = 0
      BY <2>3 DEF Remaining
    <3> QED
      BY <1>2, <2>2, <3>1
  <2>4. CASE at'[c] = "backing" /\ attempt'[c] = attempt[c] + 1
    <3>1. Remaining(c)' = 3 * (MaxRetries - (attempt[c] + 1)) + 3
      BY <2>4 DEF Remaining
    <3> QED
      BY <1>1, <2>2, <3>1, TimesAssumption
  <2> QED
    BY <2>1, <2>3, <2>4
<1>6. ASSUME Resend(c) \/ GiveUp(c)
      PROVE  Remaining(c)' \in Int /\ Remaining(c)' < Remaining(c)
  <2>1. /\ at[c] = "backing"
        /\ \/ at'[c] = "idle"
           \/ at'[c] = "flying" /\ attempt'[c] = attempt[c]
    <3>1. CASE Resend(c)
      BY <3>1 DEF Resend, TypeOK
    <3>2. CASE GiveUp(c)
      BY <3>2 DEF GiveUp, TypeOK
    <3> QED
      BY <1>6, <3>1, <3>2
  <2>2. /\ Remaining(c) = 3 * (MaxRetries - attempt[c]) + 3
        /\ \/ Remaining(c)' = 0
           \/ Remaining(c)' = 3 * (MaxRetries - attempt[c]) + 2
    BY <2>1 DEF Remaining
  <2> QED
    BY <1>2, <2>2
<1> QED
  BY <1>3, <1>4, <1>5, <1>6

\* The steps of call c leave the others where they are.
LEMMA OthersRemain ==
    ASSUME TypeOK, NEW c \in Caller, NEW d \in Caller, d # c,
           Refuse(c) \/ Serve(c) \/ Lose(c) \/ Handle(c) \/ Resend(c) \/ GiveUp(c)
    PROVE  Remaining(d)' = Remaining(d)
<1>1. at'[d] = at[d] /\ attempt'[d] = attempt[d]
  BY DEF Refuse, Serve, Lose, Respond, Handle, RetryLost, RetryRefused, ControlReturns,
     ToolboxRefused, ToolboxFails, ToolboxReturns, Return, Continue, Resend, GiveUp, TypeOK
<1> QED
  BY <1>1 DEF Remaining

\* While the gate is shut the steps the calls have left only become fewer, and
\* it is prolonged at the price of one of them: so often at the most as there
\* are steps left when it shuts.
THEOREM GateDrainsThm == Spec => GateDrains
<1> DEFINE Drains ==
      IsRateLimited =>
        /\ \A c \in Caller : Remaining(c)' <= Remaining(c)
        /\ left' > left => \E c \in Caller : Remaining(c)' < Remaining(c)
<1>1. TypeOK /\ Traffic /\ [Next]_vars => [Drains]_vars
  <2> SUFFICES ASSUME TypeOK, Traffic, [Next]_vars, IsRateLimited PROVE Drains
    OBVIOUS
  <2>0. \A d \in Caller : Remaining(d) \in Nat
    BY CallShrinks DEF Traffic
  <2>1. ASSUME NEW c \in Caller,
               Refuse(c) \/ Serve(c) \/ Lose(c) \/ Handle(c) \/ Resend(c) \/ GiveUp(c)
        PROVE  Drains
    <3>1. Remaining(c)' \in Int /\ Remaining(c)' < Remaining(c)
      BY <2>1, CallShrinks DEF Traffic
    <3>2. \A d \in Caller : d # c => Remaining(d)' = Remaining(d)
      BY <2>1, OthersRemain
    <3>3. Remaining(c)' <= Remaining(c) /\ \A d \in Caller : Remaining(d) <= Remaining(d)
      BY <2>0, <3>1
    <3> QED
      BY <3>1, <3>2, <3>3
  <2>2. CASE Tick \/ UNCHANGED vars
    <3>1. at' = at /\ attempt' = attempt /\ ~(left' > left)
      BY <2>2 DEF Tick, vars, TypeOK
    <3>2. \A d \in Caller : Remaining(d)' = Remaining(d)
      BY <3>1 DEF Remaining
    <3> QED
      BY <2>0, <3>1, <3>2
  <2>3. ASSUME NEW c \in Caller PROVE ~Begin(c)
    BY DEF Begin
  <2> QED
    BY <2>1, <2>2, <2>3 DEF Next
<1> HIDE DEF Drains
<1>2. Spec => [][Drains]_vars
  BY <1>1, GateInvariant, PTL DEF Spec
<1> QED
  BY <1>2 DEF Drains, GateDrains

=============================================================================
