-------------------------- MODULE ApiServiceProofs --------------------------
(***************************************************************************)
(* What POST answers, when it answers, and what the validator's caches     *)
(* hold, for any number of requests, accounts and handlers in flight, any  *)
(* TTL and timeout, and a chain that changes at any time.                  *)
(***************************************************************************)
EXTENDS ApiService, TransferQueueProofs

-----------------------------------------------------------------------------
(* What a call is after each of its steps *)

CallRecords == {Call(pc, asked) : pc \in {"idle"} \cup Questions \cup Results, asked \in 0..now}

LEMMA AfterAccountLemma ==
    ASSUME NEW a, NEW exists
    PROVE  AfterAccount(a, exists) \in {Ask("storage")} \cup {Return(result) : result \in Results}
<1>1. AfterAccount(a, exists) \in {Ask("storage"), Return("nonexistent"), Return("valid"),
                                   Return("undeposited")}
  BY DEF AfterAccount, AfterStorage
<1> QED BY <1>1 DEF Results

LEMMA BeginLemma ==
    ASSUME NEW a
    PROVE  Begin(a) \in {Ask("account"), Ask("storage")} \cup {Return(result) : result \in Results}
  BY AfterAccountLemma DEF Begin

\* A call stays in its question, moves from the first to the second, or is done.
Moved(k) ==
    \E r : /\ call' = [call EXCEPT ![k] = r]
           /\ \/ r.pc \in Results /\ r.asked = 0
              \/ call[k].pc = "account" /\ r.pc = "storage" /\ r.asked = now

\* A step of a call leaves the caches alone or stamps one answer, which is an
\* answer of the node or a "no deposit".
Stamped(k) ==
    \/ cache' = cache
    \/ \E question \in Questions, value \in BOOLEAN :
          /\ Awaiting(k, question)
          /\ Remember(question, k[2], value)
          /\ value \in Replies(k) \/ (question = "storage" /\ ~ value)

LEMMA CallOutcome ==
    ASSUME NEW k \in Keys, CallStep(k)
    PROVE  /\ call[k].pc \in Questions
           /\ UNCHANGED <<now, fact, changed>>
           /\ Moved(k)
           /\ Stamped(k)
<1>1. ASSUME NEW r \in Results
      PROVE  Return(r).pc \in Results /\ Return(r).asked = 0
  BY <1>1 DEF Return, Call
<1>2. Ask("storage").pc = "storage" /\ Ask("storage").asked = now
  BY DEF Ask, Call
<1>3. ASSUME NEW value \in BOOLEAN, AccountAnswered(k, value)
      PROVE  /\ call[k].pc \in Questions
             /\ UNCHANGED <<now, fact, changed>>
             /\ Moved(k)
             /\ Stamped(k)
  <2>1. AfterAccount(k[2], value)
            \in {Ask("storage")} \cup {Return(result) : result \in Results}
    BY AfterAccountLemma
  <2>2. call[k].pc = "account" /\ UNCHANGED <<now, fact, changed>>
    BY <1>3 DEF AccountAnswered, Awaiting
  <2>3. Moved(k)
    BY <1>1, <1>2, <1>3, <2>1, <2>2 DEF AccountAnswered, Moved
  <2>4. Stamped(k)
    BY <1>3 DEF AccountAnswered, Stamped, Questions
  <2> QED BY <2>2, <2>3, <2>4 DEF Questions
<1>4. ASSUME NEW value \in BOOLEAN, StorageAnswered(k, value)
      PROVE  /\ call[k].pc \in Questions
             /\ UNCHANGED <<now, fact, changed>>
             /\ Moved(k)
             /\ Stamped(k)
  <2>1. AfterStorage(value) \in {Return(result) : result \in Results}
    BY DEF AfterStorage, Results
  <2>2. call[k].pc = "storage" /\ UNCHANGED <<now, fact, changed>>
    BY <1>4 DEF StorageAnswered, Awaiting
  <2>3. Moved(k)
    BY <1>1, <1>4, <2>1 DEF StorageAnswered, Moved
  <2>4. Stamped(k)
    BY <1>4 DEF StorageAnswered, Stamped, Questions
  <2> QED BY <2>2, <2>3, <2>4 DEF Questions
<1>5. CASE AccountFailed(k)
  <2>1. "failed" \in Results
    BY DEF Results
  <2>2. Moved(k)
    BY <1>1, <1>5, <2>1 DEF AccountFailed, Moved
  <2> QED BY <1>5, <2>2 DEF AccountFailed, Awaiting, Stamped, Questions
<1>6. CASE TimedOut(k)
  <2>1. "failed" \in Results
    BY DEF Results
  <2>2. Moved(k)
    BY <1>1, <1>6, <2>1 DEF TimedOut, Moved
  <2> QED BY <1>6, <2>2 DEF TimedOut, Overdue, Stamped
<1> QED BY <1>3, <1>4, <1>5, <1>6 DEF CallStep

-----------------------------------------------------------------------------
(* Types *)

\* What ValidatorTypeOK says of the caches and of the calls.
CacheTyped(c) ==
    /\ DOMAIN c = Questions
    /\ \A question \in Questions :
          /\ DOMAIN c[question] \subseteq Accounts
          /\ \A a \in DOMAIN c[question] : c[question][a] \in Entry /\ c[question][a].at <= now

CallsTyped(calls) ==
    /\ DOMAIN calls = Keys
    /\ \A k \in Keys : /\ calls[k].pc \in {"idle"} \cup Questions \cup Results
                       /\ calls[k].asked \in 0..now

LEMMA TypedByParts ==
    ASSUME ValidatorTypeOK, UNCHANGED <<now, fact, changed>>,
           CacheTyped(cache'), CallsTyped(call')
    PROVE  ValidatorTypeOK'
  BY DEF ValidatorTypeOK, CacheTyped, CallsTyped

LEMMA PartsTyped ==
    ASSUME ValidatorTypeOK
    PROVE  CacheTyped(cache) /\ CallsTyped(call) /\ now \in Nat
  BY DEF ValidatorTypeOK, CacheTyped, CallsTyped

LEMMA RememberTyped ==
    ASSUME ApiAssumption, ValidatorTypeOK,
           NEW question \in Questions, NEW a \in Accounts, NEW value \in BOOLEAN,
           Remember(question, a, value)
    PROVE  CacheTyped(cache')
<1> DEFINE e == [value |-> value, at |-> now]
<1>1. e \in Entry /\ e.at <= now
  BY DEF ValidatorTypeOK, Entry, ApiAssumption
<1>2. /\ DOMAIN cache' = Questions
      /\ \A q \in Questions \ {question} : cache'[q] = cache[q]
      /\ cache'[question] = [b \in DOMAIN cache[question] \cup {a} |->
                                IF b = a THEN e ELSE cache[question][b]]
  BY DEF Remember, ValidatorTypeOK
<1> HIDE DEF e
<1> QED BY <1>1, <1>2, PartsTyped DEF CacheTyped

LEMMA CallStepTyped ==
    ASSUME ApiAssumption, ValidatorTypeOK, NEW k \in Keys, CallStep(k)
    PROVE  ValidatorTypeOK'
<1>1. UNCHANGED <<now, fact, changed>> /\ Moved(k) /\ Stamped(k)
  BY CallOutcome
<1>2. CacheTyped(cache')
  <2>1. CASE cache' = cache
    BY <2>1, PartsTyped
  <2>2. ASSUME NEW question \in Questions, NEW value \in BOOLEAN,
               Remember(question, k[2], value)
        PROVE  CacheTyped(cache')
    <3>1. k[2] \in Accounts
      BY DEF Keys
    <3> QED BY <2>2, <3>1, RememberTyped
  <2> QED BY <1>1, <2>1, <2>2 DEF Stamped
<1>3. CallsTyped(call')
  BY <1>1, PartsTyped DEF Moved, CallsTyped, Questions
<1> QED BY <1>1, <1>2, <1>3, TypedByParts

\* A batch begins: each call is awaiting a query asked now, or done.
LEMMA BeginRecord ==
    ASSUME NEW a
    PROVE  /\ Begin(a).pc \in Questions \cup Results
           /\ Begin(a).asked \in {0, now}
           /\ Begin(a).pc \in Questions => Begin(a).asked = now
  BY BeginLemma DEF Ask, Return, Call, Questions, Results

LEMMA ValidateTyped ==
    ASSUME ValidatorTypeOK, NEW p, NEW S, ValidateBatch(p, S)
    PROVE  ValidatorTypeOK'
<1>1. CallsTyped(call')
  BY BeginRecord, PartsTyped DEF ValidateBatch, CallsTyped
<1> QED BY <1>1, PartsTyped, TypedByParts DEF ValidateBatch

\* The calls of a handler that is gone.
LEMMA ForgottenTyped ==
    ASSUME ValidatorTypeOK, NEW K,
           call' = [k \in Keys |-> IF k \in K THEN NoCall ELSE call[k]],
           cache' \in {cache, EmptyCaches}, UNCHANGED <<now, fact, changed>>
    PROVE  ValidatorTypeOK'
<1>1. NoCall.pc = "idle" /\ NoCall.asked = 0
  BY DEF NoCall, Call
<1>2. CallsTyped(call')
  BY <1>1, PartsTyped DEF CallsTyped
<1>3. CacheTyped(EmptyCaches)
  BY DEF CacheTyped, EmptyCaches
<1> QED BY <1>2, <1>3, PartsTyped, TypedByParts

LEMMA ChangeTyped ==
    ASSUME ValidatorTypeOK, NEW question \in Questions, NEW a \in Accounts,
           ChainChanges(question, a)
    PROVE  ValidatorTypeOK'
<1>1. fact' \in [Questions -> [Accounts -> BOOLEAN]]
  BY DEF ChainChanges, ValidatorTypeOK
<1>2. /\ DOMAIN changed' = Questions
      /\ \A q \in Questions : /\ DOMAIN changed'[q] \subseteq Accounts
                              /\ \A b \in DOMAIN changed'[q] : changed'[q][b] \in 0..now
  BY PartsTyped DEF ChainChanges, ValidatorTypeOK
<1> QED BY <1>1, <1>2 DEF ChainChanges, ValidatorTypeOK

LEMMA TickTyped ==
    ASSUME ApiAssumption, ValidatorTypeOK, Tick
    PROVE  ValidatorTypeOK'
<1>1. now' \in 0..MaxTime /\ now \in Nat /\ \A t : t \in 0..now => t \in 0..now'
  BY DEF Tick, ValidatorTypeOK, ApiAssumption
<1>2. \A t \in Nat : t <= now => t <= now'
  BY <1>1 DEF Tick
<1> QED BY <1>1, <1>2 DEF Tick, ValidatorTypeOK, Entry

LEMMA ValidatorInitTyped ==
    ASSUME ApiAssumption, ValidatorInit
    PROVE  ValidatorTypeOK
<1>1. NoCall.pc = "idle" /\ NoCall.asked = 0
  BY DEF NoCall, Call
<1>2. CacheTyped(EmptyCaches)
  BY DEF CacheTyped, EmptyCaches
<1> QED BY <1>1, <1>2 DEF ValidatorInit, ValidatorTypeOK, CacheTyped, ApiAssumption

-----------------------------------------------------------------------------
(* Type correctness *)

Bookkeeping ==
    /\ handler \in [Posts -> HandlerPcs]
    /\ since \in [Posts -> 0..MaxTime]
    /\ disturbances \in 0..MaxDisturbances

TypeInv == TypeOK /\ TicketHolds

LEMMA TypeInvParts == TypeInv <=> QueueTypeOK /\ TicketHolds /\ ValidatorTypeOK /\ Bookkeeping
  BY DEF TypeInv, TypeOK, Bookkeeping

\* An answer empties the stack of the handler, and the others go on.
LEMMA AnswerTyped ==
    ASSUME ApiAssumption, ValidatorTypeOK, Bookkeeping, NEW p \in Posts,
           NEW answer \in Answers, Answer(p, answer), UNCHANGED <<now, fact, changed, cache>>
    PROVE  /\ ValidatorTypeOK'
           /\ handler' \in [Posts -> HandlerPcs]
           /\ since' \in [Posts -> 0..MaxTime]
<1>1. call' = [k \in Keys |-> IF k \in {j \in Keys : j[1] = p} THEN NoCall ELSE call[k]]
  BY DEF Answer
<1>2. ValidatorTypeOK'
  BY <1>1, ForgottenTyped
<1>3. 0 \in 0..MaxTime
  BY DEF ApiAssumption
<1> QED BY <1>2, <1>3 DEF Answer, Bookkeeping, HandlerPcs

LEMMA DisturbTyped ==
    ASSUME ApiAssumption, Bookkeeping, Disturb
    PROVE  disturbances' \in 0..MaxDisturbances
  BY DEF Disturb, Bookkeeping, ApiAssumption

LEMMA PushTyped ==
    ASSUME ApiAssumption, NEW p \in Posts, PushNext(p)
    PROVE  \E i \in Unqueued(p), deposit \in BOOLEAN :
              /\ Body[p][i] \in Requests
              /\ i \in DOMAIN Body[p]
              /\ \A j \in Unqueued(p) : i <= j
              /\ Push(Body[p][i], deposit)
<1>1. \A i \in DOMAIN Body[p] : Body[p][i] \in Requests
  BY DEF ApiAssumption
<1> QED BY <1>1 DEF PushNext, Unqueued

LEMMA TypeInvStep ==
    ASSUME QueueAssumption, ApiAssumption, TypeInv, [Next]_vars
    PROVE  TypeInv'
<1>0. QueueTypeOK /\ TicketHolds /\ ValidatorTypeOK /\ Bookkeeping
  BY TypeInvParts
<1>1. ASSUME NEW p \in Posts, Accept(p)
      PROVE  TypeInv'
  <2>1. QueueTypeOK' /\ TicketHolds'
    BY <1>0, <1>1, StutterQueue DEF Accept
  <2>2. ValidatorTypeOK'
    BY <1>0, <1>1, ValidateTyped DEF Accept
  <2>3. Bookkeeping'
    BY <1>0, <1>1 DEF Accept, Bookkeeping, ValidatorTypeOK, HandlerPcs
  <2> QED BY <2>1, <2>2, <2>3, TypeInvParts DEF TypeInv, TypeOK, Bookkeeping
<1>2. ASSUME NEW p \in Posts, Refuse(p) \/ AnswerIds(p)
      PROVE  TypeInv'
  <2>1. QueueTypeOK' /\ TicketHolds'
    BY <1>0, <1>2, StutterQueue DEF Refuse, AnswerIds
  <2>2. \E answer \in Answers : Answer(p, answer)
    BY <1>2 DEF Refuse, AnswerIds, Answers
  <2>3. ValidatorTypeOK' /\ Bookkeeping'
    BY <1>0, <1>2, <2>2, AnswerTyped DEF Refuse, AnswerIds, Bookkeeping
  <2> QED BY <2>1, <2>3 DEF TypeInv, TypeOK, Bookkeeping
<1>3. ASSUME NEW p \in Posts, PushFails(p)
      PROVE  TypeInv'
  <2>1. QueueTypeOK' /\ TicketHolds'
    BY <1>0, <1>3, StutterQueue DEF PushFails
  <2>2. "500" \in Answers
    BY DEF Answers
  <2>3. ValidatorTypeOK' /\ Bookkeeping'
    BY <1>0, <1>3, <2>2, AnswerTyped, DisturbTyped DEF PushFails, Bookkeeping
  <2> QED BY <2>1, <2>3 DEF TypeInv, TypeOK, Bookkeeping
<1>4. ASSUME NEW p \in Posts, Admit(p)
      PROVE  TypeInv'
  <2>1. QueueTypeOK' /\ TicketHolds'
    BY <1>0, <1>4, StutterQueue DEF Admit
  <2>2. ValidatorTypeOK'
    BY <1>0, <1>4 DEF Admit, validatorVars, ValidatorTypeOK
  <2>3. Bookkeeping'
    BY <1>0, <1>4 DEF Admit, Bookkeeping, HandlerPcs
  <2> QED BY <2>1, <2>2, <2>3 DEF TypeInv, TypeOK, Bookkeeping
<1>5. ASSUME NEW p \in Posts, PushNext(p)
      PROVE  TypeInv'
  <2>1. QueueTypeOK' /\ TicketHolds'
    BY <1>0, <1>5, PushTyped, PushQueue
  <2>2. ValidatorTypeOK' /\ Bookkeeping'
    BY <1>0, <1>5 DEF PushNext, validatorVars, apiVars, ValidatorTypeOK, Bookkeeping
  <2> QED BY <2>1, <2>2 DEF TypeInv, TypeOK, Bookkeeping
<1>6. CASE Crash
  <2>1. QueueTypeOK' /\ TicketHolds'
    BY <1>0, <1>6, StutterQueue DEF Crash
  <2>2. ValidatorTypeOK'
    <3>1. call' = [k \in Keys |-> IF k \in Keys THEN NoCall ELSE call[k]]
      BY <1>6 DEF Crash
    <3> QED BY <1>0, <1>6, <3>1, ForgottenTyped DEF Crash, ClearCache
  <2>3. Bookkeeping'
    BY <1>0, <1>6, DisturbTyped DEF Crash, Bookkeeping, HandlerPcs, Answers, ApiAssumption
  <2> QED BY <2>1, <2>2, <2>3 DEF TypeInv, TypeOK, Bookkeeping
<1>7. CASE Take
  <2>1. QueueTypeOK' /\ TicketHolds'
    BY <1>0, <1>7, CreateQueue DEF Take
  <2>2. ValidatorTypeOK'
    BY <1>0, <1>7 DEF Take, validatorVars, ValidatorTypeOK
  <2>3. Bookkeeping'
    BY <1>0, <1>7, DisturbTyped DEF Take, Bookkeeping
  <2> QED BY <2>1, <2>2, <2>3 DEF TypeInv, TypeOK, Bookkeeping
<1>8. CASE ValidatorStep
  <2>1. QueueTypeOK' /\ TicketHolds'
    BY <1>0, <1>8, StutterQueue DEF ValidatorStep
  <2>2. ValidatorTypeOK'
    BY <1>0, <1>8, CallStepTyped, ChangeTyped DEF ValidatorStep
  <2>3. Bookkeeping'
    BY <1>0, <1>8 DEF ValidatorStep, apiVars, Bookkeeping
  <2> QED BY <2>1, <2>2, <2>3 DEF TypeInv, TypeOK, Bookkeeping
<1>9. CASE ClockStep
  <2>1. QueueTypeOK' /\ TicketHolds'
    BY <1>0, <1>9, StutterQueue DEF ClockStep
  <2>2. ValidatorTypeOK'
    BY <1>0, <1>9, TickTyped DEF ClockStep
  <2>3. Bookkeeping'
    BY <1>0, <1>9 DEF ClockStep, apiVars, Bookkeeping
  <2> QED BY <2>1, <2>2, <2>3 DEF TypeInv, TypeOK, Bookkeeping
<1>10. CASE UNCHANGED vars
  <2>1. QueueTypeOK' /\ TicketHolds'
    BY <1>0, <1>10, StutterQueue DEF vars
  <2>2. ValidatorTypeOK'
    BY <1>0, <1>10 DEF vars, validatorVars, ValidatorTypeOK
  <2>3. Bookkeeping'
    BY <1>0, <1>10 DEF vars, apiVars, Bookkeeping
  <2> QED BY <2>1, <2>2, <2>3 DEF TypeInv, TypeOK, Bookkeeping
<1> QED
  BY <1>1, <1>2, <1>3, <1>4, <1>5, <1>6, <1>7, <1>8, <1>9, <1>10 DEF Next, HandlerStep

LEMMA TypeInvInit ==
    ASSUME QueueAssumption, ApiAssumption, Init
    PROVE  TypeInv
<1>1. QueueTypeOK /\ TicketHolds
  BY InitQueue DEF Init
<1>2. ValidatorTypeOK
  BY ValidatorInitTyped DEF Init
<1>3. Bookkeeping
  BY DEF Init, Bookkeeping, HandlerPcs, ApiAssumption
<1> QED BY <1>1, <1>2, <1>3 DEF TypeInv, TypeOK, Bookkeeping

\* The tables, the caches, the calls and the handlers keep their types, and each
\* accepted request stays in the row whose id the POST answers.
THEOREM ApiTypes == Spec => [](TypeOK /\ TicketHolds)
<1>1. Init => TypeInv
  BY QueueAssumption, ApiAssumption, TypeInvInit
<1>2. TypeInv /\ [Next]_vars => TypeInv'
  BY QueueAssumption, ApiAssumption, TypeInvStep
<1> QED BY <1>1, <1>2, PTL DEF Spec, TypeInv

-----------------------------------------------------------------------------
(* Answers stay true *)

\* Why handlers answer in time: a call that waits belongs to a handler that
\* waits for it, is not overdue, and has asked its first question at once, its
\* second one within a timeout.
ClockedCall(k) ==
    /\ call[k].pc # "idle" => k[2] \in Receivers(k[1])
    /\ call[k].pc \in Questions =>
           /\ handler[k[1]] = "validating"
           /\ now <= call[k].asked + Timeout
           /\ since[k[1]] <= call[k].asked
    /\ call[k].pc = "account" => call[k].asked <= since[k[1]]
    /\ call[k].pc = "storage" => call[k].asked <= since[k[1]] + Timeout
    /\ handler[k[1]] = "validating" /\ k[2] \in Receivers(k[1]) => call[k].pc # "idle"

Clocked == \A k \in Keys : ClockedCall(k)

LEMMA TrueLonger ==
    ASSUME ValidatorTypeOK, NEW question \in Questions, NEW a, NEW value,
           NEW s \in Nat, NEW t \in Nat, s <= t, TrueSince(question, a, value, t)
    PROVE  TrueSince(question, a, value, s)
<1>1. \A b \in DOMAIN changed[question] : changed[question][b] \in Nat
  BY DEF ValidatorTypeOK
<1> QED BY <1>1 DEF TrueSince

\* The chain as a step leaves it: as it was, or changed now.
ChainMoves ==
    \/ UNCHANGED <<fact, changed>>
    \/ \E question \in Questions, a \in Accounts : ChainChanges(question, a)

LEMMA StepMovesChain ==
    ASSUME [Next]_vars
    PROVE  ChainMoves
<1>1. ASSUME NEW k \in Keys, CallStep(k)
      PROVE  UNCHANGED <<fact, changed>>
  BY <1>1, CallOutcome
<1>2. ASSUME ValidatorStep
      PROVE  ChainMoves
  BY <1>1, <1>2 DEF ValidatorStep, ChainMoves
<1>3. ASSUME ~ ValidatorStep
      PROVE  UNCHANGED <<fact, changed>>
  BY <1>3 DEF Next, vars, validatorVars, Accept, HandlerStep, Refuse, Admit, PushNext, AnswerIds,
              PushFails, Crash, Take, ClockStep, Tick, ValidateBatch
<1> QED BY <1>2, <1>3 DEF ChainMoves

LEMMA StaysTrue ==
    ASSUME ValidatorTypeOK, ChainMoves, NEW question \in Questions, NEW a \in Accounts,
           NEW value \in BOOLEAN, NEW s \in 0..now, TrueSince(question, a, value, s)
    PROVE  TrueSince(question, a, value, s)'
<1>1. CASE UNCHANGED <<fact, changed>>
  BY <1>1 DEF TrueSince
<1>2. ASSUME NEW q \in Questions, NEW b \in Accounts, ChainChanges(q, b)
      PROVE  TrueSince(question, a, value, s)'
  <2>1. now \in Nat /\ s <= now
    BY DEF ValidatorTypeOK
  <2>2. CASE q = question /\ b = a
    <3>1. a \in DOMAIN changed'[question] /\ changed'[question][a] = now
      BY <1>2, <2>2 DEF ChainChanges, ValidatorTypeOK
    <3> QED BY <2>1, <3>1 DEF TrueSince
  <2>3. CASE ~ (q = question /\ b = a)
    <3>1. fact'[question][a] = fact[question][a]
      BY <1>2, <2>3 DEF ChainChanges, ValidatorTypeOK
    <3>2. /\ a \in DOMAIN changed[question] => a \in DOMAIN changed'[question]
          /\ a \in DOMAIN changed[question] => changed'[question][a] = changed[question][a]
      BY <1>2, <2>3 DEF ChainChanges, ValidatorTypeOK
    <3> QED BY <3>1, <3>2 DEF TrueSince
  <2> QED BY <2>2, <2>3
<1> QED BY <1>1, <1>2 DEF ChainMoves

-----------------------------------------------------------------------------
(* The caches *)

Floor(t) == IF Timeout <= t THEN t - Timeout ELSE 0

EntryTrue(question, a, entry) ==
    \/ question = "storage" /\ ~ entry.value
    \/ TrueSince(question, a, entry.value, Floor(entry.at))

LEMMA CacheByEntry ==
    CacheTellsTruth <=> \A question \in Questions : \A a \in DOMAIN cache[question] :
                            EntryTrue(question, a, cache[question][a])
  BY DEF CacheTellsTruth, EntryTrue, Floor

\* An answer that was asked less than a timeout ago may be stamped now.
LEMMA StampTrue ==
    ASSUME ApiAssumption, ValidatorTypeOK, Clocked, NEW k \in Keys,
           NEW question \in Questions, NEW value \in BOOLEAN, Awaiting(k, question),
           value \in Replies(k) \/ (question = "storage" /\ ~ value)
    PROVE  EntryTrue(question, k[2], [value |-> value, at |-> now])
<1>1. call[k].pc = question /\ now \in Nat /\ Timeout \in Nat
      /\ call[k].asked \in Nat /\ now <= call[k].asked + Timeout
  BY DEF Awaiting, ValidatorTypeOK, ApiAssumption, Clocked, ClockedCall
<1>2. Floor(now) \in Nat /\ Floor(now) <= call[k].asked
  BY <1>1 DEF Floor
<1>3. CASE value \in Replies(k)
  <2>1. TrueSince(question, k[2], value, call[k].asked)
    BY <1>1, <1>3 DEF Replies
  <2>2. TrueSince(question, k[2], value, Floor(now))
    BY <1>1, <1>2, <2>1, TrueLonger
  <2> QED BY <2>2 DEF EntryTrue
<1> QED BY <1>3 DEF EntryTrue

\* CacheTellsTruth', with the entries of the new caches as constants.
LEMMA CachePrimed ==
    ASSUME \A question \in Questions : \A a \in DOMAIN cache'[question] : \A entry :
               entry = cache'[question][a] => EntryTrue(question, a, entry)'
    PROVE  CacheTellsTruth'
  BY DEF CacheTellsTruth, EntryTrue, Floor

\* The caches as a step leaves them: as they were, empty, or with one stamp more.
LEMMA StepMovesCache ==
    ASSUME [Next]_vars
    PROVE  \/ cache' = cache
           \/ cache' = EmptyCaches
           \/ \E k \in Keys : CallStep(k) /\ Stamped(k)
<1>1. CASE ValidatorStep
  BY <1>1, CallOutcome DEF ValidatorStep, ChainChanges
<1>2. CASE ~ ValidatorStep
  BY <1>2 DEF Next, vars, validatorVars, Accept, HandlerStep, Refuse, Admit, PushNext, AnswerIds,
              PushFails, Crash, ClearCache, Take, ClockStep, Tick, ValidateBatch
<1> QED BY <1>1, <1>2

LEMMA CacheStep ==
    ASSUME ApiAssumption, ValidatorTypeOK, Clocked, CacheTellsTruth, [Next]_vars
    PROVE  CacheTellsTruth'
<1>1. ChainMoves
  BY StepMovesChain
<1>2. ASSUME NEW question \in Questions, NEW a \in DOMAIN cache[question]
      PROVE  EntryTrue(question, a, cache[question][a])
  BY <1>2, CacheByEntry
<1>3. ASSUME NEW question \in Questions, NEW a \in Accounts, NEW entry \in Entry,
             entry.at <= now, EntryTrue(question, a, entry)
      PROVE  EntryTrue(question, a, entry)'
  <2>1. Floor(entry.at) \in 0..now /\ entry.value \in BOOLEAN
    BY <1>3 DEF Floor, Entry, ApiAssumption, ValidatorTypeOK
  <2>2. CASE TrueSince(question, a, entry.value, Floor(entry.at))
    <3> DEFINE s == Floor(entry.at)
    <3>1. TrueSince(question, a, entry.value, s)'
      BY <1>1, <2>1, <2>2, StaysTrue
    <3> QED BY <3>1 DEF EntryTrue, Floor
  <2> QED BY <1>3, <2>2 DEF EntryTrue
<1>4. ASSUME NEW question \in Questions, NEW a \in DOMAIN cache[question],
             NEW entry, entry = cache[question][a]
      PROVE  EntryTrue(question, a, entry)'
  <2>1. a \in Accounts /\ entry \in Entry /\ entry.at <= now
    BY <1>4 DEF ValidatorTypeOK
  <2>2. EntryTrue(question, a, entry)
    BY <1>2, <1>4
  <2> QED BY <1>3, <2>1, <2>2
<1>5. CASE cache' = cache
  <2>1. ASSUME NEW question \in Questions, NEW a \in DOMAIN cache'[question],
               NEW entry, entry = cache'[question][a]
        PROVE  EntryTrue(question, a, entry)'
    BY <1>4, <1>5, <2>1
  <2> QED BY <2>1, CachePrimed
<1>6. CASE cache' = EmptyCaches
  <2>1. \A question \in Questions : DOMAIN cache'[question] = {}
    BY <1>6 DEF EmptyCaches
  <2> QED BY <2>1, CachePrimed
<1>7. ASSUME NEW k \in Keys, CallStep(k), NEW asked \in Questions, NEW value \in BOOLEAN,
             Awaiting(k, asked), Remember(asked, k[2], value),
             value \in Replies(k) \/ (asked = "storage" /\ ~ value)
      PROVE  CacheTellsTruth'
  <2>1. UNCHANGED <<fact, changed>>
    BY <1>7, CallOutcome
  <2>2. ASSUME NEW entry, entry = [value |-> value, at |-> now]
        PROVE  EntryTrue(asked, k[2], entry)'
    <3>1. EntryTrue(asked, k[2], entry)
      BY <1>7, <2>2, StampTrue
    <3> QED BY <2>1, <3>1 DEF EntryTrue, Floor, TrueSince
  <2>3. ASSUME NEW question \in Questions, NEW a \in DOMAIN cache'[question],
               NEW entry, entry = cache'[question][a]
        PROVE  EntryTrue(question, a, entry)'
    <3>1. CASE question = asked /\ a = k[2]
      <4>1. entry = [value |-> value, at |-> now]
        BY <1>7, <2>3, <3>1 DEF Remember, ValidatorTypeOK
      <4> QED BY <2>2, <3>1, <4>1
    <3>2. CASE ~ (question = asked /\ a = k[2])
      <4>1. a \in DOMAIN cache[question] /\ cache'[question][a] = cache[question][a]
        BY <1>7, <2>3, <3>2 DEF Remember, ValidatorTypeOK
      <4> QED BY <1>4, <2>3, <4>1
    <3> QED BY <3>1, <3>2
  <2> QED BY <2>3, CachePrimed
<1> QED
  BY <1>5, <1>6, <1>7, StepMovesCache DEF Stamped

-----------------------------------------------------------------------------
(* The clock *)

LEMMA ReceiversAreAccounts ==
    ASSUME QueueAssumption, ApiAssumption, NEW p \in Posts
    PROVE  Receivers(p) \subseteq Accounts
  BY DEF QueueAssumption, ApiAssumption, Receivers, Transfers

\* A handler that is neither done nor there is no waiting one.
LEMMA AnswerClocked ==
    ASSUME TypeInv, Clocked, NEW p \in Posts, NEW answer \in Answers, Answer(p, answer),
           UNCHANGED now
    PROVE  Clocked'
<1>1. NoCall.pc = "idle" /\ answer # "validating"
  BY DEF NoCall, Call, Answers
<1>2. handler'[p] = answer
  BY DEF Answer, TypeInv, TypeOK
<1>3. \A o \in Posts \ {p} : handler'[o] = handler[o] /\ since'[o] = since[o]
  BY DEF Answer, TypeInv, TypeOK
<1>4. SUFFICES ASSUME NEW k \in Keys PROVE ClockedCall(k)'
  BY DEF Clocked
<1>5. CASE k[1] = p
  <2>1. call'[k].pc = "idle" /\ handler'[k[1]] # "validating"
    BY <1>1, <1>2, <1>5 DEF Answer
  <2> QED BY <2>1 DEF ClockedCall, Questions
<1>6. CASE k[1] # p
  <2>1. call'[k] = call[k] /\ k[1] \in Posts \ {p}
    BY <1>6 DEF Answer, Keys
  <2> QED BY <1>3, <2>1 DEF Clocked, ClockedCall
<1> QED BY <1>5, <1>6

LEMMA AcceptClocked ==
    ASSUME QueueAssumption, ApiAssumption, TypeInv, Clocked, NEW p \in Posts, Accept(p)
    PROVE  Clocked'
<1>1. handler'[p] = "validating" /\ since'[p] = now /\ now' = now
  BY DEF Accept, ValidateBatch, TypeInv, TypeOK
<1>2. \A o \in Posts \ {p} : handler'[o] = handler[o] /\ since'[o] = since[o]
  BY DEF Accept, TypeInv, TypeOK
<1>3. now \in Nat /\ Timeout \in Nat
  BY DEF ApiAssumption, TypeInv, TypeOK, ValidatorTypeOK
<1>4. SUFFICES ASSUME NEW k \in Keys PROVE ClockedCall(k)'
  BY DEF Clocked
<1>5. CASE k[1] = p /\ k[2] \in Receivers(p)
  <2>1. call'[k] = Begin(k[2])
    BY <1>5 DEF Accept, ValidateBatch
  <2>2. /\ call'[k].pc \in Questions \cup Results
        /\ call'[k].pc \in Questions => call'[k].asked = now
    BY <2>1, BeginRecord
  <2>3. call'[k].pc # "idle"
    BY <2>2 DEF Questions, Results
  <2> QED BY <1>1, <1>3, <1>5, <2>2, <2>3 DEF ClockedCall, Questions
<1>6. CASE k[1] = p /\ k[2] \notin Receivers(p)
  <2>1. call'[k] = call[k]
    BY <1>6 DEF Accept, ValidateBatch
  <2>2. call[k].pc = "idle"
    BY <1>6 DEF Clocked, ClockedCall
  <2> QED BY <1>6, <2>1, <2>2 DEF ClockedCall, Questions
<1>7. CASE k[1] # p
  <2>1. call'[k] = call[k] /\ k[1] \in Posts \ {p}
    BY <1>7 DEF Accept, ValidateBatch, Keys
  <2> QED BY <1>1, <1>2, <2>1 DEF Clocked, ClockedCall
<1> QED BY <1>5, <1>6, <1>7

LEMMA AdmitClocked ==
    ASSUME TypeInv, Clocked, NEW p \in Posts, Admit(p)
    PROVE  Clocked'
<1>1. handler'[p] = "pushing" /\ UNCHANGED <<since, call, now>>
  BY DEF Admit, validatorVars, TypeInv, TypeOK
<1>2. \A o \in Posts \ {p} : handler'[o] = handler[o]
  BY DEF Admit, TypeInv, TypeOK
<1>3. SUFFICES ASSUME NEW k \in Keys PROVE ClockedCall(k)'
  BY DEF Clocked
<1>4. CASE k[1] = p
  <2>1. k = <<p, k[2]>>
    BY <1>4 DEF Keys
  <2>2. call[k].pc # "idle" => call[k].pc \in Results
    BY <1>4, <2>1 DEF Clocked, ClockedCall, Admit, Validated, AllSettled
  <2>3. call[k].pc \notin Questions
    BY <2>2 DEF Questions, Results
  <2> QED BY <1>1, <1>4, <2>3 DEF Clocked, ClockedCall, Questions
<1>5. CASE k[1] # p
  <2>1. k[1] \in Posts \ {p}
    BY <1>5 DEF Keys
  <2> QED BY <1>1, <1>2, <2>1 DEF Clocked, ClockedCall
<1> QED BY <1>4, <1>5

LEMMA CallClocked ==
    ASSUME ApiAssumption, TypeInv, Clocked, NEW k \in Keys, CallStep(k), UNCHANGED apiVars
    PROVE  Clocked'
<1>1. /\ call[k].pc \in Questions
      /\ UNCHANGED <<now, handler, since>>
      /\ Moved(k)
  BY CallOutcome DEF apiVars
<1>2. PICK r : /\ call' = [call EXCEPT ![k] = r]
               /\ \/ r.pc \in Results /\ r.asked = 0
                  \/ call[k].pc = "account" /\ r.pc = "storage" /\ r.asked = now
  BY <1>1 DEF Moved
<1>3. call'[k] = r /\ \A j \in Keys \ {k} : call'[j] = call[j]
  BY <1>2 DEF TypeInv, TypeOK, ValidatorTypeOK
<1>4. /\ now \in Nat /\ Timeout \in Nat /\ k[1] \in Posts
      /\ since[k[1]] \in Nat /\ call[k].asked \in Nat
  BY DEF ApiAssumption, TypeInv, TypeOK, ValidatorTypeOK, Keys
<1>5. /\ k[2] \in Receivers(k[1])
      /\ handler[k[1]] = "validating"
      /\ now <= call[k].asked + Timeout
      /\ call[k].pc = "account" => call[k].asked <= since[k[1]]
      /\ since[k[1]] <= call[k].asked
  BY <1>1 DEF Clocked, ClockedCall, Questions
<1>6. since[k[1]] <= now
  BY <1>4, <1>5 DEF TypeInv, TypeOK, ValidatorTypeOK
<1>7. ClockedCall(k)'
  <2>1. CASE r.pc \in Results
    <3>1. r.pc \notin Questions /\ r.pc # "idle"
      BY <2>1 DEF Questions, Results
    <3> QED BY <1>1, <1>3, <1>5, <3>1 DEF ClockedCall, Questions
  <2>2. CASE call[k].pc = "account" /\ r.pc = "storage" /\ r.asked = now
    <3>1. now <= since[k[1]] + Timeout /\ now <= now + Timeout
      BY <1>4, <1>5, <2>2
    <3> QED BY <1>1, <1>3, <1>5, <1>6, <2>2, <3>1 DEF ClockedCall, Questions
  <2> QED BY <1>2, <2>1, <2>2
<1>8. ASSUME NEW j \in Keys \ {k}
      PROVE  ClockedCall(j)'
  BY <1>1, <1>3, <1>8 DEF Clocked, ClockedCall
<1> QED BY <1>7, <1>8 DEF Clocked

LEMMA TickInTime ==
    ASSUME QueueAssumption, ApiAssumption, TypeInv, Clocked, AnsweredInTime, ClockStep
    PROVE  Clocked' /\ AnsweredInTime'
<1>1. /\ AtRest /\ now' = now + 1
      /\ UNCHANGED <<call, handler, since>>
      /\ \A k \in Keys : ~ Overdue(k)
  BY DEF ClockStep, Tick, apiVars
<1>2. now \in Nat /\ Timeout \in Nat
  BY DEF ApiAssumption, TypeInv, TypeOK, ValidatorTypeOK
<1>3. ASSUME NEW k \in Keys, call[k].pc \in Questions
      PROVE  now' <= call[k].asked + Timeout
  <2>1. call[k].asked \in Nat
    BY DEF TypeInv, TypeOK, ValidatorTypeOK
  <2>2. now < call[k].asked + Timeout
    BY <1>1, <1>2, <1>3, <2>1 DEF Overdue
  <2> QED BY <1>1, <1>2, <2>1, <2>2
<1>4. Clocked'
  BY <1>1, <1>3 DEF Clocked, ClockedCall
<1>5. ASSUME NEW p \in Posts, handler[p] = "validating"
      PROVE  now' <= since[p] + 2 * Timeout
  <2>1. PICK a \in Receivers(p) : call[<<p, a>>].pc \notin Results
    BY <1>1, <1>5 DEF AtRest, Validated, AllSettled
  <2> DEFINE k == <<p, a>>
  <2>2. k \in Keys /\ k[1] = p /\ k[2] = a
    BY ReceiversAreAccounts DEF Keys
  <2>3. ClockedCall(k) /\ call[k].pc \in Questions
    BY <1>5, <2>1, <2>2 DEF Clocked, ClockedCall, TypeInv, TypeOK, ValidatorTypeOK
  <2>4. since[p] \in Nat /\ call[k].asked \in Nat
    BY <2>2 DEF ApiAssumption, TypeInv, TypeOK, ValidatorTypeOK
  <2>5. call[k].asked <= since[p] + Timeout
    BY <1>2, <2>2, <2>3, <2>4 DEF ClockedCall, Questions
  <2>6. now' <= call[k].asked + Timeout
    BY <1>3, <2>2, <2>3
  <2> QED BY <1>1, <1>2, <2>4, <2>5, <2>6
<1>6. AnsweredInTime'
  BY <1>1, <1>5 DEF AnsweredInTime
<1> QED BY <1>4, <1>6

\* Every other step leaves the clock, and starts no wait but a fresh one.
LEMMA NoTickInTime ==
    ASSUME ApiAssumption, TypeInv, AnsweredInTime, [Next]_vars, ~ ClockStep
    PROVE  AnsweredInTime' /\ UNCHANGED now
<1>1. ASSUME NEW k \in Keys, CallStep(k)
      PROVE  UNCHANGED now
  BY <1>1, CallOutcome
<1>2. UNCHANGED now
  BY <1>1 DEF Next, vars, validatorVars, Accept, HandlerStep, Refuse, Admit, PushNext, AnswerIds,
              PushFails, Crash, Take, ValidatorStep, ChainChanges, ValidateBatch
<1>3. now \in Nat /\ Timeout \in Nat
  BY DEF ApiAssumption, TypeInv, TypeOK, ValidatorTypeOK
<1>4. ASSUME NEW p \in Posts, handler'[p] = "validating"
      PROVE  \/ since'[p] = now
             \/ handler[p] = "validating" /\ since'[p] = since[p]
  <2> USE <1>4
  <2>1. handler \in [Posts -> HandlerPcs] /\ since \in [Posts -> 0..MaxTime]
    BY DEF TypeInv, TypeOK
  <2>2. ASSUME NEW o \in Posts, Accept(o)
        PROVE  \/ since'[p] = now
               \/ handler[p] = "validating" /\ since'[p] = since[p]
    BY <2>1, <2>2 DEF Accept
  <2>3. ASSUME NEW o \in Posts, NEW answer \in Answers, Answer(o, answer)
        PROVE  handler[p] = "validating" /\ since'[p] = since[p]
    BY <2>1, <2>3 DEF Answer, Answers
  <2>4. ASSUME NEW o \in Posts, HandlerStep(o) \/ PushFails(o)
        PROVE  handler[p] = "validating" /\ since'[p] = since[p]
    <3>1. CASE Admit(o) \/ PushNext(o)
      BY <2>1, <3>1 DEF Admit, PushNext, apiVars
    <3>2. CASE Refuse(o) \/ AnswerIds(o) \/ PushFails(o)
      BY <2>3, <3>2 DEF Refuse, AnswerIds, PushFails, Answers
    <3> QED BY <2>4, <3>1, <3>2 DEF HandlerStep
  <2>5. CASE Crash
    BY <2>1, <2>5 DEF Crash
  <2>6. CASE Take \/ ValidatorStep \/ UNCHANGED vars
    BY <2>6 DEF Take, ValidatorStep, vars, apiVars
  <2> QED BY <2>2, <2>4, <2>5, <2>6 DEF Next
<1>5. ASSUME NEW p \in Posts, handler'[p] = "validating"
      PROVE  now' <= since'[p] + 2 * Timeout
  <2>1. CASE since'[p] = now
    BY <1>2, <1>3, <2>1
  <2>2. CASE handler[p] = "validating" /\ since'[p] = since[p]
    BY <1>2, <2>2 DEF AnsweredInTime
  <2> QED BY <1>4, <1>5, <2>1, <2>2
<1> QED BY <1>2, <1>5 DEF AnsweredInTime

LEMMA ClockedStep ==
    ASSUME QueueAssumption, ApiAssumption, TypeInv, Clocked, AnsweredInTime, [Next]_vars
    PROVE  Clocked' /\ AnsweredInTime'
<1>1. CASE ClockStep
  BY <1>1, TickInTime
<1>2. CASE ~ ClockStep
  <2>1. AnsweredInTime' /\ UNCHANGED now
    BY <1>2, NoTickInTime
  <2> SUFFICES Clocked'
    BY <2>1
  <2>2. ASSUME UNCHANGED <<handler, since, call>>
        PROVE  Clocked'
    BY <2>1, <2>2 DEF Clocked, ClockedCall
  <2>3. ASSUME NEW p \in Posts, Accept(p) \/ HandlerStep(p) \/ PushFails(p)
        PROVE  Clocked'
    <3>1. CASE Refuse(p) \/ AnswerIds(p) \/ PushFails(p)
      <4>1. \E answer \in Answers : Answer(p, answer)
        BY <3>1 DEF Refuse, AnswerIds, PushFails, Answers
      <4> QED BY <2>1, <4>1, AnswerClocked
    <3>2. CASE PushNext(p)
      BY <2>2, <3>2 DEF PushNext, validatorVars, apiVars
    <3> QED BY <2>3, <3>1, <3>2, AcceptClocked, AdmitClocked DEF HandlerStep
  <2>4. CASE Crash
    <3>1. \A p \in Posts : handler'[p] # "validating"
      BY <2>4 DEF Crash
    <3>2. \A k \in Keys : call'[k].pc = "idle"
      BY <2>4 DEF Crash, NoCall, Call
    <3>3. \A k \in Keys : k[1] \in Posts
      BY DEF Keys
    <3> QED BY <3>1, <3>2, <3>3 DEF Clocked, ClockedCall, Questions
  <2>5. CASE ValidatorStep
    <3>1. ASSUME NEW question \in Questions, NEW a \in Accounts, ChainChanges(question, a)
          PROVE  Clocked'
      BY <2>2, <2>5, <3>1 DEF ValidatorStep, ChainChanges, apiVars
    <3> QED BY <2>5, <3>1, CallClocked DEF ValidatorStep
  <2>6. CASE Take \/ UNCHANGED vars
    BY <2>2, <2>6 DEF Take, validatorVars, vars, apiVars
  <2> QED BY <1>2, <2>1, <2>3, <2>4, <2>5, <2>6 DEF Next
<1> QED BY <1>1, <1>2

LEMMA ClockInit ==
    ASSUME Init
    PROVE  Clocked /\ AnsweredInTime /\ CacheTellsTruth
<1>1. \A p \in Posts : handler[p] # "validating"
  BY DEF Init
<1>2. \A k \in Keys : call[k].pc = "idle" /\ k[1] \in Posts
  BY DEF Init, ValidatorInit, NoCall, Call, Keys
<1>3. \A question \in Questions : DOMAIN cache[question] = {}
  BY DEF Init, ValidatorInit, EmptyCaches
<1>4. Clocked
  BY <1>1, <1>2 DEF Clocked, ClockedCall, Questions
<1> QED BY <1>1, <1>3, <1>4 DEF AnsweredInTime, CacheTellsTruth

TimeInv == TypeInv /\ Clocked /\ AnsweredInTime /\ CacheTellsTruth

LEMMA TimeInvInit ==
    ASSUME QueueAssumption, ApiAssumption, Init
    PROVE  TimeInv
  BY TypeInvInit, ClockInit DEF TimeInv

LEMMA TimeInvStep ==
    ASSUME QueueAssumption, ApiAssumption, TimeInv, [Next]_vars
    PROVE  TimeInv'
<1>1. TypeInv /\ Clocked /\ AnsweredInTime /\ CacheTellsTruth /\ ValidatorTypeOK
  BY DEF TimeInv, TypeInv, TypeOK
<1>2. CacheTellsTruth'
  BY <1>1, CacheStep
<1> QED BY <1>1, <1>2, TypeInvStep, ClockedStep DEF TimeInv

\* No handler waits longer for its validations than for two queries that time
\* out, whatever the node does and however many receivers there are.
THEOREM TimelyAnswers == Spec => []AnsweredInTime
<1>1. Init => TimeInv
  BY QueueAssumption, ApiAssumption, TimeInvInit
<1>2. TimeInv /\ [Next]_vars => TimeInv'
  BY QueueAssumption, ApiAssumption, TimeInvStep
<1>3. TimeInv => AnsweredInTime
  BY DEF TimeInv
<1> QED BY <1>1, <1>2, <1>3, PTL DEF Spec

\* The caches of the validator hold what the node said of the chain less than a
\* timeout before the stamp, or a "no deposit" that an error left.
THEOREM CacheTruth == Spec => []CacheTellsTruth
<1>1. Init => TimeInv
  BY QueueAssumption, ApiAssumption, TimeInvInit
<1>2. TimeInv /\ [Next]_vars => TimeInv'
  BY QueueAssumption, ApiAssumption, TimeInvStep
<1>3. TimeInv => CacheTellsTruth
  BY DEF TimeInv
<1> QED BY <1>1, <1>2, <1>3, PTL DEF Spec

-----------------------------------------------------------------------------
(* What is answered *)

TrueAnswer(p) ==
    /\ handler[p] = "200" => Unqueued(p) = {}
    /\ handler[p] \in {"new", "validating", "400"} => Unqueued(p) = DOMAIN Body[p]
    /\ \A i \in Unqueued(p) : \A j \in DOMAIN Body[p] : i <= j => j \in Unqueued(p)

LEMMA TrueAnswerParts == AnswersAreTrue <=> \A p \in Posts : TrueAnswer(p)
  BY DEF AnswersAreTrue, TrueAnswer

LEMMA PushTakesTicket ==
    ASSUME TypeInv, NEW r \in Requests, NEW deposit, Push(r, deposit)
    PROVE  /\ ticket'[r] # Null
           /\ \A s \in Requests \ {r} : ticket'[s] = ticket[s]
<1>1. lastItemId \in Nat /\ ticket \in [Requests -> 0..lastItemId]
      /\ DOMAIN queue = 1..lastItemId
  BY DEF TypeInv, TypeOK, QueueTypeOK
<1>2. ASSUME NEW i \in Mergeable(Receiver[r]), Merge(r, i, deposit)
      PROVE  /\ ticket'[r] # Null
             /\ \A s \in Requests \ {r} : ticket'[s] = ticket[s]
  <2>1. i \in 1..lastItemId
    BY <1>1, <1>2 DEF Mergeable, Pending
  <2> QED BY <1>1, <1>2, <2>1 DEF Merge, Null
<1>3. ASSUME Insert(r, deposit)
      PROVE  /\ ticket'[r] # Null
             /\ \A s \in Requests \ {r} : ticket'[s] = ticket[s]
  BY <1>1, <1>3 DEF Insert, Null
<1> QED BY <1>2, <1>3 DEF Push

\* A turn of the loop of one handler takes the least of its own transfers.
LEMMA PushTakesLeast ==
    ASSUME ApiAssumption, TypeInv, NEW o \in Posts, PushNext(o)
    PROVE  \E i \in Unqueued(o) :
              /\ \A j \in Unqueued(o) : i <= j
              /\ Unqueued(o)' = Unqueued(o) \ {i}
              /\ \A p \in Posts \ {o} : Unqueued(p)' = Unqueued(p)
<1>1. PICK i \in Unqueued(o), deposit \in BOOLEAN :
          /\ Body[o][i] \in Requests
          /\ i \in DOMAIN Body[o]
          /\ \A j \in Unqueued(o) : i <= j
          /\ Push(Body[o][i], deposit)
  BY PushTyped
<1>2. /\ ticket'[Body[o][i]] # Null
      /\ \A s \in Requests \ {Body[o][i]} : ticket'[s] = ticket[s]
  BY <1>1, PushTakesTicket
<1>3. \A p \in Posts : \A j \in DOMAIN Body[p] : Body[p][j] \in Requests
  BY DEF ApiAssumption
<1>4. \A p \in Posts : \A j \in DOMAIN Body[p] :
          Body[p][j] = Body[o][i] => p = o /\ j = i
  BY <1>1 DEF ApiAssumption
<1>5. Unqueued(o)' = Unqueued(o) \ {i}
  BY <1>2, <1>3, <1>4 DEF Unqueued
<1>6. \A p \in Posts \ {o} : Unqueued(p)' = Unqueued(p)
  BY <1>2, <1>3, <1>4 DEF Unqueued
<1> QED BY <1>1, <1>5, <1>6

LEMMA OthersQueueNothing ==
    ASSUME [Next]_vars, \A o \in Posts : ~ PushNext(o)
    PROVE  UNCHANGED ticket
  BY DEF Next, HandlerStep, Accept, Refuse, Admit, AnswerIds, PushFails, Crash, Take,
         CreateSignedTransaction, ValidatorStep, ClockStep, vars, queueVars

\* The other steps answer 200 only when nothing is left to queue.
LEMMA OthersAnswer ==
    ASSUME ApiAssumption, TypeInv, [Next]_vars, \A o \in Posts : ~ PushNext(o), NEW p \in Posts
    PROVE  /\ handler'[p] = "200" => handler[p] = "200" \/ Unqueued(p) = {}
           /\ handler'[p] \in {"new", "validating", "400"}
                  => handler[p] \in {"new", "validating", "400"}
<1>1. handler \in [Posts -> HandlerPcs]
  BY DEF TypeInv, TypeOK
<1>2. ASSUME NEW o \in Posts, Accept(o) \/ Admit(o)
      PROVE  /\ handler'[p] = "200" => handler[p] = "200"
             /\ handler'[p] \in {"new", "validating", "400"}
                    => handler[p] \in {"new", "validating", "400"}
  BY <1>1, <1>2 DEF Accept, Admit, Validated
<1>3. ASSUME NEW o \in Posts, Refuse(o) \/ AnswerIds(o) \/ PushFails(o)
      PROVE  /\ handler'[p] = "200" => handler[p] = "200" \/ Unqueued(p) = {}
             /\ handler'[p] \in {"new", "validating", "400"}
                    => handler[p] \in {"new", "validating", "400"}
  BY <1>1, <1>3 DEF Refuse, AnswerIds, PushFails, Answer, Validated
<1>4. CASE Crash
  BY <1>1, <1>4 DEF Crash
<1>5. CASE Take \/ ValidatorStep \/ ClockStep \/ UNCHANGED vars
  BY <1>5 DEF Take, ValidatorStep, ClockStep, vars, apiVars
<1> QED BY <1>2, <1>3, <1>4, <1>5 DEF Next, HandlerStep

LEMMA AnswersStep ==
    ASSUME ApiAssumption, TypeInv, AnswersAreTrue, [Next]_vars
    PROVE  AnswersAreTrue'
<1>1. \A p \in Posts : TrueAnswer(p)
  BY TrueAnswerParts
<1>2. SUFFICES ASSUME NEW p \in Posts PROVE TrueAnswer(p)'
  BY DEF AnswersAreTrue, TrueAnswer
<1>3. CASE \A o \in Posts : ~ PushNext(o)
  <2>1. Unqueued(p)' = Unqueued(p)
    BY <1>3, OthersQueueNothing DEF Unqueued
  <2> QED BY <1>1, <1>3, <2>1, OthersAnswer DEF TrueAnswer
<1>4. ASSUME NEW o \in Posts, PushNext(o)
      PROVE  TrueAnswer(p)'
  <2>1. PICK i \in Unqueued(o) :
            /\ \A j \in Unqueued(o) : i <= j
            /\ Unqueued(o)' = Unqueued(o) \ {i}
            /\ \A q \in Posts \ {o} : Unqueued(q)' = Unqueued(q)
    BY <1>4, PushTakesLeast
  <2>2. handler[o] = "pushing" /\ UNCHANGED handler
    BY <1>4 DEF PushNext, apiVars
  <2>3. CASE p # o
    BY <1>1, <2>1, <2>2, <2>3 DEF TrueAnswer
  <2>4. CASE p = o
    <3>1. DOMAIN Body[o] \subseteq Nat /\ Unqueued(o) \subseteq DOMAIN Body[o]
      BY DEF ApiAssumption, Unqueued
    <3>2. \A k \in Unqueued(o) \ {i} : \A j \in DOMAIN Body[o] :
              k <= j => j \in Unqueued(o) \ {i}
      BY <1>1, <2>1, <3>1 DEF TrueAnswer
    <3> QED BY <2>1, <2>2, <2>4, <3>2 DEF TrueAnswer
  <2> QED BY <2>3, <2>4
<1> QED BY <1>3, <1>4

\* After 200 every transfer of the body has a row, after 400 none has, and what is
\* queued is an initial part of the body, whatever fails in between.
THEOREM TrueAnswers == Spec => []AnswersAreTrue
<1>1. Init => TypeInv /\ AnswersAreTrue
  <2>1. ASSUME Init
        PROVE  AnswersAreTrue
    <3>1. \A p \in Posts : handler[p] # "200"
      BY <2>1 DEF Init
    <3>2. \A r \in Requests : ticket[r] = Null
      BY <2>1 DEF Init, QueueInit
    <3>3. \A p \in Posts : \A i \in DOMAIN Body[p] : Body[p][i] \in Requests
      BY ApiAssumption DEF ApiAssumption
    <3>4. \A p \in Posts : Unqueued(p) = DOMAIN Body[p]
      BY <3>2, <3>3 DEF Unqueued
    <3> QED BY <3>1, <3>4 DEF AnswersAreTrue
  <2> QED BY <2>1, QueueAssumption, ApiAssumption, TypeInvInit
<1>2. TypeInv /\ AnswersAreTrue /\ [Next]_vars => TypeInv' /\ AnswersAreTrue'
  BY QueueAssumption, ApiAssumption, TypeInvStep, AnswersStep
<1> QED BY <1>1, <1>2, PTL DEF Spec

-----------------------------------------------------------------------------
(* What is decided *)

\* The oldest answer that a batch may use whose validations began at t.
Oldest(t) == IF CacheTTL + Timeout <= t + 1 THEN t + 1 - (CacheTTL + Timeout) ELSE 0

\* What a call knows of its account, from answers that were true at s or later.
Backing(a, pc, s) ==
    /\ pc \in {"storage", "valid", "undeposited"} =>
           SkipAccountExistence \/ TrueSince("account", a, TRUE, s)
    /\ pc = "valid" => SkipStorageCheck \/ TrueSince("storage", a, TRUE, s)
    /\ pc = "nonexistent" => TrueSince("account", a, FALSE, s)

LEMMA OldestBounds ==
    ASSUME ApiAssumption, NEW t \in Nat, NEW u \in Nat, t <= u
    PROVE  Oldest(t) \in Nat /\ Oldest(t) <= t /\ Oldest(t) <= Oldest(u)
<1>1. CacheTTL \in Nat /\ Timeout \in Nat /\ 1 <= Timeout
  BY DEF ApiAssumption
<1> QED BY <1>1 DEF Oldest

LEMMA CachedTrue ==
    ASSUME ApiAssumption, ValidatorTypeOK, CacheTellsTruth, NEW question \in Questions, NEW a,
           Fresh(question, a), question = "account" \/ cache[question][a].value,
           NEW s \in Nat, s <= Oldest(now)
    PROVE  TrueSince(question, a, cache[question][a].value, s)
<1> DEFINE entry == cache[question][a]
<1>1. a \in DOMAIN cache[question] /\ now - entry.at < CacheTTL
  BY DEF Fresh
<1>2. entry \in Entry /\ entry.at <= now
  BY <1>1 DEF ValidatorTypeOK
<1>3. EntryTrue(question, a, entry)
  BY <1>1, CacheByEntry
<1>4. TrueSince(question, a, entry.value, Floor(entry.at))
  BY <1>3 DEF EntryTrue
<1> HIDE DEF entry
<1>5. entry.at \in Nat /\ CacheTTL \in Nat /\ Timeout \in Nat /\ now \in Nat
  BY <1>2 DEF Entry, ApiAssumption, ValidatorTypeOK
<1>6. Floor(entry.at) \in Nat /\ s <= Floor(entry.at)
  <2>1. ASSUME NEW at \in Nat, now - at < CacheTTL
        PROVE  Floor(at) \in Nat /\ s <= Floor(at)
    <3>1. CacheTTL + Timeout <= now + 1 => now + 1 - (CacheTTL + Timeout) <= at - Timeout
      BY <1>5, <2>1
    <3> QED BY <1>5, <2>1, <3>1 DEF Floor, Oldest
  <2> QED BY <1>1, <1>5, <2>1
<1>7. TrueSince(question, a, entry.value, s)
  BY <1>4, <1>6, TrueLonger
<1> QED BY <1>7 DEF entry

LEMMA AfterAccountBacked ==
    ASSUME ApiAssumption, ValidatorTypeOK, CacheTellsTruth, NEW a, NEW exists \in BOOLEAN,
           NEW s \in Nat, s <= Oldest(now),
           exists => SkipAccountExistence \/ TrueSince("account", a, TRUE, s),
           ~ exists => TrueSince("account", a, FALSE, s)
    PROVE  Backing(a, AfterAccount(a, exists).pc, s)
<1>1. CASE ~ exists
  <2>1. AfterAccount(a, exists).pc = "nonexistent"
    BY <1>1 DEF AfterAccount, Return, Call
  <2> QED BY <1>1, <2>1 DEF Backing
<1>2. CASE exists /\ SkipStorageCheck
  <2>1. AfterAccount(a, exists).pc = "valid"
    BY <1>2 DEF AfterAccount, AfterStorage, Return, Call
  <2> QED BY <1>2, <2>1 DEF Backing
<1>3. CASE exists /\ ~ SkipStorageCheck /\ Fresh("storage", a)
  <2> DEFINE hasDeposit == cache["storage"][a].value
  <2>1. hasDeposit \in BOOLEAN
    BY <1>3 DEF Fresh, ValidatorTypeOK, Entry, Questions
  <2>2. AfterAccount(a, exists) = AfterStorage(hasDeposit)
    BY <1>3 DEF AfterAccount
  <2>3. ASSUME hasDeposit
        PROVE  TrueSince("storage", a, TRUE, s)
    <3>1. hasDeposit = TRUE
      BY <2>1, <2>3
    <3>2. TrueSince("storage", a, hasDeposit, s)
      BY <1>3, <2>3, CachedTrue DEF Questions
    <3> QED BY <3>1, <3>2
  <2>4. AfterAccount(a, exists).pc = IF hasDeposit THEN "valid" ELSE "undeposited"
    BY <2>2 DEF AfterStorage, Return, Call
  <2> HIDE DEF hasDeposit
  <2> QED BY <1>3, <2>1, <2>3, <2>4 DEF Backing
<1>4. CASE exists /\ ~ SkipStorageCheck /\ ~ Fresh("storage", a)
  <2>1. AfterAccount(a, exists).pc = "storage"
    BY <1>4 DEF AfterAccount, Ask, Call
  <2> QED BY <1>4, <2>1 DEF Backing
<1> QED BY <1>1, <1>2, <1>3, <1>4

LEMMA BeginBacked ==
    ASSUME ApiAssumption, ValidatorTypeOK, CacheTellsTruth, NEW a, NEW s \in Nat, s <= Oldest(now)
    PROVE  Backing(a, Begin(a).pc, s)
<1>1. CASE SkipAccountExistence
  <2>1. Begin(a) = AfterAccount(a, TRUE)
    BY <1>1 DEF Begin
  <2> QED BY <1>1, <2>1, AfterAccountBacked
<1>2. CASE ~ SkipAccountExistence /\ Fresh("account", a)
  <2> DEFINE exists == cache["account"][a].value
  <2>1. Begin(a) = AfterAccount(a, exists)
    BY <1>2 DEF Begin
  <2>2. exists \in BOOLEAN
    BY <1>2 DEF Fresh, ValidatorTypeOK, Entry, Questions
  <2>3. TrueSince("account", a, exists, s)
    BY <1>2, CachedTrue DEF Questions
  <2>4. /\ exists => SkipAccountExistence \/ TrueSince("account", a, TRUE, s)
        /\ ~ exists => TrueSince("account", a, FALSE, s)
    <3> HIDE DEF exists
    <3>1. exists = TRUE \/ exists = FALSE
      BY <2>2
    <3> QED BY <2>3, <3>1
  <2> HIDE DEF exists
  <2> QED BY <2>1, <2>2, <2>4, AfterAccountBacked
<1>3. CASE ~ SkipAccountExistence /\ ~ Fresh("account", a)
  <2>1. Begin(a).pc = "account"
    BY <1>3 DEF Begin, Ask, Call
  <2> QED BY <2>1 DEF Backing
<1> QED BY <1>1, <1>2, <1>3 DEF ApiAssumption

LEMMA CallBacked ==
    ASSUME ApiAssumption, ValidatorTypeOK, CacheTellsTruth, NEW k \in Keys, CallStep(k),
           NEW s \in Nat, s <= Oldest(now), s <= call[k].asked,
           Backing(k[2], call[k].pc, s)
    PROVE  Backing(k[2], call'[k].pc, s)
<1>1. DOMAIN call = Keys /\ call[k].asked \in Nat
  BY DEF ValidatorTypeOK
<1>2. ASSUME NEW question \in Questions, NEW value \in BOOLEAN, Awaiting(k, question),
             value \in Replies(k)
      PROVE  TrueSince(question, k[2], value, s)
  <2>1. TrueSince(question, k[2], value, call[k].asked)
    BY <1>2 DEF Awaiting, Replies
  <2> QED BY <1>1, <2>1, TrueLonger
<1>3. ASSUME NEW value \in BOOLEAN, AccountAnswered(k, value)
      PROVE  Backing(k[2], call'[k].pc, s)
  <2>1. call'[k] = AfterAccount(k[2], value)
    BY <1>1, <1>3 DEF AccountAnswered
  <2>2. TrueSince("account", k[2], value, s)
    BY <1>2, <1>3 DEF AccountAnswered, Questions
  <2>3. /\ value => SkipAccountExistence \/ TrueSince("account", k[2], TRUE, s)
        /\ ~ value => TrueSince("account", k[2], FALSE, s)
    <3>1. value = TRUE \/ value = FALSE
      OBVIOUS
    <3> QED BY <2>2, <3>1
  <2> QED BY <2>1, <2>3, AfterAccountBacked
<1>4. ASSUME NEW value \in BOOLEAN, StorageAnswered(k, value)
      PROVE  Backing(k[2], call'[k].pc, s)
  <2>1. call'[k].pc = IF value THEN "valid" ELSE "undeposited"
    BY <1>1, <1>4 DEF StorageAnswered, AfterStorage, Return, Call
  <2>2. value => TrueSince("storage", k[2], TRUE, s)
    BY <1>2, <1>4 DEF StorageAnswered, Questions
  <2>3. SkipAccountExistence \/ TrueSince("account", k[2], TRUE, s)
    BY <1>4 DEF StorageAnswered, Awaiting, Backing
  <2> QED BY <2>1, <2>2, <2>3 DEF Backing
<1>5. CASE AccountFailed(k) \/ TimedOut(k)
  <2>1. call'[k].pc = "failed"
    BY <1>1, <1>5 DEF AccountFailed, TimedOut, Return, Call
  <2> QED BY <2>1 DEF Backing
<1> QED BY <1>3, <1>4, <1>5 DEF CallStep

\* What the handlers go by is backed by answers of the chain that were true when
\* their validations began, or not long before.
Waiting == {"validating", "pushing"}

Started == \A p \in Posts : since[p] <= now

Backed ==
    \A k \in Keys : handler[k[1]] \in Waiting =>
        Backing(k[2], call[k].pc, Oldest(since[k[1]]))

\* A handler that pushes has just been let through by its validations.
LetThrough(p) ==
    /\ now <= since[p] + 2 * Timeout
    /\ \A a \in Receivers(p) : AccountExists(Result(p, a))

Admitted == \A p \in Posts : handler[p] = "pushing" => LetThrough(p)

DecideInv == TimeInv /\ Started /\ Backed /\ Admitted

LEMMA DecideParts ==
    ASSUME DecideInv
    PROVE  /\ TypeInv /\ ValidatorTypeOK /\ Clocked /\ AnsweredInTime /\ CacheTellsTruth
           /\ handler \in [Posts -> HandlerPcs] /\ since \in [Posts -> 0..MaxTime]
           /\ DOMAIN call = Keys
           /\ \A k \in Keys : k[1] \in Posts /\ k[2] \in Accounts /\ k = <<k[1], k[2]>>
  BY DEF DecideInv, TimeInv, TypeInv, TypeOK, ValidatorTypeOK, Keys

LEMMA StartedStep ==
    ASSUME ApiAssumption, DecideInv, [Next]_vars
    PROVE  Started'
<1>1. now \in Nat /\ now' \in Nat /\ now <= now'
  <2>1. ASSUME NEW k \in Keys, CallStep(k)
        PROVE  UNCHANGED now
    BY <2>1, CallOutcome
  <2>2. now' = now \/ now' = now + 1
    BY <2>1 DEF Next, vars, validatorVars, Accept, HandlerStep, Refuse, Admit, PushNext,
               AnswerIds, PushFails, Crash, Take, ValidatorStep, ChainChanges, ValidateBatch,
               ClockStep, Tick
  <2>3. now \in Nat
    BY DecideParts DEF ApiAssumption, ValidatorTypeOK
  <2> QED BY <2>2, <2>3
<1>2. ASSUME NEW p \in Posts
      PROVE  since'[p] \in {since[p], now, 0}
  <2>1. ASSUME NEW o \in Posts, Accept(o)
        PROVE  since'[p] \in {since[p], now, 0}
    BY <2>1, DecideParts DEF Accept
  <2>2. ASSUME NEW o \in Posts, NEW answer, Answer(o, answer)
        PROVE  since'[p] \in {since[p], now, 0}
    BY <2>2, DecideParts DEF Answer
  <2>3. CASE UNCHANGED since \/ Crash
    BY <2>3 DEF Crash
  <2> QED BY <2>1, <2>2, <2>3 DEF Next, vars, apiVars, HandlerStep, Refuse, Admit, PushNext,
             AnswerIds, PushFails, Take, ValidatorStep, ClockStep
<1>3. \A p \in Posts : since[p] <= now /\ since[p] \in Nat
  BY DecideParts DEF DecideInv, Started, ApiAssumption
<1>4. ASSUME NEW p \in Posts
      PROVE  since'[p] <= now'
  BY <1>1, <1>2, <1>3
<1> QED BY <1>4 DEF Started

LEMMA AdmittedStep ==
    ASSUME ApiAssumption, DecideInv, [Next]_vars
    PROVE  Admitted'
<1>1. SUFFICES ASSUME NEW p \in Posts, handler'[p] = "pushing"
               PROVE  LetThrough(p)'
  BY DEF Admitted
<1>2. ASSUME NEW o \in Posts, Admit(o), handler[p] # "pushing"
      PROVE  LetThrough(p)'
  <2>1. p = o
    BY <1>1, <1>2, DecideParts DEF Admit
  <2>2. /\ handler[p] = "validating"
        /\ \A a \in Receivers(p) : AccountExists(Result(p, a))
        /\ UNCHANGED <<now, since, call>>
    BY <1>2, <2>1 DEF Admit, Validated, validatorVars
  <2>3. now <= since[p] + 2 * Timeout
    BY <2>2, DecideParts DEF AnsweredInTime
  <2> QED BY <2>2, <2>3 DEF LetThrough, Result, AccountExists
<1>3. CASE handler[p] = "pushing"
  <2>1. ~ AtRest /\ LetThrough(p)
    BY <1>3 DEF AtRest, DecideInv, Admitted
  <2>2. ASSUME NEW o \in Posts, NEW answer \in Answers, Answer(o, answer), UNCHANGED now
        PROVE  LetThrough(p)'
    <3>1. o # p
      BY <1>1, <2>2, DecideParts DEF Answer, Answers
    <3>2. since'[p] = since[p]
      BY <2>2, <3>1, DecideParts DEF Answer
    <3>3. \A a \in Receivers(p) : <<p, a>> \in Keys => call'[<<p, a>>] = call[<<p, a>>]
      BY <2>2, <3>1 DEF Answer
    <3>4. \A a \in Receivers(p) : <<p, a>> \in Keys
      BY QueueAssumption, ReceiversAreAccounts DEF Keys
    <3> QED BY <2>1, <2>2, <3>2, <3>3, <3>4 DEF LetThrough, Result, AccountExists
  <2>3. ASSUME UNCHANGED <<now, since, call>>
        PROVE  LetThrough(p)'
    BY <2>1, <2>3 DEF LetThrough, Result, AccountExists
  <2>4. ASSUME NEW o \in Posts, HandlerStep(o) \/ PushFails(o)
        PROVE  LetThrough(p)'
    <3>1. CASE Admit(o) \/ PushNext(o)
      BY <2>3, <3>1 DEF Admit, PushNext, validatorVars, apiVars
    <3>2. CASE Refuse(o) \/ AnswerIds(o) \/ PushFails(o)
      BY <2>2, <3>2 DEF Refuse, AnswerIds, PushFails, Answers
    <3> QED BY <2>4, <3>1, <3>2 DEF HandlerStep
  <2>5. ~ Crash
    BY <1>1 DEF Crash
  <2>6. CASE UNCHANGED vars
    BY <2>3, <2>6 DEF vars, validatorVars, apiVars
  <2> QED BY <2>1, <2>4, <2>5, <2>6 DEF Next, Accept, Take, ValidatorStep, ClockStep
<1>4. CASE handler[p] # "pushing" /\ \A o \in Posts : ~ Admit(o)
  <2>1. ASSUME NEW o \in Posts, NEW answer \in Answers, Answer(o, answer)
        PROVE  FALSE
    BY <1>1, <1>4, <2>1, DecideParts DEF Answer, Answers
  <2>2. ASSUME NEW o \in Posts, Accept(o)
        PROVE  FALSE
    BY <1>1, <1>4, <2>2, DecideParts DEF Accept
  <2>3. ASSUME NEW o \in Posts, Refuse(o) \/ AnswerIds(o) \/ PushFails(o)
        PROVE  FALSE
    BY <2>1, <2>3 DEF Refuse, AnswerIds, PushFails, Answers
  <2>4. handler' # handler
    BY <1>1, <1>4
  <2>5. ~ Crash
    BY <1>1 DEF Crash
  <2> QED BY <1>4, <2>2, <2>3, <2>4, <2>5 DEF Next, HandlerStep, PushNext, Take, ValidatorStep,
                                           ClockStep, vars, apiVars
<1> QED BY <1>2, <1>3, <1>4

\* Where the knowledge of a call of a waiting handler comes from.
LEMMA CallMoves ==
    ASSUME ApiAssumption, DecideInv, [Next]_vars, NEW k \in Keys, handler'[k[1]] \in Waiting
    PROVE  \/ /\ handler[k[1]] \in Waiting
              /\ since'[k[1]] = since[k[1]]
              /\ call'[k].pc = call[k].pc \/ CallStep(k)
           \/ /\ since'[k[1]] = now
              /\ call'[k] = Begin(k[2]) \/ call'[k].pc = "idle"
<1> DEFINE Goal == \/ /\ handler[k[1]] \in Waiting
                      /\ since'[k[1]] = since[k[1]]
                      /\ call'[k].pc = call[k].pc \/ CallStep(k)
                   \/ /\ since'[k[1]] = now
                      /\ call'[k] = Begin(k[2]) \/ call'[k].pc = "idle"
<1>1. ASSUME NEW o \in Posts, NEW answer \in Answers, Answer(o, answer)
      PROVE  Goal
  <2>1. k[1] # o
    BY <1>1, DecideParts DEF Answer, Answers, Waiting
  <2> QED BY <1>1, <2>1, DecideParts DEF Answer
<1>2. ASSUME NEW o \in Posts, Accept(o)
      PROVE  Goal
  <2>1. CASE k[1] = o /\ k[2] \in Receivers(o)
    BY <1>2, <2>1, DecideParts DEF Accept, ValidateBatch
  <2>2. CASE k[1] = o /\ k[2] \notin Receivers(o)
    <3>1. since'[o] = now /\ call'[k] = call[k]
      BY <1>2, <2>2, DecideParts DEF Accept, ValidateBatch
    <3>2. call[k].pc = "idle"
      BY <2>2, DecideParts DEF Clocked, ClockedCall
    <3> QED BY <2>2, <3>1, <3>2
  <2>3. CASE k[1] # o
    BY <1>2, <2>3, DecideParts DEF Accept, ValidateBatch
  <2> QED BY <2>1, <2>2, <2>3
<1>3. ASSUME NEW o \in Posts, Admit(o)
      PROVE  Goal
  BY <1>3, DecideParts DEF Admit, validatorVars, Validated, Waiting
<1>4. ASSUME NEW o \in Posts, Refuse(o) \/ AnswerIds(o) \/ PushFails(o)
      PROVE  Goal
  <2>1. \E answer \in Answers : Answer(o, answer)
    BY <1>4 DEF Refuse, AnswerIds, PushFails, Answers
  <2> QED BY <1>1, <2>1
<1>5. ASSUME UNCHANGED <<handler, since, call>>
      PROVE  Goal
  BY <1>5
<1>6. CASE Crash
  BY <1>6, DecideParts DEF Crash, Waiting
<1>7. ASSUME NEW j \in Keys, CallStep(j), UNCHANGED <<handler, since>>
      PROVE  Goal
  <2>1. j # k => call'[k] = call[k]
    BY <1>7, CallOutcome, DecideParts DEF Moved
  <2> QED BY <1>7, <2>1
<1>8. CASE ValidatorStep
  BY <1>5, <1>7, <1>8 DEF ValidatorStep, ChainChanges, apiVars
<1>9. CASE Take \/ ClockStep \/ UNCHANGED vars
  BY <1>5, <1>9 DEF Take, ClockStep, Tick, vars, validatorVars, apiVars
<1>10. ASSUME NEW o \in Posts, PushNext(o)
       PROVE  Goal
  BY <1>5, <1>10 DEF PushNext, validatorVars, apiVars
<1> QED
  BY <1>2, <1>3, <1>4, <1>6, <1>8, <1>9, <1>10 DEF Next, HandlerStep

LEMMA BackingStays ==
    ASSUME ValidatorTypeOK, ChainMoves, NEW a \in Accounts, NEW pc, NEW s \in 0..now,
           Backing(a, pc, s)
    PROVE  Backing(a, pc, s)'
<1>1. ASSUME NEW question \in Questions, NEW value \in BOOLEAN,
             TrueSince(question, a, value, s)
      PROVE  TrueSince(question, a, value, s)'
  BY <1>1, StaysTrue
<1>2. "account" \in Questions /\ "storage" \in Questions
  BY DEF Questions
<1>3. TrueSince("account", a, TRUE, s) => TrueSince("account", a, TRUE, s)'
  BY <1>1, <1>2
<1>4. TrueSince("account", a, FALSE, s) => TrueSince("account", a, FALSE, s)'
  BY <1>1, <1>2
<1>5. TrueSince("storage", a, TRUE, s) => TrueSince("storage", a, TRUE, s)'
  BY <1>1, <1>2
<1> QED BY <1>3, <1>4, <1>5 DEF Backing

LEMMA BackedStep ==
    ASSUME ApiAssumption, DecideInv, [Next]_vars
    PROVE  Backed'
<1>1. ChainMoves
  BY StepMovesChain
<1>2. SUFFICES ASSUME NEW k \in Keys, handler'[k[1]] \in Waiting,
                      NEW s, s = Oldest(since'[k[1]]), NEW pc, pc = call'[k].pc
               PROVE  Backing(k[2], pc, s)'
  BY DEF Backed, Oldest, Backing, TrueSince
<1>3. k[1] \in Posts /\ k[2] \in Accounts /\ ValidatorTypeOK /\ CacheTellsTruth
  BY DecideParts
<1>4. since[k[1]] \in Nat /\ now \in Nat /\ since[k[1]] <= now
  BY <1>3, DecideParts DEF DecideInv, Started, ApiAssumption, ValidatorTypeOK
<1>5. s \in 0..now /\ s <= Oldest(now) /\ Backing(k[2], pc, s)
  <2>1. CASE /\ handler[k[1]] \in Waiting
             /\ since'[k[1]] = since[k[1]]
             /\ call'[k].pc = call[k].pc \/ CallStep(k)
    <3>1. s \in Nat /\ s <= since[k[1]] /\ s <= Oldest(now)
      BY <1>2, <1>4, <2>1, OldestBounds
    <3>2. Backing(k[2], call[k].pc, s)
      BY <1>2, <2>1 DEF DecideInv, Backed
    <3>3. ASSUME CallStep(k)
          PROVE  Backing(k[2], call'[k].pc, s)
      <4>1. call[k].pc \in Questions /\ call[k].asked \in Nat
        BY <1>3, <3>3, CallOutcome DEF ValidatorTypeOK
      <4>2. since[k[1]] <= call[k].asked
        BY <4>1, DecideParts DEF Clocked, ClockedCall
      <4>3. s <= call[k].asked
        BY <1>4, <3>1, <4>1, <4>2
      <4> QED BY <1>3, <3>1, <3>2, <3>3, <4>3, CallBacked
    <3>4. Backing(k[2], pc, s)
      BY <1>2, <2>1, <3>2, <3>3
    <3>5. s \in 0..now
      BY <1>4, <3>1
    <3> QED BY <3>1, <3>4, <3>5
  <2>2. CASE /\ since'[k[1]] = now
             /\ call'[k] = Begin(k[2]) \/ call'[k].pc = "idle"
    <3>1. s = Oldest(now) /\ s \in Nat /\ s <= now
      BY <1>2, <1>4, <2>2, OldestBounds
    <3>2. Backing(k[2], Begin(k[2]).pc, s)
      BY <1>3, <3>1, BeginBacked
    <3>3. Backing(k[2], "idle", s)
      BY DEF Backing
    <3>4. Backing(k[2], pc, s)
      BY <1>2, <2>2, <3>2, <3>3
    <3> QED BY <1>4, <3>1, <3>4
  <2> QED BY <1>2, <2>1, <2>2, CallMoves
<1> QED BY <1>1, <1>3, <1>5, BackingStays

LEMMA DecideInvInit ==
    ASSUME QueueAssumption, ApiAssumption, Init
    PROVE  DecideInv
<1>1. TimeInv
  BY TimeInvInit
<1>2. now = 0 /\ \A p \in Posts : since[p] = 0 /\ handler[p] = "new"
  BY DEF Init, ValidatorInit
<1>3. \A k \in Keys : k[1] \in Posts
  BY DEF Keys
<1> QED BY <1>1, <1>2, <1>3 DEF DecideInv, Started, Backed, Admitted, Waiting

LEMMA DecideInvStep ==
    ASSUME QueueAssumption, ApiAssumption, DecideInv, [Next]_vars
    PROVE  DecideInv'
<1>1. TimeInv'
  BY TimeInvStep DEF DecideInv
<1> QED BY <1>1, StartedStep, BackedStep, AdmittedStep DEF DecideInv

\* What a batch may use is recently true until its last push.
LEMMA OldestIsRecent ==
    ASSUME ApiAssumption, DecideInv, NEW p \in Posts, now <= since[p] + 2 * Timeout,
           NEW question \in Questions, NEW a, NEW value,
           TrueSince(question, a, value, Oldest(since[p]))
    PROVE  RecentlyTrue(question, a, value)
<1>1. now \in Nat /\ since[p] \in Nat /\ CacheTTL \in Nat /\ Timeout \in Nat /\ 1 <= Timeout
  BY DecideParts DEF ApiAssumption, ValidatorTypeOK
<1>2. MaxAge \in Nat /\ MaxAge = CacheTTL + 3 * Timeout - 1
  BY <1>1 DEF MaxAge
<1>3. Earlier(MaxAge) \in Nat /\ Earlier(MaxAge) <= Oldest(since[p])
  BY <1>1, <1>2 DEF Earlier, Oldest
<1>4. Oldest(since[p]) \in Nat
  BY <1>1, OldestBounds
<1>5. ValidatorTypeOK
  BY DecideParts
<1> QED BY <1>3, <1>4, <1>5, TrueLonger DEF RecentlyTrue

\* The row that a push takes says what the push was told, merged or not.
LEMMA PushTellsRow ==
    ASSUME TypeInv, NEW r \in Requests, NEW deposit \in BOOLEAN, Push(r, deposit)
    PROVE  queue'[ticket'[r]].has_storage_deposit = deposit
<1>1. /\ lastItemId \in Nat /\ ticket \in [Requests -> 0..lastItemId]
      /\ queue \in [1..lastItemId -> Row]
  BY DEF TypeInv, TypeOK, QueueTypeOK
<1>2. ASSUME NEW i \in Mergeable(Receiver[r]), Merge(r, i, deposit)
      PROVE  queue'[ticket'[r]].has_storage_deposit = deposit
  <2>1. i \in DOMAIN queue /\ ticket'[r] = i
    BY <1>1, <1>2 DEF Mergeable, Pending, Merge
  <2>2. queue[i] \in Row
    BY <1>1, <2>1
  <2> DEFINE sum == queue[i].amount \cup {r}
  <2>3. queue'[i] = [queue[i] EXCEPT !.amount = sum, !.has_storage_deposit = deposit]
    BY <1>2, <2>1, Zenon DEF Merge, MergedRows, Update, sum
  <2> HIDE DEF sum
  <2> QED BY <2>1, <2>2, <2>3 DEF Row
<1>3. ASSUME Insert(r, deposit)
      PROVE  queue'[ticket'[r]].has_storage_deposit = deposit
  <2>1. ticket'[r] = lastItemId + 1
    BY <1>1, <1>3 DEF Insert
  <2>2. queue'[lastItemId + 1] = NewRow(r, deposit)
    BY <1>1, <1>3 DEF Insert
  <2> QED BY <2>1, <2>2 DEF NewRow
<1> QED BY <1>2, <1>3 DEF Push

LEMMA QueuedAsCheckedStep ==
    ASSUME QueueAssumption, ApiAssumption, DecideInv, [Next]_vars,
           NEW r \in Requests, ticket[r] = Null, ticket'[r] # Null
    PROVE  /\ SkipAccountExistence \/ RecentlyTrue("account", Receiver[r], TRUE)
           /\ queue'[ticket'[r]].has_storage_deposit =>
                  SkipStorageCheck \/ RecentlyTrue("storage", Receiver[r], TRUE)
<1>1. PICK o \in Posts : PushNext(o)
  BY OthersQueueNothing
<1>2. PICK i \in Unqueued(o) :
          Push(Body[o][i], Result(o, Receiver[Body[o][i]]) = "valid")
  BY <1>1 DEF PushNext
<1>3. i \in DOMAIN Body[o] /\ Body[o][i] \in Requests
  BY <1>2 DEF Unqueued, ApiAssumption
<1>4. Body[o][i] = r
  <2>1. TypeInv
    BY DecideParts
  <2> QED BY <1>2, <1>3, <2>1, PushTakesTicket
<1> DEFINE a == Receiver[r]
           pc == Result(o, a)
<1>5. a \in Receivers(o)
  BY <1>3, <1>4 DEF Receivers, Transfers
<1>6. handler[o] = "pushing" /\ LetThrough(o)
  BY <1>1 DEF PushNext, DecideInv, Admitted
<1>7. <<o, a>> \in Keys
  BY <1>5, ReceiversAreAccounts DEF Keys
<1>8. Backing(a, pc, Oldest(since[o]))
  BY <1>6, <1>7 DEF DecideInv, Backed, Waiting, Result
<1>9. pc \in {"valid", "undeposited"}
  BY <1>5, <1>6 DEF LetThrough, AccountExists
<1>10. queue'[ticket'[r]].has_storage_deposit <=> pc = "valid"
  <2> DEFINE deposit == pc = "valid"
  <2>1. Push(r, deposit) /\ deposit \in BOOLEAN /\ TypeInv
    BY <1>2, <1>4, DecideParts
  <2> HIDE DEF deposit
  <2>2. queue'[ticket'[r]].has_storage_deposit = deposit
    BY <2>1, PushTellsRow
  <2> QED BY <2>2 DEF deposit
<1> HIDE DEF a, pc
<1>11. /\ SkipAccountExistence \/ TrueSince("account", a, TRUE, Oldest(since[o]))
       /\ pc = "valid" => SkipStorageCheck \/ TrueSince("storage", a, TRUE, Oldest(since[o]))
  BY <1>8, <1>9 DEF Backing
<1>12. ASSUME NEW question \in Questions, TrueSince(question, a, TRUE, Oldest(since[o]))
       PROVE  RecentlyTrue(question, a, TRUE)
  BY <1>6, <1>12, OldestIsRecent DEF LetThrough
<1>13. /\ SkipAccountExistence \/ RecentlyTrue("account", a, TRUE)
       /\ pc = "valid" => SkipStorageCheck \/ RecentlyTrue("storage", a, TRUE)
  BY <1>11, <1>12 DEF Questions
<1> QED BY <1>10, <1>13 DEF a

LEMMA RefusedForAReasonStep ==
    ASSUME QueueAssumption, ApiAssumption, DecideInv, [Next]_vars,
           NEW p \in Posts, handler[p] = "validating", handler'[p] = "400"
    PROVE  \E a \in Receivers(p) :
               Result(p, a) = "failed" \/ RecentlyTrue("account", a, FALSE)
<1>1. Refuse(p)
  <2>1. \A o \in Posts : ~ Accept(o) /\ ~ Admit(o)
    BY DecideParts DEF Accept, Admit
  <2>2. \A o \in Posts : ~ AnswerIds(o) /\ ~ PushFails(o)
    BY DecideParts DEF AnswerIds, PushFails, Answer
  <2>3. \A o \in Posts : Refuse(o) => o = p
    BY DecideParts DEF Refuse, Answer
  <2>4. ~ Crash /\ handler' # handler
    BY DecideParts DEF Crash
  <2> QED BY <2>1, <2>2, <2>3, <2>4 DEF Next, HandlerStep, PushNext, Take, ValidatorStep,
                                       ClockStep, vars, apiVars
<1>2. PICK a \in Receivers(p) : ~ AccountExists(Result(p, a))
  BY <1>1 DEF Refuse
<1>3. <<p, a>> \in Keys
  BY ReceiversAreAccounts DEF Keys
<1>4. Result(p, a) \in {"nonexistent", "failed"}
  <2>1. Result(p, a) \in Results
    BY <1>1 DEF Refuse, Validated, AllSettled, Result
  <2> QED BY <1>2, <2>1 DEF Results, AccountExists
<1>5. Backing(a, Result(p, a), Oldest(since[p]))
  BY <1>3 DEF DecideInv, Backed, Waiting, Result
<1>6. CASE Result(p, a) = "nonexistent"
  <2>1. TrueSince("account", a, FALSE, Oldest(since[p]))
    BY <1>5, <1>6 DEF Backing
  <2>2. now <= since[p] + 2 * Timeout
    BY DecideParts DEF AnsweredInTime
  <2> QED BY <2>1, <2>2, OldestIsRecent DEF Questions
<1> QED BY <1>4, <1>6

\* Nothing is queued, and no row says that a deposit is there, on answers of the
\* chain older than the oldest a batch may use.
THEOREM ChecksHold == Spec => QueuedAsChecked
<1>1. Init => DecideInv
  BY QueueAssumption, ApiAssumption, DecideInvInit
<1>2. DecideInv /\ [Next]_vars => DecideInv'
  BY QueueAssumption, ApiAssumption, DecideInvStep
<1>3. DecideInv /\ [Next]_vars =>
          [\A r \in Requests :
              ticket[r] = Null /\ ticket'[r] # Null =>
                  /\ SkipAccountExistence \/ RecentlyTrue("account", Receiver[r], TRUE)
                  /\ queue'[ticket'[r]].has_storage_deposit =>
                         SkipStorageCheck \/ RecentlyTrue("storage", Receiver[r], TRUE)]_vars
  BY QueueAssumption, ApiAssumption, QueuedAsCheckedStep
<1> QED BY <1>1, <1>2, <1>3, PTL DEF Spec, QueuedAsChecked

\* No POST is refused but for a receiver that did not exist when it was last asked
\* about, or that could not be checked.
THEOREM RefusalsHold == Spec => RefusedForAReason
<1>1. Init => DecideInv
  BY QueueAssumption, ApiAssumption, DecideInvInit
<1>2. DecideInv /\ [Next]_vars => DecideInv'
  BY QueueAssumption, ApiAssumption, DecideInvStep
<1>3. DecideInv /\ [Next]_vars =>
          [\A p \in Posts :
              handler[p] = "validating" /\ handler'[p] = "400" =>
                  \E a \in Receivers(p) :
                      Result(p, a) = "failed" \/ RecentlyTrue("account", a, FALSE)]_vars
  BY QueueAssumption, ApiAssumption, RefusedForAReasonStep
<1> QED BY <1>1, <1>2, <1>3, PTL DEF Spec, RefusedForAReason
=============================================================================
