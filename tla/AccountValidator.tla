-------------------------- MODULE AccountValidator --------------------------
(***************************************************************************)
(* The account validator of src/src/validation.ts: two caches with a time  *)
(* to live in front of a NEAR node that is asked two questions,            *)
(*     "account"   does the account exist?          (view_account)         *)
(*     "storage"   has it paid a storage deposit?   (storage_balance_of)   *)
(* and answers late, wrongly timed or not at all.                          *)
(*                                                                         *)
(* A call is one validate(accountId) of one caller.  The code between two  *)
(* awaits is one step; what a cache answers needs no await that others     *)
(* could use, so Begin and AfterAccount run up to the next query.  Then    *)
(* the answer arrives, or the timer of Promise.race is first.  The node    *)
(* looked the answer up at some time in between: it is one that was true   *)
(* at some time since the query was asked.                                 *)
(*                                                                         *)
(* The module has no Init and Next of its own: the HTTP handlers call it.  *)
(***************************************************************************)
EXTENDS Naturals, FiniteSets

CONSTANTS
    Accounts,               \* receiver accounts
    Callers,                \* whoever awaits validate(), at most once each
    CacheTTL,               \* ValidatorOptions.cacheTTL
    Timeout,                \* ValidatorOptions.timeout
    SkipStorageCheck,       \* ValidatorOptions.skipStorageCheck
    SkipAccountExistence,   \* ValidatorOptions.skipAccountExistence
    MaxTime,                \* bound: the last value of the clock
    Volatile,               \* bound: the other accounts exist and have deposits
    MaxChanges              \* bound: changes of the chain

VARIABLES
    now,        \* Date.now()
    fact,       \* the chain: for each question and account, the true answer
    changed,    \* history: when the true answer last changed, if it ever did
    cache,      \* accountCache ("account") and storageCache ("storage")
    call        \* the validate() calls: awaiting a query, or what they returned

Questions == {"account", "storage"}

\* ValidationResult: isValid; hasStorageDeposit = false; accountExists = false;
\* and neither field, after an error.
Results == {"valid", "undeposited", "nonexistent", "failed"}

\* Mutant: the handlers go by isValid.
IsValid(result) == result = "valid"

\* The handlers go by accountExists, not by isValid.
AccountExists(result) == result \in {"valid", "undeposited"}

Keys == Callers \X Accounts

Call(pc, asked) == [pc |-> pc, asked |-> asked]
NoCall == Call("idle", 0)
Ask(question) == Call(question, now)
Return(result) == Call(result, 0)

EmptyCaches == [question \in Questions |-> [a \in {} |-> [value |-> TRUE, at |-> 0]]]

-----------------------------------------------------------------------------
(* The caches *)

\* Mutant: the age of an entry is not looked at.
InCache(question, a) == a \in DOMAIN cache[question]

Fresh(question, a) ==
    /\ a \in DOMAIN cache[question]
    /\ now - cache[question][a].at < CacheTTL

Remember(question, a, value) ==
    cache' = [cache EXCEPT ![question] =
                 [b \in DOMAIN @ \cup {a} |->
                     IF b = a THEN [value |-> value, at |-> now] ELSE @[b]]]

ClearCache == cache' = EmptyCaches

-----------------------------------------------------------------------------
(* validate: what a call is after the answer to its first question, and at *)
(* its beginning                                                           *)

AfterStorage(hasDeposit) == Return(IF hasDeposit THEN "valid" ELSE "undeposited")

AfterAccount(a, exists) ==
    CASE ~ exists -> Return("nonexistent")
      [] exists /\ SkipStorageCheck -> AfterStorage(TRUE)
      [] exists /\ ~ SkipStorageCheck /\ Fresh("storage", a) ->
             AfterStorage(cache["storage"][a].value)
      [] OTHER -> Ask("storage")

Begin(a) ==
    CASE SkipAccountExistence -> AfterAccount(a, TRUE)
      [] ~ SkipAccountExistence /\ Fresh("account", a) ->
             AfterAccount(a, cache["account"][a].value)
      [] OTHER -> Ask("account")

\* validateBatch: one call per account, all of them in parallel.
ValidateBatch(c, S) ==
    /\ call' = [k \in Keys |-> IF k[1] = c /\ k[2] \in S THEN Begin(k[2]) ELSE call[k]]
    /\ UNCHANGED <<now, fact, changed, cache>>

Awaiting(k, question) == call[k].pc = question

\* Promise.allSettled over the calls of validateBatch.
AllSettled(c, S) == \A a \in S : call[<<c, a>>].pc \in Results

-----------------------------------------------------------------------------
(* Answers and timers *)

\* The answer was the true one at some time from `since` on.
TrueSince(question, a, value, since) ==
    \/ fact[question][a] = value
    \/ a \in DOMAIN changed[question] /\ since <= changed[question][a]

\* The answers of the node that may arrive now (external).
Replies(k) == {value \in BOOLEAN : TrueSince(call[k].pc, k[2], value, call[k].asked)}

\* view_account answers, or fails with AccountDoesNotExist.
AccountAnswered(k, exists) ==
    /\ Awaiting(k, "account")
    /\ exists \in Replies(k)
    /\ Remember("account", k[2], exists)
    /\ call' = [call EXCEPT ![k] = AfterAccount(k[2], exists)]
    /\ UNCHANGED <<now, fact, changed>>

\* Mutant: any error of view_account is taken for "does not exist".
AccountFailedAsMissing(k) ==
    /\ Awaiting(k, "account")
    /\ Remember("account", k[2], FALSE)
    /\ call' = [call EXCEPT ![k] = Return("nonexistent")]
    /\ UNCHANGED <<now, fact, changed>>

\* Any other error of view_account is thrown, and cached nowhere.
AccountFailed(k) ==
    /\ Awaiting(k, "account")
    /\ call' = [call EXCEPT ![k] = Return("failed")]
    /\ UNCHANGED <<now, fact, changed, cache>>

\* storage_balance_of answers; an error of it counts, and is cached, as "no
\* deposit".
StorageAnswered(k, hasDeposit) ==
    /\ Awaiting(k, "storage")
    /\ hasDeposit \in Replies(k) \cup {FALSE}
    /\ Remember("storage", k[2], hasDeposit)
    /\ call' = [call EXCEPT ![k] = AfterStorage(hasDeposit)]
    /\ UNCHANGED <<now, fact, changed>>

\* Mutant: only view_account is raced with a timer.
AccountOverdue(k) == Awaiting(k, "account") /\ now >= call[k].asked + Timeout

\* The timer of Promise.race is due.
Overdue(k) == call[k].pc \in Questions /\ now >= call[k].asked + Timeout

\* The timer wins the race.  Both methods throw; an answer that comes later
\* finds nobody waiting.
TimedOut(k) ==
    /\ Overdue(k)
    /\ call' = [call EXCEPT ![k] = Return("failed")]
    /\ UNCHANGED <<now, fact, changed, cache>>

-----------------------------------------------------------------------------
(* The chain and the clock (external) *)

\* An account is created or deleted, registered or unregistered; no answer
\* changes twice.
ChainChanges(question, a) ==
    /\ a \in Volatile \ DOMAIN changed[question]
    /\ Cardinality(DOMAIN changed["account"]) + Cardinality(DOMAIN changed["storage"])
           < MaxChanges
    /\ fact' = [fact EXCEPT ![question][a] = ~ @]
    /\ changed' = [changed EXCEPT ![question] =
                      [b \in DOMAIN @ \cup {a} |-> IF b = a THEN now ELSE @[b]]]
    /\ UNCHANGED <<now, cache, call>>

\* Timers fire within one unit of the clock: it waits for the overdue ones.
Tick ==
    /\ now < MaxTime
    /\ \A k \in Keys : ~ Overdue(k)
    /\ now' = now + 1
    /\ UNCHANGED <<fact, changed, cache, call>>

ValidatorInit ==
    /\ now = 0
    /\ fact \in [Questions -> [Accounts -> BOOLEAN]]
    /\ \A question \in Questions, a \in Accounts \ Volatile : fact[question][a]
    /\ changed = [question \in Questions |-> [a \in {} |-> 0]]
    /\ cache = EmptyCaches
    /\ call = [k \in Keys |-> NoCall]

-----------------------------------------------------------------------------
(* Properties *)

Entry == [value : BOOLEAN, at : 0..MaxTime]

\* The caches are maps from accounts to stamped answers, and the clock bounds
\* every time in sight.
ValidatorTypeOK ==
    /\ now \in 0..MaxTime
    /\ fact \in [Questions -> [Accounts -> BOOLEAN]]
    /\ DOMAIN changed = Questions /\ DOMAIN cache = Questions
    /\ \A question \in Questions :
          /\ DOMAIN changed[question] \subseteq Accounts
          /\ \A a \in DOMAIN changed[question] : changed[question][a] \in 0..now
          /\ DOMAIN cache[question] \subseteq Accounts
          /\ \A a \in DOMAIN cache[question] : cache[question][a] \in Entry
          /\ \A a \in DOMAIN cache[question] : cache[question][a].at <= now
    /\ DOMAIN call = Keys
    /\ \A k \in Keys :
          /\ call[k].pc \in {"idle"} \cup Questions \cup Results
          /\ call[k].asked \in 0..now

\* The oldest answer a batch may be decided by: cached just before it expires,
\* an answer that was a timeout old when it was cached, used by a call whose
\* batch then waits for the two queries of another account.
MaxAge == CacheTTL + 3 * Timeout - 1

Earlier(age) == IF age <= now THEN now - age ELSE 0

RecentlyTrue(question, a, value) ==
    TrueSince(question, a, value, Earlier(MaxAge))

\* What a cache holds is what the chain said less than a timeout before the
\* entry was stamped: no failed, late or timed out query gets into it.  The one
\* exception is a "no deposit", which any error of storage_balance_of leaves.
CacheTellsTruth ==
    \A question \in Questions : \A a \in DOMAIN cache[question] :
        LET entry == cache[question][a]
        IN  \/ question = "storage" /\ ~ entry.value
            \/ TrueSince(question, a, entry.value,
                         IF Timeout <= entry.at THEN entry.at - Timeout ELSE 0)
=============================================================================
