----------------------------- MODULE ApiService -----------------------------
(***************************************************************************)
(* The POST handlers of src/src/index.ts between the account validator and *)
(* the queue: POST /transfer, and POST /transfers, of which the former is  *)
(* the case of one transfer.  Several handlers are in flight at once and   *)
(* share the caches; rows move into batches and out of them meanwhile; the *)
(* chain changes its mind about accounts; the service may crash.           *)
(*                                                                         *)
(* From the moment its last validation settles, a handler runs to its      *)
(* answer without an await: every other step waits (AtRest).  Its loop of  *)
(* pushes is taken step by step, because a push that throws, or a crash,   *)
(* may come between two of them.                                           *)
(***************************************************************************)
EXTENDS TransferQueue, Sequences

CONSTANTS
    Posts,                  \* the POST requests
    Body,                   \* the transfers each of them asks for, in order
    CacheTTL, Timeout, SkipStorageCheck, SkipAccountExistence,
    MaxTime, Volatile, MaxChanges,
    MaxDisturbances         \* bound: pushes that throw, crashes, and batches
                            \* that the executor takes

VARIABLES
    now, fact, changed, cache, call,  \* of the validator
    handler,                          \* where the handler of each POST is
    since,                            \* history: when it began to wait
    disturbances

INSTANCE AccountValidator WITH Callers <- Posts

ASSUME ApiAssumption ==
    /\ Body \in [Posts -> Seq(Requests)]
    /\ \A p, o \in Posts : \A i \in DOMAIN Body[p], j \in DOMAIN Body[o] :
          Body[p][i] = Body[o][j] => p = o /\ i = j
    /\ CacheTTL \in Nat
    /\ Timeout \in Nat \ {0}
    /\ SkipStorageCheck \in BOOLEAN
    /\ SkipAccountExistence \in BOOLEAN
    /\ MaxTime \in Nat
    /\ Volatile \subseteq Accounts
    /\ MaxChanges \in Nat
    /\ MaxDisturbances \in Nat

validatorVars == <<now, fact, changed, cache, call>>
apiVars == <<handler, since, disturbances>>
vars == <<queueVars, validatorVars, apiVars>>

Answers == {"200", "400", "500", "lost"}   \* "lost": the connection is closed
HandlerPcs == {"new", "validating", "pushing"} \cup Answers

Transfers(p) == {Body[p][i] : i \in DOMAIN Body[p]}
Receivers(p) == {Receiver[r] : r \in Transfers(p)}

Result(p, a) == call[<<p, a>>].pc

Validated(p) == handler[p] = "validating" /\ AllSettled(p, Receivers(p))

\* No handler is running; bound: there is one that has not answered yet.
AtRest ==
    /\ \A p \in Posts : handler[p] # "pushing" /\ ~ Validated(p)
    /\ \E p \in Posts : handler[p] \notin Answers

Disturb == disturbances < MaxDisturbances /\ disturbances' = disturbances + 1

-----------------------------------------------------------------------------
(* A handler *)

\* The answers to its validate() calls go with the stack of a handler.
Answer(p, answer) ==
    /\ handler' = [handler EXCEPT ![p] = answer]
    /\ since' = [since EXCEPT ![p] = 0]
    /\ call' = [k \in Keys |-> IF k[1] = p THEN NoCall ELSE call[k]]

\* A request arrives; the clock must reach the deadlines of its two queries.
Accept(p) ==
    /\ AtRest /\ handler[p] = "new"
    /\ now + 2 * Timeout <= MaxTime
    /\ handler' = [handler EXCEPT ![p] = "validating"]
    /\ since' = [since EXCEPT ![p] = now]
    /\ ValidateBatch(p, Receivers(p))
    /\ UNCHANGED <<queueVars, disturbances>>

\* Some account does not exist, or could not be checked: nothing is queued.
Refuse(p) ==
    /\ Validated(p)
    /\ \E a \in Receivers(p) : ~ AccountExists(Result(p, a))
    /\ Answer(p, "400")
    /\ UNCHANGED <<queueVars, now, fact, changed, cache, disturbances>>

Admit(p) ==
    /\ Validated(p)
    /\ \A a \in Receivers(p) : AccountExists(Result(p, a))
    /\ handler' = [handler EXCEPT ![p] = "pushing"]
    /\ UNCHANGED <<queueVars, validatorVars, since, disturbances>>

Unqueued(p) == {i \in DOMAIN Body[p] : ticket[Body[p][i]] = Null}

\* One turn of the loop: queue.push of the next transfer.
PushNext(p) ==
    /\ handler[p] = "pushing"
    /\ \E i \in Unqueued(p) :
          /\ \A j \in Unqueued(p) : i <= j
          /\ Push(Body[p][i], Result(p, Receiver[Body[p][i]]) = "valid")
    /\ UNCHANGED <<validatorVars, apiVars>>

\* Mutant: the answer does not wait for the last push.
AnswerEarly(p) ==
    /\ handler[p] = "pushing"
    /\ Unqueued(p) # DOMAIN Body[p]
    /\ Answer(p, "200")
    /\ UNCHANGED <<queueVars, now, fact, changed, cache, disturbances>>

AnswerIds(p) ==
    /\ handler[p] = "pushing"
    /\ Unqueued(p) = {}
    /\ Answer(p, "200")
    /\ UNCHANGED <<queueVars, now, fact, changed, cache, disturbances>>

\* push throws (the database is locked, the disk is full): the earlier pushes
\* stay, and the framework answers 500 without their ids.
PushFails(p) ==
    /\ handler[p] = "pushing" /\ Unqueued(p) # {}
    /\ Disturb
    /\ Answer(p, "500")
    /\ UNCHANGED <<queueVars, now, fact, changed, cache>>

\* The process ends, at any point, and starts again with empty caches.  In an
\* idle service that is what clearCache does, which only the tests call.
Crash ==
    /\ Disturb
    /\ handler' = [p \in Posts |-> IF handler[p] \in {"validating", "pushing"}
                                   THEN "lost" ELSE handler[p]]
    /\ since' = [p \in Posts |-> 0]
    /\ call' = [k \in Keys |-> NoCall]
    /\ ClearCache
    /\ UNCHANGED <<queueVars, now, fact, changed>>

-----------------------------------------------------------------------------
(* What happens meanwhile *)

\* The executor puts rows that it has peeked in a batch: no push merges into
\* them any more.
Take ==
    /\ AtRest /\ Disturb
    /\ \E ids \in SUBSET Pending(queue) : ids # {} /\ CreateSignedTransaction(ids)
    /\ UNCHANGED <<validatorVars, handler, since>>

\* What an answer of the node or a timer does for a call.
CallStep(k) ==
    \/ \E value \in BOOLEAN : AccountAnswered(k, value) \/ StorageAnswered(k, value)
    \/ AccountFailed(k)
    \/ TimedOut(k)

HandlerStep(p) == Refuse(p) \/ Admit(p) \/ PushNext(p) \/ AnswerIds(p)

ValidatorStep ==
    /\ AtRest
    /\ \/ \E k \in Keys : CallStep(k)
       \/ \E question \in Questions, a \in Accounts : ChainChanges(question, a)
    /\ UNCHANGED <<queueVars, apiVars>>

ClockStep == AtRest /\ Tick /\ UNCHANGED <<queueVars, apiVars>>

Init ==
    /\ QueueInit
    /\ ValidatorInit
    /\ handler = [p \in Posts |-> "new"]
    /\ since = [p \in Posts |-> 0]
    /\ disturbances = 0

Next ==
    \/ \E p \in Posts : Accept(p) \/ HandlerStep(p) \/ PushFails(p)
    \/ Crash
    \/ Take
    \/ ValidatorStep
    \/ ClockStep

Spec == Init /\ [][Next]_vars

-----------------------------------------------------------------------------
(* Properties *)

\* Handlers are where the code has awaits, and answer when they are done.
TypeOK ==
    /\ QueueTypeOK
    /\ ValidatorTypeOK
    /\ handler \in [Posts -> HandlerPcs]
    /\ since \in [Posts -> 0..MaxTime]
    /\ disturbances \in 0..MaxDisturbances

\* What an HTTP answer tells a client is so: after 200 every transfer has a row,
\* after 400 none has, and whatever has been queued is an initial part of the
\* body ("Return 400 error, DO NOT queue", README).
AnswersAreTrue ==
    \A p \in Posts :
        /\ handler[p] = "200" => Unqueued(p) = {}
        /\ handler[p] \in {"new", "validating", "400"} => Unqueued(p) = DOMAIN Body[p]
        /\ \A i \in Unqueued(p) : \A j \in DOMAIN Body[p] : i <= j => j \in Unqueued(p)

\* A transfer is queued only if its receiver did exist not long ago, and its row
\* says that a deposit is there only if it was there not long ago, however old
\* the row is that it is merged into, and whatever the other handlers, the node
\* and the chain did in the meantime.
QueuedAsChecked ==
    [][\A r \in Requests :
           ticket[r] = Null /\ ticket'[r] # Null =>
               /\ SkipAccountExistence \/ RecentlyTrue("account", Receiver[r], TRUE)
               /\ queue'[ticket'[r]].has_storage_deposit =>
                      SkipStorageCheck \/ RecentlyTrue("storage", Receiver[r], TRUE)]_vars

\* A POST is refused only if some receiver did not exist not long ago or could
\* not be checked; a missing deposit is no reason ("Non-blocking", README).
RefusedForAReason ==
    [][\A p \in Posts :
           handler[p] = "validating" /\ handler'[p] = "400" =>
               \E a \in Receivers(p) :
                   Result(p, a) = "failed" \/ RecentlyTrue("account", a, FALSE)]_vars

\* A handler waits for two queries at most, of however many accounts, and for
\* neither of them longer than a timeout: "configurable timeout prevents hanging
\* on slow RPC responses" (README), of a node that never answers, too.
AnsweredInTime ==
    \A p \in Posts : handler[p] = "validating" => now <= since[p] + 2 * Timeout
=============================================================================
