-------------------------- MODULE IdempotentRequests ---------------------------
(***************************************************************************)
(* requireIdempotency (middleware/idempotency.ts) before POST /orders, the *)
(* only route that uses it.  The answers of the route are those of         *)
(* orders.routes.ts and middleware/error.ts: both go through res.json, so  *)
(* an error is stored like a result.  One merchant and one route; the      *)
(* scoring of the order, in the same transaction, is left out.             *)
(*                                                                         *)
(* The response is stored by an update nobody waits for.  A process that   *)
(* ends takes the requests in it along, and the updates it has not sent.   *)
(* (Prisma sends a query only when it is awaited; the model lets this one  *)
(* be sent.)                                                               *)
(***************************************************************************)
EXTENDS Naturals, NoValue

CONSTANTS
    Posts,         \* the requests, each with a key and a body
    KeyOf,         \* Idempotency-Key
    ExternalOf,    \* the externalOrderId of the body, or Null for a body that does not parse
    Keys,
    MaxCrashes     \* bound on the crashes of a behaviour

\* A row without a response is no missing row.
ASSUME RequestsAssumption == KeyOf \in [Posts -> Keys] /\ Null # "open"

VARIABLES
    stored,        \* IdempotencyKey rows: Null, "open", or the response
    placed,        \* the external ids of the Order rows
    at,            \* where each call stands
    answers,       \* what each call was answered, [status, body]
    storing,       \* the response a call has handed to the update under way, or Null
    crashes

requestVars == <<stored, placed, at, answers, storing, crashes>>

RequestsInit ==
    /\ stored = [k \in Keys |-> Null] /\ placed = {}
    /\ at = [c \in Posts |-> "new"] /\ answers = [c \in Posts |-> Null]
    /\ storing = [c \in Posts |-> Null] /\ crashes = 0

IsResponse(row) == row \notin {Null, "open"}

Answer(c, status, body) ==
    /\ answers' = [answers EXCEPT ![c] = [status |-> status, body |-> body]]
    /\ at' = [at EXCEPT ![c] = "done"]

FindKey(c) ==
    /\ at[c] = "new"
    /\ IF IsResponse(stored[KeyOf[c]]) THEN Answer(c, 200, stored[KeyOf[c]])
       ELSE at' = [at EXCEPT ![c] = "found"] /\ UNCHANGED answers
    /\ UNCHANGED <<stored, placed, storing, crashes>>

\* Mutant of MayInsert: a key without a response may be taken again.
MayRetake(row) == ~IsResponse(row)

MayInsert(row) == row = Null

InsertKey(c) ==
    /\ at[c] = "found" /\ MayInsert(stored[KeyOf[c]])
    /\ stored' = [stored EXCEPT ![KeyOf[c]] = "open"]
    /\ at' = [at EXCEPT ![c] = "handler"]
    /\ UNCHANGED <<placed, answers, storing, crashes>>

\* The row is there: it is read again, and answers if it has a response by now.
LoseRace(c) ==
    /\ at[c] = "found" /\ ~MayInsert(stored[KeyOf[c]])
    /\ IF IsResponse(stored[KeyOf[c]]) THEN Answer(c, 200, stored[KeyOf[c]])
       ELSE Answer(c, 409, "IDEMPOTENCY_KEY_IN_PROGRESS")
    /\ UNCHANGED <<stored, placed, storing, crashes>>

\* The route's transaction, by what the body is.
PlaceOrder(c) ==
    /\ at[c] = "handler" /\ ExternalOf[c] # Null /\ ExternalOf[c] \notin placed
    /\ placed' = placed \union {ExternalOf[c]}
    /\ at' = [at EXCEPT ![c] = "created"]
    /\ UNCHANGED <<stored, answers, storing, crashes>>

\* What the route may answer: until it has committed, its transaction may fail.
Outcomes(c) ==
    IF at[c] = "created" THEN {[status |-> 201, body |-> ExternalOf[c]]}
    ELSE IF ExternalOf[c] = Null THEN {[status |-> 400, body |-> "VALIDATION_ERROR"]}
    ELSE {[status |-> 500, body |-> "INTERNAL_SERVER_ERROR"]} \union
         {o \in {[status |-> 409, body |-> "ORDER_ALREADY_EXISTS"]} : ExternalOf[c] \in placed}

\* res.json: the update is started and the answer sent.
Respond(c) ==
    /\ at[c] \in {"handler", "created"}
    /\ \E o \in Outcomes(c) : /\ storing' = [storing EXCEPT ![c] = o.body]
                              /\ Answer(c, o.status, o.body)
    /\ UNCHANGED <<stored, placed, crashes>>

StoreResponse(c) ==
    /\ storing[c] # Null
    /\ stored' = [stored EXCEPT ![KeyOf[c]] = storing[c]]
    /\ storing' = [storing EXCEPT ![c] = Null]
    /\ UNCHANGED <<placed, at, answers, crashes>>

\* Calls that have not arrived yet reach the next process.
EndProcess ==
    /\ crashes < MaxCrashes /\ crashes' = crashes + 1
    /\ at' = [c \in Posts |-> IF at[c] = "new" THEN "new" ELSE "done"]
    /\ storing' = [c \in Posts |-> Null]
    /\ UNCHANGED <<stored, placed, answers>>

Step(c) ==
    \/ FindKey(c) \/ InsertKey(c) \/ LoseRace(c) \/ PlaceOrder(c) \/ Respond(c) \/ StoreResponse(c)

RequestsNext == EndProcess \/ \E c \in Posts : Step(c)

RequestsSpec == RequestsInit /\ [][RequestsNext]_requestVars

-----------------------------------------------------------------------------
\* The route is not entered for a key while another call of it is in the route, nor after one was
\* answered, whatever crashes in between (the unique index on merchant, route, key).
OneRunPerKey ==
    [][\A c, d \in Posts :
          at[c] # "handler" /\ at'[c] = "handler" /\ c # d /\ KeyOf[c] = KeyOf[d] =>
              at[d] \notin {"handler", "created"} /\ answers[d] = Null]_requestVars

=============================================================================
