---------------------------- MODULE RpcFailover ----------------------------
(***************************************************************************)
(* The keyless Solana client of the passport reader                        *)
(* (backend/src/adapters/solanaRpc.ts): a query goes to the preferred      *)
(* endpoint and rolls over to the next ones.  The preferred endpoint is    *)
(* one variable of the process, read again before every attempt, and other *)
(* queries move it while one awaits its fetch.                             *)
(*                                                                         *)
(* Its actions constrain preferred, query and faults; what becomes of the  *)
(* result is the caller's, see Passport.                                   *)
(***************************************************************************)
EXTENDS Integers

CONSTANTS
  Endpoints,  \* number of RPC_ENDPOINTS, named 0 .. Endpoints - 1
  Method,
  Querier,    \* who has a query under way, one at a time each
  Serves,     \* the endpoints and methods they answer when all is well
  MaxFaults   \* bound on timeouts, 429s, 5xxs and error objects

Endpoint == 0 .. Endpoints - 1

ASSUME RpcAssumption ==
  /\ Endpoints \in Nat \ {0} /\ MaxFaults \in Nat
  /\ Serves \subseteq Endpoint \X Method

VARIABLES
  preferred,  \* preferredIndex
  query,      \* the attempt each querier awaits
  faults

NoQuery == [attempt |-> -1]
Query == [method : Method, attempt : Endpoint, index : Endpoint, asked : SUBSET Endpoint]

RpcTypeOK ==
  /\ preferred \in Endpoint
  /\ query \in [Querier -> Query \cup {NoQuery}]
  /\ faults \in 0 .. MaxFaults

RpcInit ==
  /\ preferred = 0
  /\ query = [q \in Querier |-> NoQuery]
  /\ faults = 0

Following(attempt) == attempt + 1
EndpointAt(attempt) == (preferred + attempt) % Endpoints

(* A query for m begins while preferredIndex is i.                         *)
FirstAttempt(m, i) == [method |-> m, attempt |-> 0, index |-> i, asked |-> {i}]

Asking(q) == query[q] # NoQuery
Able(q) == <<query[q].index, query[q].method>> \in Serves

(* The endpoint does not serve the method, or its answer is lost.          *)
AttemptFails(q) ==
  /\ Asking(q)
  /\ \/ ~Able(q) /\ UNCHANGED faults
     \/ faults < MaxFaults /\ faults' = faults + 1

HasNext(q) == Following(query[q].attempt) < Endpoints

(* continue                                                                *)
RollOver(q) ==
  /\ AttemptFails(q)
  /\ HasNext(q)
  /\ LET next == Following(query[q].attempt) IN
     query' = [query EXCEPT ![q] =
       [method |-> @.method, attempt |-> next, index |-> EndpointAt(next),
        asked |-> @.asked \cup {EndpointAt(next)}]]
  /\ UNCHANGED preferred

(* "All Solana RPC endpoints failed".                                      *)
Exhausts(q) ==
  /\ AttemptFails(q)
  /\ ~HasNext(q)
  /\ UNCHANGED preferred

(* A JSON-RPC error object is a real answer: no failover.                  *)
Refuses(q) ==
  /\ Asking(q) /\ Able(q)
  /\ faults < MaxFaults
  /\ faults' = faults + 1
  /\ UNCHANGED preferred

Answers(q) ==
  /\ Asking(q) /\ Able(q)
  /\ preferred' = query[q].index
  /\ UNCHANGED faults

=============================================================================
