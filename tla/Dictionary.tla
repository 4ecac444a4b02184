----------------------------- MODULE Dictionary -----------------------------
(***************************************************************************)
(* What the interface of Projects/Container promises: a map from keys to   *)
(* values.  A call is begun; one step then does all that it promises and   *)
(* gives its result, createMap() one step for the map and for each item.   *)
(***************************************************************************)
EXTENDS Integers, Sequences, Functions

CONSTANTS Key, Value, Data

VARIABLES exists,  \* there is a map
          dict,    \* its content, a function from a set of keys to values
          call,    \* the call that is under way, or the result of the last one
          todo     \* the items that createMap() has still to add

mapVars == <<exists, dict, call, todo>>
None == [k \in {} |-> 0]

Request(op, k, v) == [op |-> op, key |-> k, value |-> v]
Returned(result) == Request(result, 0, 0)
Results == {"SUCCESS", "INVALID_ARG", "LACK_OF_MEMORY"}

DictInit == exists = FALSE /\ dict = None /\ call = Returned("SUCCESS") /\ todo = <<>>

Begin ==
  /\ call.op \in Results
  /\ \/ ~exists /\ call' = Request("createMap", 0, 0) /\ todo' \in Data
     \/ exists /\ UNCHANGED todo
        /\ \/ call' \in {Request("clearMap", 0, 0), Request("deleteMap", 0, 0)}
           \/ \E k \in Key : \/ call' = Request("deleteItem", k, 0)
                             \/ \E v \in Value, op \in {"addItem", "setValue"} :
                                  call' = Request(op, k, v)
  /\ UNCHANGED <<exists, dict>>

(* An item whose key is taken is not inserted. *)
With(f, item) == IF item.key \in DOMAIN f THEN f
                 ELSE [k \in DOMAIN f \cup {item.key} |-> IF k = item.key THEN item.value ELSE f[k]]

Create ==
  /\ call.op = "createMap"
  /\ \/ ~exists /\ dict' = None /\ UNCHANGED todo
     \/ exists /\ todo # <<>> /\ dict' = With(dict, Head(todo)) /\ todo' = Tail(todo)
  /\ exists' = TRUE
  /\ call' = IF todo' = <<>> THEN Returned("SUCCESS") ELSE call

CreateFails ==
  /\ call.op = "createMap"
  /\ exists => todo # <<>> /\ Head(todo).key \notin DOMAIN dict
  /\ exists' = FALSE /\ dict' = None /\ todo' = <<>>
  /\ call' = Returned("LACK_OF_MEMORY")

Add ==
  /\ call.op = "addItem"
  /\ \/ dict' = With(dict, call) /\ call' = Returned("SUCCESS")
     \/ call.key \notin DOMAIN dict /\ UNCHANGED dict /\ call' = Returned("LACK_OF_MEMORY")
  /\ UNCHANGED <<exists, todo>>

Set ==
  /\ call.op = "setValue"
  /\ IF call.key \in DOMAIN dict
     THEN dict' = [dict EXCEPT ![call.key] = call.value] /\ call' = Returned("SUCCESS")
     ELSE UNCHANGED dict /\ call' = Returned("INVALID_ARG")
  /\ UNCHANGED <<exists, todo>>

Remove ==
  /\ call.op = "deleteItem"
  /\ dict' = Restrict(dict, DOMAIN dict \ {call.key})
  /\ call' = Returned(IF dict = None THEN "INVALID_ARG" ELSE "SUCCESS")
  /\ UNCHANGED <<exists, todo>>

Clear ==
  /\ call.op \in {"clearMap", "deleteMap"}
  /\ dict' = None /\ call' = Returned("SUCCESS")
  /\ exists' = (call.op = "clearMap")
  /\ UNCHANGED todo

DictNext == Begin \/ Create \/ CreateFails \/ Add \/ Set \/ Remove \/ Clear

DictSpec == DictInit /\ [][DictNext]_mapVars
=============================================================================
