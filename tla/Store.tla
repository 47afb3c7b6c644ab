------------------------------- MODULE Store --------------------------------
(***************************************************************************)
(* What BTree promises in src/src/btree/btree.h: a map from keys to        *)
(* values.  `call` is the last call that returned, `result` its result.    *)
(***************************************************************************)
CONSTANTS Key, Value, Absent

VARIABLES store, call, result

Init ==
  /\ store \in [Key -> Value \cup {Absent}]
  /\ call = <<>>
  /\ result = "none"

get(k) ==
  /\ call' = <<"get", k>>
  /\ result' = store[k]
  /\ UNCHANGED store

insert(k, v) ==
  /\ call' = <<"insert", k, v>>
  /\ result' = "ok"
  /\ store' = [store EXCEPT ![k] = v]

(* std::invalid_argument: the key and the value do not fit in a page. *)
refuse(k, v) ==
  /\ call' = <<"insert", k, v>>
  /\ result' = "invalid_argument"
  /\ UNCHANGED store

remove(k) ==
  /\ call' = <<"remove", k>>
  /\ result' = (store[k] # Absent)
  /\ store' = [store EXCEPT ![k] = Absent]

Next == \E k \in Key :
  \/ get(k) \/ remove(k)
  \/ \E v \in Value : insert(k, v) \/ refuse(k, v)

Spec == Init /\ [][Next]_<<store, call, result>>
=============================================================================
