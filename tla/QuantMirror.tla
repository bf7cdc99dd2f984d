------------------------------- MODULE QuantMirror -------------------------------
(***************************************************************************)
(* The mirror of one warehouse's stock quantities in Redis, RedisAdapter   *)
(* (backend/app/db/redis_adapter.py): a value for every product, and an    *)
(* index of the products that have one, which the listing and the reset    *)
(* go by.  Several clients use it at the same time.                        *)
(*                                                                         *)
(* A command of Redis is one step, and so is a pipeline, which redis-py    *)
(* sends as a transaction.  A command may raise, a timeout for instance,   *)
(* whether or not the server has carried it out; the operation ends there. *)
(* What a listing returns is left out: it changes nothing.                 *)
(***************************************************************************)
EXTENDS Naturals

CONSTANTS Clients, Products, Quantities, None

ASSUME MirrorAssumption == None \notin Quantities /\ Products # {}

VARIABLES
  value,   \* the quantity of each product, or None
  index,   \* the products in the set of the warehouse
  doing,   \* the operation each client is in
  product, \* the product it sets
  todo,    \* the products it has still to read, or is about to delete
  torn,    \* (history) products whose quantity and index may have come apart
  met      \* (history) for each reset, the products set since it read the index

stored == <<value, index>>
mirrorVars == <<value, index, doing, product, todo, torn, met>>

Operations == {"idle", "set", "list", "reset"}
NoQuantities == [p \in Products |-> None]

MirrorInit ==
  /\ value = NoQuantities /\ index = {}
  /\ doing = [c \in Clients |-> "idle"]
  /\ product = [c \in Clients |-> CHOOSE p \in Products : TRUE]
  /\ todo = [c \in Clients |-> {}]
  /\ torn = {} /\ met = [c \in Clients |-> {}]

MirrorIdle == \A c \in Clients : doing[c] = "idle"

Goes(c, op) == doing' = [doing EXCEPT ![c] = op]

\* Products some client has given a value and not yet put into the index.
BeingSet == {p \in Products : \E c \in Clients : doing[c] = "set" /\ product[c] = p}

\* A product is set: the resets that have read the index do not know.
Meets(p) == met' = [c \in Clients |-> IF doing[c] = "reset" THEN met[c] \cup {p} ELSE met[c]]

-----------------------------------------------------------------------------

\* set_quant: SET, ...
SetValue(c, p, q) ==
  /\ doing[c] = "idle"
  /\ value' = [value EXCEPT ![p] = q]
  /\ Goes(c, "set") /\ product' = [product EXCEPT ![c] = p]
  /\ Meets(p)
  /\ UNCHANGED <<index, todo, torn>>

\* ... which may raise after the value was stored, ...
SetValueFails(c, p, q) ==
  /\ doing[c] = "idle"
  /\ value' = [value EXCEPT ![p] = q]
  /\ torn' = torn \cup {p} /\ Meets(p)
  /\ UNCHANGED <<index, doing, product, todo>>

\* ... then SADD, and the two agree, ...
AddToIndex(c) ==
  /\ doing[c] = "set"
  /\ Goes(c, "idle")
  /\ index' = index \cup {product[c]}
  /\ torn' = IF value[product[c]] # None THEN torn \ {product[c]} ELSE torn
  /\ Meets(product[c])
  /\ UNCHANGED <<value, product, todo>>

\* ... which may raise too.
AddToIndexFails(c) ==
  /\ doing[c] = "set"
  /\ Goes(c, "idle")
  /\ index' \in {index, index \cup {product[c]}}
  /\ torn' = torn \cup {product[c]} /\ Meets(product[c])
  /\ UNCHANGED <<value, product, todo>>

\* list_quants_for_warehouse: SMEMBERS, ...
List(c) ==
  /\ doing[c] = "idle"
  /\ Goes(c, "list") /\ todo' = [todo EXCEPT ![c] = index]
  /\ UNCHANGED <<stored, product, torn, met>>

\* ... and get_quant for one product after the other, in any order.
ListNext(c) ==
  /\ doing[c] = "list"
  /\ \E p \in todo[c] : todo' = [todo EXCEPT ![c] = @ \ {p}]
  /\ UNCHANGED <<stored, doing, product, torn, met>>

ListEnds(c) ==
  /\ doing[c] = "list" /\ todo[c] = {}
  /\ Goes(c, "idle")
  /\ UNCHANGED <<stored, product, todo, torn, met>>

\* reset_quants_for_warehouse: SMEMBERS, ...
Reset(c) ==
  /\ doing[c] = "idle"
  /\ Goes(c, "reset") /\ todo' = [todo EXCEPT ![c] = index]
  /\ met' = [met EXCEPT ![c] = BeingSet]
  /\ UNCHANGED <<stored, product, torn>>

FaultyDelete(c) ==
  /\ doing[c] = "reset"
  /\ Goes(c, "idle")
  /\ value' = [p \in Products |-> IF p \in todo[c] THEN None ELSE value[p]]
  /\ torn' = torn \cup met[c]
  /\ todo' = [todo EXCEPT ![c] = {}] /\ met' = [met EXCEPT ![c] = {}]
  /\ UNCHANGED <<index, product>>

\* ... then the values it found in the index and the index are deleted at once.
Delete(c) ==
  /\ doing[c] = "reset"
  /\ Goes(c, "idle")
  /\ value' = [p \in Products |-> IF p \in todo[c] THEN None ELSE value[p]]
  /\ index' = {}
  /\ torn' = torn \cup met[c]
  /\ todo' = [todo EXCEPT ![c] = {}] /\ met' = [met EXCEPT ![c] = {}]
  /\ UNCHANGED product

\* A call that only reads, or whose command was not carried out, raises.
GivesUp(c) ==
  /\ doing[c] \in {"list", "reset"}
  /\ Goes(c, "idle")
  /\ todo' = [todo EXCEPT ![c] = {}] /\ met' = [met EXCEPT ![c] = {}]
  /\ UNCHANGED <<stored, product, torn>>

ClientNext(c) ==
  \/ \E p \in Products, q \in Quantities : SetValue(c, p, q) \/ SetValueFails(c, p, q)
  \/ AddToIndex(c) \/ AddToIndexFails(c)
  \/ List(c) \/ ListNext(c) \/ ListEnds(c)
  \/ Reset(c) \/ Delete(c) \/ GivesUp(c)

MirrorNext == \E c \in Clients : ClientNext(c)

MirrorSpec == MirrorInit /\ [][MirrorNext]_mirrorVars

-----------------------------------------------------------------------------

Agree(p) == value[p] # None <=> p \in index

\* A quantity that neither the listing nor the reset finds, or a product in the
\* index without one, has one cause: a set of that product is between its two
\* commands, or the last one failed or overlapped a reset.  Sets that overlap
\* only sets and listings, and resets that overlap no set, never bring the two
\* apart (redis_adapter.py:71-98).
MismatchExplained == \A p \in Products : Agree(p) \/ p \in torn \cup BeingSet
================================================================================
