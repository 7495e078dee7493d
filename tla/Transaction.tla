----------------------------- MODULE Transaction -----------------------------
(***************************************************************************)
(* Memory lifecycle of a transaction object, from                          *)
(* sc-memory/sc-core/src/sc-store/sc-transaction/sc_transaction.c.         *)
(*                                                                         *)
(* sc_transaction_new allocates the transaction, its element list and its  *)
(* buffer one after the other; each allocation may fail, and each failure  *)
(* path frees what was allocated before it.  On success it initialises the *)
(* buffer (whose result is ignored) and calls sc_list_init on the element  *)
(* list field, which allocates a fresh list into it.                       *)
(* sc_transaction_destroy clears the element list and frees the            *)
(* transaction.  The other operations have empty bodies and change         *)
(* nothing; sc_transaction_validate returns SC_FALSE.                      *)
(*                                                                         *)
(* The heap is the set of blocks still allocated, a block being            *)
(* <<slot, kind>>: the slot is the caller's variable the transaction is    *)
(* stored in, the kind names the allocation site.                          *)
(***************************************************************************)
EXTENDS Naturals, FiniteSets

CONSTANTS
  Slots,  \* caller variables that hold a transaction pointer
  Ids     \* transaction ids the caller passes (through a pointer)

NULL == "NULL"

(* Allocation sites: sc_mem_new at lines 10, 17 and 24, the lists and      *)
(* monitor table sc_transaction_buffer_initialize allocates, and the list  *)
(* sc_list_init allocates at line 33.                                       *)
Kinds == {"txn", "elements", "buffer", "bufferLists", "list"}

(* Where sc_transaction_new stops: at the NULL id check, at one of the      *)
(* three allocations, or not at all.                                       *)
Outcomes == {"nullId", "txnFails", "elementsFails", "bufferFails", "ok"}

VARIABLES
  heap,  \* blocks allocated and not freed
  txn    \* per slot: st (none, live, failed, destroyed), id, elements field

vars == <<heap, txn>>

Unset == [st |-> "none", id |-> NULL, elements |-> NULL]

TypeOK ==
  /\ heap \subseteq Slots \X Kinds
  /\ txn \in [Slots -> {Unset} \cup
                [st : {"failed"}, id : {NULL}, elements : {NULL}] \cup
                [st : {"live", "destroyed"}, id : Ids, elements : {"elements", "list"}]]

-----------------------------------------------------------------------------
(* The allocations sc_transaction_new has made when it stops: none before  *)
(* the txn allocation succeeds, then the transaction, then its list, then  *)
(* its buffer, the buffer's own lists and the list of sc_list_init.        *)
Allocated(out, bufOk) ==
  CASE out \in {"nullId", "txnFails"} -> {}
    [] out = "elementsFails"          -> {"txn"}
    [] out = "bufferFails"            -> {"txn", "elements"}
    [] out = "ok" -> {"txn", "elements", "buffer", "list"}
                     \cup (IF bufOk THEN {"bufferLists"} ELSE {})

(* Mutant: the buffer allocation failure path forgets to free the list.    *)
FreedOnFailureKeepsList(out) ==
  CASE out = "elementsFails" -> {"txn"}
    [] out = "bufferFails"   -> {"txn"}
    [] OTHER                 -> {}

(* The sc_mem_free calls of the failure paths: the transaction when the    *)
(* list allocation fails (line 20), the list and the transaction when the  *)
(* buffer allocation fails (lines 27-28).                                  *)
FreedOnFailure(out) ==
  CASE out = "elementsFails" -> {"txn"}
    [] out = "bufferFails"   -> {"elements", "txn"}
    [] OTHER                 -> {}

(* Mutant: the NULL check on txn_id is dropped and the call goes on.       *)
StopsNoNullCheck(out) == out \notin {"nullId", "ok"}

(* sc_transaction_new returns NULL unless it ran to the end; it stops      *)
(* first at the txn_id == NULL check (line 7).                             *)
Stops(out) == out # "ok"

(* sc_transaction_new(&id) into slot s.  out is where it stops; bufOk is   *)
(* whether sc_transaction_buffer_initialize managed its allocations (its   *)
(* result is ignored).  A failure returns NULL having freed the blocks of  *)
(* FreedOnFailure.  On success, sc_list_init(&txn->elements) allocates a   *)
(* new list into the field that held the list allocated at line 17.        *)
New(s, id, out, bufOk) ==
  /\ txn[s].st = "none"
  /\ heap' = (heap \cup {<<s, k>> : k \in Allocated(out, bufOk)})
               \ {<<s, k>> : k \in FreedOnFailure(out)}
  /\ txn' = [txn EXCEPT ![s] =
               IF Stops(out)
                 THEN [st |-> "failed", id |-> NULL, elements |-> NULL]
                 ELSE [st |-> "live", elements |-> "list",
                       \* txn->transaction_id = *txn_id
                       id |-> IF out = "nullId" THEN NULL ELSE id]]

(* sc_transaction_destroy: on a NULL pointer nothing happens; otherwise    *)
(* sc_list_clear empties the element list (it frees the list's items, not  *)
(* the list) and the transaction itself is freed.                          *)
Destroy(s) ==
  /\ txn[s].st \in {"live", "failed"}
  /\ \/ /\ txn[s].st = "failed"
        /\ UNCHANGED heap
     \/ /\ txn[s].st = "live"
        /\ heap' = heap \ {<<s, "txn">>}
  /\ txn' = [txn EXCEPT ![s].st = IF @ = "live" THEN "destroyed" ELSE "none"]

Init ==
  /\ heap = {}
  /\ txn = [s \in Slots |-> Unset]

Next ==
  \/ \E s \in Slots, id \in Ids, out \in Outcomes, bufOk \in BOOLEAN :
       New(s, id, out, bufOk)
  \/ \E s \in Slots : Destroy(s)

Spec == Init /\ [][Next]_vars

-----------------------------------------------------------------------------
(* A sc_transaction_new that returns NULL, whichever allocation failed,    *)
(* leaves the heap exactly as it found it: each failure path frees every   *)
(* block allocated before it.                                              *)
FailedNewFreesAll ==
  [][\A s \in Slots :
       (txn[s].st = "none" /\ txn'[s].st = "failed") => heap' = heap]_vars

(* sc_transaction_destroy releases every block the transaction owns: none  *)
(* of the blocks allocated for the slot survives its destroy.              *)
DestroyReleasesAll ==
  [][\A s \in Slots :
       (txn[s].st = "live" /\ txn'[s].st = "destroyed") =>
         \A k \in Kinds : <<s, k>> \notin heap']_vars
=============================================================================
