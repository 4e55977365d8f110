---------------------------- MODULE UserProperty ----------------------------
(***************************************************************************)
(* The lists of MQTT 5 user properties (mqtt5_client.c, lib/mqtt5_msg.c):  *)
(* made from an array of the application, copied into the configuration,   *)
(* read from a message, given back in an array, counted and deleted.  Each *)
(* allocation is a step and any of them may fail; the heap is the number   *)
(* of blocks of each kind not yet freed.                                   *)
(***************************************************************************)
EXTENDS Naturals, Sequences

CONSTANTS Calls,        \* of {"set", "copy", "read", "get"}
          Copied,       \* where a failed copy returns to: "connect" or "disconnect"
          Arrays,       \* arrays of items; an item without a key or value is "null"
          AllocFails,   \* whether an allocation may fail
          MaxItems      \* bound: items of the list

VARIABLES list,     \* <<>> when the handle is NULL, else <<items>>
          array,    \* what esp_mqtt5_client_get_user_property gave the application
          call,     \* the call under way and what it still has to do
          part,     \* how many blocks of the item being made there are
          heap,     \* how many blocks of each kind are allocated
          want,     \* history: the items the calls that made the list were given
          returned  \* of the last call

ASSUME UpAssumption == /\ Arrays \subseteq Seq(STRING)
                       /\ Calls \subseteq {"set", "copy", "read", "get"}

upVars == <<list, array, call, part, heap, want, returned>>

NoCall == [op |-> "none", todo |-> <<>>]
Empty == [list |-> 0, item |-> 0, text |-> 0]
plus(h, k) == [h EXCEPT ![k] = @ + 1]

UpInit == /\ list = <<>> /\ array = <<>> /\ call = NoCall /\ part = 0
          /\ heap = Empty /\ want = <<>> /\ returned = "none"

ItemsOf(l) == IF l = <<>> THEN <<>> ELSE l[1]
(* esp_mqtt5_client_get_user_property_count, in a uint8_t.                 *)
get_user_property_count(l) == Len(ItemsOf(l)) % 256

(* esp_mqtt5_client_delete_user_property of a list.                        *)
Deleted(h, l) == [h EXCEPT !.list = IF l = <<>> THEN @ ELSE @ - 1,
                           !.item = @ - Len(ItemsOf(l)), !.text = @ - 2 * Len(ItemsOf(l))]

(* A call begins.  The arrays of set are refused when empty; copy deletes  *)
(* the list it replaces; read starts from NULL.                            *)
Begin(op, items) ==
    /\ call = NoCall /\ op \in Calls \ {"get"}
    /\ IF op = "set" THEN items # <<>> ELSE \A i \in DOMAIN items : items[i] # "null"
    /\ Len(ItemsOf(list)) + Len(items) <= MaxItems
    /\ call' = [op |-> op, todo |-> items]
    /\ want' = (IF op = "set" THEN ItemsOf(list) ELSE <<>>) \o items
    /\ part' = 0
    /\ IF op = "set" THEN UNCHANGED <<list, heap>> ELSE list' = <<>> /\ heap' = Deleted(heap, list)
    /\ UNCHANGED <<array, returned>>

Making == call.op \in {"set", "copy", "read"}

(* The call returns.                                                       *)
Return(r) == call' = NoCall /\ part' = 0 /\ returned' = r

(* calloc of the list itself.                                              *)
AllocList == /\ Making /\ list = <<>> /\ (call.op = "read" => call.todo # <<>>)
             /\ \/ /\ list' = <<<<>>>> /\ heap' = plus(heap, "list")
                   /\ UNCHANGED <<call, part, returned>>
                \/ AllocFails /\ Return("no memory") /\ UNCHANGED <<list, heap>>
             /\ UNCHANGED <<array, want>>

(* Mutant: the part of an item is forgotten.                               *)
FailedMakeKeepsPart == /\ heap' = Deleted(heap, list)
                       /\ list' = <<>> /\ Return("no memory")

(* What the failure of an allocation of an item comes to: the parts of the *)
(* item are freed where it happens, the list by the caller.                *)
FailedMake ==
    LET own == IF part = 0 THEN heap
               ELSE [heap EXCEPT !.item = @ - 1, !.text = @ - (part - 1)]
    IN  /\ heap' = IF call.op = "copy" /\ Copied = "disconnect"
                   THEN [own EXCEPT !.list = @ - 1] ELSE Deleted(own, list)
        /\ list' = <<>> /\ Return("no memory")

(* calloc of the next item, its key, its value; and the insertion.         *)
NextPart == IF part = 0 THEN "item" ELSE "text"
AllocPart == /\ Making /\ list # <<>> /\ call.todo # <<>> /\ Head(call.todo) # "null"
             /\ part < 3
             /\ \/ /\ part' = part + 1 /\ heap' = plus(heap, NextPart)
                   /\ UNCHANGED <<list, call, returned>>
                \/ AllocFails /\ FailedMake
             /\ UNCHANGED <<array, want>>

Insert == /\ Making /\ part = 3
          /\ list' = <<Append(list[1], Head(call.todo))>>
          /\ call' = [call EXCEPT !.todo = Tail(@)] /\ part' = 0
          /\ UNCHANGED <<array, heap, want, returned>>

Skip == /\ Making /\ list # <<>> /\ call.todo # <<>> /\ Head(call.todo) = "null"
        /\ call' = [call EXCEPT !.todo = Tail(@)]
        /\ UNCHANGED <<list, array, part, heap, want, returned>>

Done == /\ Making /\ call.todo = <<>> /\ (list # <<>> \/ call.op = "read")
        /\ Return("ok")
        /\ UNCHANGED <<list, array, heap, want>>

-----------------------------------------------------------------------------
(* esp_mqtt5_client_get_user_property of at most num items.                *)
GetBegin(num) == /\ call = NoCall /\ "get" \in Calls /\ list # <<>> /\ array = <<>> /\ num > 0
                 /\ call' = [op |-> "get", todo |-> SubSeq(ItemsOf(list), 1,
                                 IF num < Len(ItemsOf(list)) THEN num ELSE Len(ItemsOf(list)))]
                 /\ UNCHANGED <<list, array, part, heap, want, returned>>

(* Key and value; on failure all that was copied is freed.                 *)
GetAlloc ==
    /\ call.op = "get" /\ call.todo # <<>> /\ part < 2
    /\ \/ /\ part' = part + 1 /\ heap' = plus(heap, "text")
          /\ UNCHANGED <<array, call, returned>>
       \/ /\ AllocFails /\ heap' = [heap EXCEPT !.text = @ - part - 2 * Len(array)]
          /\ array' = <<>> /\ Return("no memory")
    /\ UNCHANGED <<list, want>>

GetItem == /\ call.op = "get" /\ part = 2
           /\ array' = Append(array, Head(call.todo))
           /\ call' = [call EXCEPT !.todo = Tail(@)] /\ part' = 0
           /\ UNCHANGED <<list, heap, want, returned>>

GetDone == /\ call.op = "get" /\ call.todo = <<>>
           /\ Return("ok")
           /\ UNCHANGED <<list, array, heap, want>>

-----------------------------------------------------------------------------
(* The application frees what it was given, and deletes the list.          *)
FreeArray == /\ call = NoCall /\ array # <<>>
             /\ array' = <<>> /\ heap' = [heap EXCEPT !.text = @ - 2 * Len(array)]
             /\ UNCHANGED <<list, call, part, want, returned>>

delete_user_property == /\ call = NoCall /\ list # <<>>
                        /\ list' = <<>> /\ heap' = Deleted(heap, list)
                        /\ UNCHANGED <<array, call, part, want, returned>>

UpNext == \/ \E op \in Calls, items \in Arrays : Begin(op, items)
          \/ AllocList \/ AllocPart \/ Insert \/ Skip \/ Done
          \/ \E num \in 1..get_user_property_count(list) : GetBegin(num)
          \/ GetAlloc \/ GetItem \/ GetDone \/ FreeArray \/ delete_user_property

UpSpec == UpInit /\ [][UpNext]_upVars

-----------------------------------------------------------------------------
(* Properties                                                              *)

(* A failed copy goes back to set_connect_property, which deletes the      *)
(* whole list; set_disconnect_property frees only its head.                *)
CopiedForConnect == Copied # "disconnect"

(* s holds the complete ones of the first n items of t, all of them and in *)
(* their order.                                                            *)
Given(t, n) == {i \in 1 .. n : t[i] # "null"}
Picks(s, t, n) ==
    \E place \in [1 .. Len(s) -> Given(t, n)] :
        /\ \A i, j \in 1 .. Len(s) : i < j => place[i] < place[j]
        /\ \A k \in Given(t, n) : \E i \in 1 .. Len(s) : place[i] = k
        /\ \A i \in 1 .. Len(s) : s[i] = t[place[i]]

(* Between calls the list is all that the calls asked for, in order, or    *)
(* there is none, never a part of it; and every block allocated belongs to *)
(* the list or to the array of the application: no failed allocation leaks *)
(* what came before it.                                                    *)
ListsWhole ==
    call = NoCall => /\ list # <<>> => Picks(ItemsOf(list), want, Len(want))
                     /\ heap = [list |-> Len(list), item |-> Len(ItemsOf(list)),
                                text |-> 2 * Len(ItemsOf(list)) + 2 * Len(array)]
=============================================================================
