------------------------------ MODULE UserIntent ------------------------------
(***************************************************************************)
(* f8a_worker/storages/s3_userintent.py over storages/s3.py: each call of  *)
(* store_in_bucket reads the object of a component, puts its own intents   *)
(* before those it has read, and writes the object.  Calls are made by     *)
(* several processes; S3 requests are atomic, and any of them may fail.    *)
(***************************************************************************)
EXTENDS Naturals, Sequences

CONSTANTS Calls,       (* identifiers of calls, which are their intents too *)
          Component,   (* Component[c]: the key that the call c writes      *)
          Bare         (* the calls whose input has no list "intent"        *)

VARIABLES uiPc,        (* call -> "new", "read", "store", "done", "failed"  *)
          uiList,      (* call -> the list "intent" it will write           *)
          uiObject,    (* key -> << >> for no object, else <<its list>>     *)
          uiBase,      (* history: call -> writes that it has seen          *)
          uiWrites,    (* history: key -> calls in the order of the writes  *)
          uiBlind      (* history: keys with a write that had not seen the  *)
                       (* one before, or that came from a bare call         *)

intentVars == <<uiPc, uiList, uiObject, uiBase, uiWrites, uiBlind>>

IntentKeys == {Component[c] : c \in Calls}

IntentInit == /\ uiPc = [c \in Calls |-> "new"]
              /\ uiList = [c \in Calls |-> IF c \in Bare THEN << >> ELSE <<c>>]
              /\ uiObject = [k \in IntentKeys |-> << >>]
              /\ uiBase = [c \in Calls |-> 0]
              /\ uiWrites = [k \in IntentKeys |-> << >>]
              /\ uiBlind = {}

Step(c, from, to) == uiPc[c] = from /\ uiPc' = [uiPc EXCEPT ![c] = to]

(* object_exists: a HEAD request; 404 means that the call writes only its  *)
(* own intents.                                                            *)
ObjectExists(c) ==
    /\ Step(c, "new", IF uiObject[Component[c]] = << >> THEN "store" ELSE "read")
    /\ uiBase' = [uiBase EXCEPT ![c] = Len(uiWrites[Component[c]])]
    /\ UNCHANGED <<uiList, uiObject, uiWrites, uiBlind>>

(* Variant: the list that was read comes first.                            *)
RetrieveDictBefore(c) ==
    /\ Step(c, "read", "store")
    /\ uiBase' = [uiBase EXCEPT ![c] = Len(uiWrites[Component[c]])]
    /\ uiList' = [uiList EXCEPT ![c] = IF c \in Bare THEN @ ELSE uiObject[Component[c]][1] \o @]
    /\ UNCHANGED <<uiObject, uiWrites, uiBlind>>

(* input_json.get('intent', []).extend: a bare call extends a list that is *)
(* then dropped.                                                           *)
RetrieveDict(c) ==
    /\ Step(c, "read", "store")
    /\ uiBase' = [uiBase EXCEPT ![c] = Len(uiWrites[Component[c]])]
    /\ uiList' = [uiList EXCEPT ![c] = IF c \in Bare THEN @ ELSE @ \o uiObject[Component[c]][1]]
    /\ UNCHANGED <<uiObject, uiWrites, uiBlind>>

StoreDict(c) ==
    /\ Step(c, "store", "done")
    /\ LET k == Component[c]
       IN  /\ uiObject' = [uiObject EXCEPT ![k] = <<uiList[c]>>]
           /\ uiWrites' = [uiWrites EXCEPT ![k] = Append(@, c)]
           /\ uiBlind' = IF c \in Bare \/ uiBase[c] # Len(uiWrites[k])
                         THEN uiBlind \cup {k} ELSE uiBlind
    /\ UNCHANGED <<uiList, uiBase>>

(* Another error than 404, or of a read or a write: the call raises.       *)
RequestFails(c) ==
    /\ uiPc[c] \in {"new", "read", "store"} /\ uiPc' = [uiPc EXCEPT ![c] = "failed"]
    /\ UNCHANGED <<uiList, uiObject, uiBase, uiWrites, uiBlind>>

IntentNext == \E c \in Calls :
    ObjectExists(c) \/ RetrieveDict(c) \/ StoreDict(c) \/ RequestFails(c)
IntentSpec == IntentInit /\ [][IntentNext]_intentVars
-----------------------------------------------------------------------------
Backwards(s) == [i \in DOMAIN s |-> s[Len(s) + 1 - i]]

(* An object has the intents of all the calls that wrote it, the newest    *)
(* first - unless a call wrote over a version it had not read, or came     *)
(* without a list, which drops what was there.                             *)
IntentsAreKept ==
    \A k \in IntentKeys \ uiBlind :
        uiObject[k] = IF uiWrites[k] = << >> THEN << >> ELSE <<Backwards(uiWrites[k])>>

(* Whatever the overlap, an object holds intents of calls that wrote it    *)
(* only, and those of the last one that had a list.                        *)
LastIntentIsThere ==
    \A k \in IntentKeys : LET w == uiWrites[k] IN
        /\ w # << >> /\ w[Len(w)] \notin Bare => Head(uiObject[k][1]) = w[Len(w)]
        /\ uiObject[k] # << >> => \A i \in DOMAIN uiObject[k][1] : \E j \in DOMAIN w : w[j] = uiObject[k][1][i]

(* What becomes of the intents of calls that overlap.                      *)
IntentsSurvive == IntentsAreKept /\ LastIntentIsThere
=============================================================================
