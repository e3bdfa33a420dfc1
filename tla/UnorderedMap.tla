---------------------------- MODULE UnorderedMap ----------------------------
(***************************************************************************)
(* Softadastra::UnorderedMap, a std::unordered_map: where its entries live *)
(* in memory, which of them an operation creates, shares, moves or frees,  *)
(* and what a caller does through the reference that operator[] or an      *)
(* iterator gave it.                                                       *)
(*                                                                         *)
(* Const methods (operator[] const, contains, get_pair, const iterators)   *)
(* find what is there or throw, and change nothing: they are steps that    *)
(* stutter.  The free function swap reads a private member of its          *)
(* arguments and cannot be instantiated.                                   *)
(***************************************************************************)
EXTENDS Functions

CONSTANTS
  Maps,      (* the objects                                                *)
  Keys,
  Values,
  Default,   (* what ValueType() makes                                     *)
  Elements,  (* the nodes that memory has room for                         *)
  NoRef      (* no usable reference                                        *)

ASSUME MapAssumption == Default \in Values /\ NoRef \notin Elements

VARIABLES
  content,  (* [Maps -> functions from some keys to elements]              *)
  value,    (* [Elements -> Values]                                        *)
  ref       (* the element that the caller's reference is to, or NoRef     *)

mapVars == <<content, value, ref>>

NoEntries == [k \in {} |-> NoRef]

MapInit ==
  /\ content = [m \in Maps |-> NoEntries]
  /\ value = [e \in Elements |-> Default]
  /\ ref = NoRef

HeldBy(ms) == UNION {Range(content[m]) : m \in ms}

(* A reference to an element that is destroyed must not be used any more.  *)
Destroyed(es) == ref' = IF ref \in es THEN NoRef ELSE ref

(* elems[key], for a key that is not there.                                *)
Create(m, k, v) ==
  /\ k \notin DOMAIN content[m]
  /\ \E e \in Elements \ HeldBy(Maps) :
       /\ content' = [content EXCEPT ![m] =
                        [j \in DOMAIN @ \cup {k} |-> IF j = k THEN e ELSE @[j]]]
       /\ value' = [value EXCEPT ![e] = v]

Insert(m, k, v) ==
  /\ \/ Create(m, k, v)
     \/ /\ k \in DOMAIN content[m]
        /\ value' = [value EXCEPT ![content[m][k]] = v]
        /\ UNCHANGED content
  /\ UNCHANGED ref

(* The key is created, then the assignment of the value throws.            *)
InsertThrows(m, k) == Create(m, k, Default) /\ UNCHANGED ref

(* operator[] of a map that is not const; an iterator gives a reference to
   an entry that is there.                                                 *)
Subscript(m, k) ==
  /\ \/ Create(m, k, Default)
     \/ k \in DOMAIN content[m] /\ UNCHANGED <<content, value>>
  /\ ref' = content'[m][k]

(* The caller assigns through the reference, whatever was done to the maps
   since it got it.                                                        *)
Assign(v) ==
  /\ ref # NoRef
  /\ value' = [value EXCEPT ![ref] = v]
  /\ UNCHANGED <<content, ref>>

Erase(m, k) ==
  /\ k \in DOMAIN content[m]
  /\ content' = [content EXCEPT ![m] = Restrict(@, DOMAIN @ \ {k})]
  /\ Destroyed({content[m][k]})
  /\ UNCHANGED value

(* clear, or the destruction of an object in whose place a new one comes.  *)
ClearMap(m) ==
  /\ content' = [content EXCEPT ![m] = NoEntries]
  /\ Destroyed(HeldBy({m}))
  /\ UNCHANGED value

CopyMap_faulty(m, other) ==
  /\ m # other
  /\ content' = [content EXCEPT ![m] = content[other]]
  /\ Destroyed(HeldBy({m}))
  /\ UNCHANGED value

(* Construction (of an m that was empty) or assignment.  Each entry gets an
   element of its own, perhaps one that m had.                             *)
CopyMap(m, other) ==
  /\ m # other
  /\ \E f \in Injection(DOMAIN content[other],
                        Elements \ HeldBy(Maps \ {m})) :
       /\ content' = [content EXCEPT ![m] = f]
       /\ value' = [e \in Elements |->
                      IF \E k \in DOMAIN f : f[k] = e
                      THEN value[content[other][CHOOSE k \in DOMAIN f : f[k] = e]]
                      ELSE value[e]]
  /\ Destroyed(HeldBy({m}))

(* When the copy of an element throws, the table is left empty.            *)
CopyMapThrows(m, other) ==
  m # other /\ content[other] # NoEntries /\ ClearMap(m)

MoveMap_faulty(m, other) ==
  /\ m # other
  /\ content' = [content EXCEPT ![m] = content[other]]
  /\ Destroyed(HeldBy({m}))
  /\ UNCHANGED value

(* The elements change hands, and with them what is referred to.           *)
MoveMap(m, other) ==
  /\ m # other
  /\ content' = [content EXCEPT ![m] = content[other], ![other] = NoEntries]
  /\ Destroyed(HeldBy({m}))
  /\ UNCHANGED value

MapNext ==
  \/ \E m \in Maps, k \in Keys :
       \/ InsertThrows(m, k) \/ Subscript(m, k) \/ Erase(m, k)
       \/ \E v \in Values : Insert(m, k, v)
  \/ \E v \in Values : Assign(v)
  \/ \E m \in Maps : ClearMap(m)
  \/ \E m, other \in Maps :
       CopyMap(m, other) \/ CopyMapThrows(m, other) \/ MoveMap(m, other)

MapSpec == MapInit /\ [][MapNext]_mapVars
-----------------------------------------------------------------------------
(* The entries as a caller sees them, and those with the element of ref.   *)
Seen(f) == [k \in DOMAIN f |-> value[f[k]]]

Places ==
  {p \in Maps \X Keys :
     p[2] \in DOMAIN content[p[1]] /\ content[p[1]][p[2]] = ref}

Promise == INSTANCE Dictionaries WITH
  dict <- [m \in Maps |-> Seen(content[m])],
  denoted <- Places

(***************************************************************************)
(* The maps are values: in whatever order they are filled, copied, moved,  *)
(* cleared and written to through a reference that was obtained before,    *)
(* each is a dictionary of its own.  A write through a reference changes   *)
(* one entry of one map, the one that it was obtained for, in the map it   *)
(* has been moved to, and never a copy's.                                  *)
(***************************************************************************)
ImplementsDictionaries == Promise!Spec
=============================================================================
