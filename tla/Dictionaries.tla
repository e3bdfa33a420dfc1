---------------------------- MODULE Dictionaries ----------------------------
(***************************************************************************)
(* What UnorderedMap promises, without tables or memory: each map is a     *)
(* dictionary of its own, and a reference to a value denotes one place, a  *)
(* key of a map, which it follows when the contents are moved.  A step     *)
(* changes one entry of one dictionary, or empties or fills a whole one.   *)
(***************************************************************************)
CONSTANTS Maps, Keys, Values, Default

VARIABLES
  dict,     (* [Maps -> functions from some keys to values]                *)
  denoted   (* the place <<map, key>> that the caller's reference denotes, *)
            (* in a set that is empty when there is no such reference      *)

vars == <<dict, denoted>>

Empty == [k \in {} |-> Default]

Init == dict = [m \in Maps |-> Empty] /\ denoted = {}

Entry(f, k, v) == [j \in DOMAIN f \cup {k} |-> IF j = k THEN v ELSE f[j]]

Put(m, k, v) == dict' = [dict EXCEPT ![m] = Entry(@, k, v)]

Insert(m, k, v) == Put(m, k, v) /\ UNCHANGED denoted

(* The caller gets a reference to an entry, made if it does not exist.     *)
Refer(m, k) ==
  /\ IF k \in DOMAIN dict[m] THEN UNCHANGED dict ELSE Put(m, k, Default)
  /\ denoted' = {<<m, k>>}

(* The caller assigns through the reference.                               *)
Assign(v) ==
  /\ \E m \in Maps, k \in Keys : denoted = {<<m, k>>} /\ Put(m, k, v)
  /\ UNCHANGED denoted

Erase(m, k) ==
  /\ dict' = [dict EXCEPT ![m] = [j \in DOMAIN @ \ {k} |-> @[j]]]
  /\ denoted' = denoted \ {<<m, k>>}

(* The places of the reference that are not in ms.                         *)
Outside(ms) == {p \in denoted : p[1] \notin ms}

Clear(m) ==
  /\ dict' = [dict EXCEPT ![m] = Empty]
  /\ denoted' = Outside({m})

Copy(m, other) ==
  /\ dict' = [dict EXCEPT ![m] = dict[other]]
  /\ denoted' = Outside({m})

Move(m, other) ==
  /\ dict' = [dict EXCEPT ![m] = dict[other], ![other] = Empty]
  /\ denoted' = Outside({m, other})
                  \cup {<<m, p[2]>> : p \in denoted \ Outside({other})}

Next ==
  \/ \E m \in Maps, k \in Keys :
       Refer(m, k) \/ Erase(m, k) \/ \E v \in Values : Insert(m, k, v)
  \/ \E v \in Values : Assign(v)
  \/ \E m \in Maps : Clear(m)
  \/ \E m, other \in Maps : m # other /\ (Copy(m, other) \/ Move(m, other))

Spec == Init /\ [][Next]_vars
=============================================================================
