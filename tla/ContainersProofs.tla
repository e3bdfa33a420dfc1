-------------------------- MODULE ContainersProofs --------------------------
(***************************************************************************)
(* The containers, for any number of stacks and maps, any keys and values  *)
(* and any number of elements.                                             *)
(***************************************************************************)
EXTENDS Stack, UnorderedMap, TLAPS

StackTyped ==
  /\ pushed \in Nat
  /\ elems \in [Stacks -> Seq(Nat)]

LEMMA InStack ==
  ASSUME NEW s \in Stacks, NEW x \in ToSet(elems[s])
  PROVE  x \in Held
BY DEF Held

LEMMA StackTypedNext == StackTyped /\ [StackNext]_stackVars => StackTyped'
<1> SUFFICES ASSUME StackTyped, [StackNext]_stackVars PROVE StackTyped'
  OBVIOUS
<1> USE DEF StackTyped
<1>1. CASE UNCHANGED stackVars
  BY <1>1 DEF stackVars
<1>2. ASSUME NEW s \in Stacks, Push(s) PROVE StackTyped'
  BY <1>2 DEF Push
<1>3. ASSUME NEW s \in Stacks, Pop(s) PROVE StackTyped'
  <2>1. elems[s] \in Seq(Nat) /\ elems[s] # <<>>
    BY <1>3 DEF Pop
  <2>2. Front(elems[s]) \in Seq(Nat)
    <3>1. Len(elems[s]) - 1 \in Nat
      BY <2>1
    <3>2. \A i \in 1 .. Len(elems[s]) - 1 : elems[s][i] \in Nat
      BY <2>1
    <3> QED
      BY <2>1, <3>1, <3>2 DEF Front
  <2> QED
    BY <1>3, <2>2 DEF Pop
<1>4. ASSUME NEW s \in Stacks, NEW es \in Seq(Nat), Replace(s, es)
      PROVE  StackTyped'
  BY <1>4 DEF Replace
<1>5. ASSUME NEW s \in Stacks, Clear(s) PROVE StackTyped'
  <2>1. <<>> \in Seq(Nat)
    OBVIOUS
  <2> QED
    BY <1>5, <2>1 DEF Clear, Replace
<1>6. ASSUME NEW s \in Stacks, NEW other \in Stacks, Copy(s, other)
      PROVE  StackTyped'
  <2>1. elems[other] \in Seq(Nat)
    OBVIOUS
  <2> QED
    BY <1>6, <2>1 DEF Copy, Replace
<1>7. ASSUME NEW s \in Stacks, NEW other \in Stacks, CopyThrows(s, other)
      PROVE  StackTyped'
  <2>1. PICK n \in DOMAIN elems[other] :
          Replace(s, [i \in DOMAIN elems[s] |->
                        IF i < n THEN elems[other][i] ELSE elems[s][i]])
    BY <1>7 DEF CopyThrows
  <2> DEFINE es == [i \in DOMAIN elems[s] |->
                      IF i < n THEN elems[other][i] ELSE elems[s][i]]
  <2>2. /\ elems[s] \in Seq(Nat) /\ elems[other] \in Seq(Nat)
        /\ n \in 1 .. Len(elems[other])
    OBVIOUS
  <2>3. es \in [1 .. Len(elems[s]) -> Nat]
    <3>1. ASSUME NEW i \in 1 .. Len(elems[s]), i < n PROVE elems[other][i] \in Nat
      BY <2>2, <3>1
    <3>2. ASSUME NEW i \in 1 .. Len(elems[s]) PROVE elems[s][i] \in Nat
      BY <2>2
    <3> QED
      BY <2>2, <3>1, <3>2
  <2>4. es \in Seq(Nat)
    BY <2>2, <2>3
  <2> QED
    BY <2>1, <2>4 DEF Replace
<1>8. ASSUME NEW s \in Stacks, NEW other \in Stacks,
             Move(s, other) \/ Swap(s, other)
      PROVE  StackTyped'
  <2>1. /\ elems[s] \in Seq(Nat) /\ elems[other] \in Seq(Nat)
        /\ <<>> \in Seq(Nat)
    OBVIOUS
  <2>2. CASE Move(s, other)
    BY <2>1, <2>2 DEF Move
  <2>3. CASE Swap(s, other)
    BY <2>1, <2>3 DEF Swap
  <2> QED
    BY <1>8, <2>2, <2>3
<1> QED
  BY <1>1, <1>2, <1>3, <1>5, <1>6, <1>7, <1>8 DEF StackNext, PopThrows

(* The contents of one stack alone give way, and are discarded.            *)
LEMMA ReplaceLosesNothing ==
  ASSUME StackTyped, NothingLost, NEW s \in Stacks, NEW es, Replace(s, es)
  PROVE  NothingLost'
<1> SUFFICES ASSUME NEW x \in 1 .. pushed
             PROVE  x \in Held' \cup handed' \cup discarded'
  BY DEF NothingLost, Replace
<1>1. CASE x \in handed \cup discarded
  BY <1>1 DEF Replace
<1>2. ASSUME NEW t \in Stacks, x \in ToSet(elems[t])
      PROVE  x \in Held' \cup discarded'
  <2>1. CASE t = s
    BY <1>2, <2>1 DEF Replace
  <2>2. CASE t # s
    BY <1>2, <2>2 DEF Replace, Held, StackTyped
  <2> QED
    BY <2>1, <2>2
<1> QED
  BY <1>1, <1>2 DEF NothingLost, Held

LEMMA NothingLostNext ==
  StackTyped /\ NothingLost /\ [StackNext]_stackVars => NothingLost'
<1> SUFFICES ASSUME StackTyped, NothingLost, [StackNext]_stackVars
             PROVE  NothingLost'
  OBVIOUS
<1>1. CASE UNCHANGED stackVars
  BY <1>1 DEF stackVars, NothingLost, Held
<1>2. ASSUME NEW s \in Stacks, Push(s) PROVE NothingLost'
  <2>1. ASSUME NEW t \in Stacks PROVE ToSet(elems[t]) \subseteq ToSet(elems'[t])
    BY <1>2 DEF Push, ToSet, StackTyped
  <2>2. pushed + 1 \in ToSet(elems'[s])
    <3>1. /\ elems[s] \in Seq(Nat)
          /\ elems'[s] = Append(elems[s], pushed + 1)
      BY <1>2 DEF Push, StackTyped
    <3>2. /\ elems'[s][Len(elems[s]) + 1] = pushed + 1
          /\ Len(elems[s]) + 1 \in DOMAIN elems'[s]
      BY <3>1 DEF StackTyped
    <3> QED
      BY <3>2 DEF ToSet
  <2>3. Held \cup {pushed + 1} \subseteq Held'
    BY <2>1, <2>2 DEF Held
  <2>4. 1 .. pushed' = (1 .. pushed) \cup {pushed + 1}
    BY <1>2 DEF Push, StackTyped
  <2> QED
    BY <1>2, <2>3, <2>4 DEF Push, NothingLost
<1>3. ASSUME NEW s \in Stacks, Pop(s) PROVE NothingLost'
  <2>1. ToSet(elems[s]) \subseteq ToSet(elems'[s]) \cup {Last(elems[s])}
    <3>1. /\ elems[s] \in Seq(Nat) /\ elems[s] # <<>>
          /\ elems'[s] = SubSeq(elems[s], 1, Len(elems[s]) - 1)
      BY <1>3 DEF Pop, Front, StackTyped
    <3>2. ASSUME NEW i \in DOMAIN elems[s]
          PROVE  \/ elems[s][i] = Last(elems[s])
                 \/ i \in DOMAIN elems'[s] /\ elems'[s][i] = elems[s][i]
      BY <3>1 DEF Last
    <3> QED
      BY <3>2 DEF ToSet
  <2>2. ASSUME NEW t \in Stacks, t # s PROVE elems'[t] = elems[t]
    BY <1>3, <2>2 DEF Pop, StackTyped
  <2>3. Held \subseteq Held' \cup {Last(elems[s])}
    BY <2>1, <2>2 DEF Held
  <2> QED
    BY <1>3, <2>3 DEF Pop, NothingLost
<1>4. ASSUME NEW s \in Stacks,
             Clear(s) \/ (\E other \in Stacks :
                            Copy(s, other) \/ CopyThrows(s, other))
      PROVE  NothingLost'
  BY <1>4, ReplaceLosesNothing DEF Clear, Copy, CopyThrows
<1>5. ASSUME NEW s \in Stacks, NEW other \in Stacks, Move(s, other)
      PROVE  NothingLost'
  <2>1. ASSUME NEW t \in Stacks, NEW x \in ToSet(elems[t])
        PROVE  x \in Held' \cup discarded'
    <3>1. CASE t = s
      BY <1>5, <2>1, <3>1 DEF Move
    <3>2. CASE t = other
      <4>1. elems'[s] = elems[other]
        BY <1>5 DEF Move, StackTyped
      <4> QED
        BY <2>1, <3>2, <4>1 DEF Held
    <3>3. CASE t # s /\ t # other
      <4>1. elems'[t] = elems[t]
        BY <1>5, <3>3 DEF Move, StackTyped
      <4> QED
        BY <2>1, <4>1 DEF Held
    <3> QED
      BY <3>1, <3>2, <3>3
  <2>2. Held \subseteq Held' \cup discarded'
    BY <2>1 DEF Held
  <2> QED
    BY <1>5, <2>2 DEF Move, NothingLost
<1>6. ASSUME NEW s \in Stacks, NEW other \in Stacks, Swap(s, other)
      PROVE  NothingLost'
  <2>1. ASSUME NEW t \in Stacks
        PROVE  \E u \in Stacks : elems'[u] = elems[t]
    BY <1>6 DEF Swap, StackTyped
  <2>2. Held \subseteq Held'
    BY <2>1 DEF Held
  <2> QED
    BY <1>6, <2>2 DEF Swap, NothingLost
<1> QED
  BY <1>1, <1>2, <1>3, <1>4, <1>5, <1>6 DEF StackNext, PopThrows

(***************************************************************************)
(* For any number of stacks: whatever is copied, moved, swapped, assigned  *)
(* to itself or interrupted by an exception, an element that was pushed is *)
(* in a stack, with a caller, or was discarded with its stack.             *)
(***************************************************************************)
THEOREM ElementsAreKept == StackSpec => []NothingLost
<1>1. StackInit => StackTyped /\ NothingLost
  BY DEF StackInit, StackTyped, NothingLost
<1>2. StackTyped /\ NothingLost /\ [StackNext]_stackVars
        => (StackTyped /\ NothingLost)'
  BY StackTypedNext, NothingLostNext
<1> QED
  BY <1>1, <1>2, PTL DEF StackSpec
-----------------------------------------------------------------------------
Tables == UNION {[K -> Elements] : K \in SUBSET Keys}

MapTyped ==
  /\ content \in [Maps -> Tables]
  /\ value \in [Elements -> Values]
  /\ ref \in Elements \cup {NoRef}

(* No element belongs to two entries, and the reference is to an entry.    *)
OneOwner ==
  \A m, n \in Maps : \A k \in DOMAIN content[m], l \in DOMAIN content[n] :
    content[m][k] = content[n][l] => m = n /\ k = l

RefOwned ==
  ref # NoRef => \E m \in Maps : \E k \in DOMAIN content[m] : content[m][k] = ref

MapInv == MapTyped /\ OneOwner /\ RefOwned

LEMMA TableFacts ==
  ASSUME MapTyped, NEW m \in Maps
  PROVE  /\ content[m] \in [DOMAIN content[m] -> Elements]
         /\ DOMAIN content[m] \subseteq Keys
         /\ \A k \in DOMAIN content[m] : content[m][k] \in Elements
BY DEF MapTyped, Tables

LEMMA Belongs ==
  ASSUME NEW ms, NEW e
  PROVE  e \in HeldBy(ms) <=>
           \E m \in ms : \E k \in DOMAIN content[m] : content[m][k] = e
BY DEF HeldBy, Range

(* A new entry, with an element that nobody holds.                         *)
LEMMA Creates ==
  ASSUME MapInv, NEW m \in Maps, NEW k \in Keys, NEW v \in Values,
         Create(m, k, v)
  PROVE  \E e \in Elements :
           /\ e \notin HeldBy(Maps)
           /\ content' \in [Maps -> Tables]
           /\ value' = [value EXCEPT ![e] = v] /\ value' \in [Elements -> Values]
           /\ DOMAIN content'[m] = DOMAIN content[m] \cup {k}
           /\ content'[m][k] = e
           /\ \A j \in DOMAIN content[m] : content'[m][j] = content[m][j]
           /\ \A n \in Maps \ {m} : content'[n] = content[n]
<1> USE DEF MapInv
<1>1. PICK e \in Elements \ HeldBy(Maps) :
        /\ content' = [content EXCEPT ![m] =
                         [j \in DOMAIN content[m] \cup {k} |->
                            IF j = k THEN e ELSE content[m][j]]]
        /\ value' = [value EXCEPT ![e] = v]
  BY DEF Create
<1> DEFINE f == [j \in DOMAIN content[m] \cup {k} |->
                   IF j = k THEN e ELSE content[m][j]]
<1>2. f \in [DOMAIN content[m] \cup {k} -> Elements]
  BY TableFacts
<1>3. f \in Tables
  BY <1>2, TableFacts DEF Tables
<1>4. content' \in [Maps -> Tables] /\ content'[m] = f
  BY <1>1, <1>3 DEF MapTyped
<1>5. value' \in [Elements -> Values]
  BY <1>1 DEF MapTyped
<1>6. k \notin DOMAIN content[m]
  BY DEF Create
<1>7. \A n \in Maps \ {m} : content'[n] = content[n]
  BY <1>1 DEF MapTyped
<1> QED
  BY <1>1, <1>4, <1>5, <1>6, <1>7

LEMMA CreateKeeps ==
  ASSUME MapInv, NEW m \in Maps, NEW k \in Keys, NEW v \in Values,
         Create(m, k, v)
  PROVE  /\ OneOwner'
         /\ \A n \in Maps : \A j \in DOMAIN content[n] :
              j \in DOMAIN content'[n] /\ content'[n][j] = content[n][j]
         /\ content'[m][k] \in Elements /\ k \in DOMAIN content'[m]
         /\ content'[m][k] \notin HeldBy(Maps)
         /\ Promise!Put(m, k, v)
<1> USE DEF MapInv
<1>1. PICK e \in Elements :
           /\ e \notin HeldBy(Maps)
           /\ content' \in [Maps -> Tables]
           /\ value' = [value EXCEPT ![e] = v] /\ value' \in [Elements -> Values]
           /\ DOMAIN content'[m] = DOMAIN content[m] \cup {k}
           /\ content'[m][k] = e
           /\ \A j \in DOMAIN content[m] : content'[m][j] = content[m][j]
           /\ \A n \in Maps \ {m} : content'[n] = content[n]
  BY Creates
<1>2. ASSUME NEW n \in Maps, NEW j \in DOMAIN content[n]
      PROVE  content[n][j] # e /\ content[n][j] \in Elements
  BY <1>1, TableFacts, Belongs
<1>3. k \notin DOMAIN content[m]
  BY DEF Create
<1>4. ASSUME NEW n \in Maps, NEW j \in DOMAIN content'[n]
      PROVE  \/ n = m /\ j = k /\ content'[n][j] = e
             \/ j \in DOMAIN content[n] /\ content'[n][j] = content[n][j]
  BY <1>1
<1>5. OneOwner'
  <2> SUFFICES ASSUME NEW n \in Maps, NEW o \in Maps,
                      NEW j \in DOMAIN content'[n], NEW l \in DOMAIN content'[o],
                      content'[n][j] = content'[o][l]
               PROVE  n = o /\ j = l
    BY DEF OneOwner
  <2>1. CASE n = m /\ j = k /\ content'[n][j] = e
    BY <1>2, <1>4, <2>1
  <2>2. CASE o = m /\ l = k /\ content'[o][l] = e
    BY <1>2, <1>4, <2>2
  <2>3. CASE /\ j \in DOMAIN content[n] /\ content'[n][j] = content[n][j]
             /\ l \in DOMAIN content[o] /\ content'[o][l] = content[o][l]
    <3>1. content[n][j] = content[o][l]
      BY <2>3
    <3>2. OneOwner
      OBVIOUS
    <3> QED
      BY <2>3, <3>1, <3>2 DEF OneOwner
  <2> QED
    BY <1>4, <2>1, <2>2, <2>3
<1>6. ASSUME NEW n \in Maps, NEW j \in DOMAIN content[n]
      PROVE  value'[content[n][j]] = value[content[n][j]]
  BY <1>1, <1>2 DEF MapTyped
<1>7. \A n \in Maps \ {m} :
        [j \in DOMAIN content'[n] |-> value'[content'[n][j]]] = Seen(content[n])
  BY <1>1, <1>6 DEF Seen
<1>8. [j \in DOMAIN content'[m] |-> value'[content'[m][j]]]
        = [j \in DOMAIN content[m] \cup {k} |->
             IF j = k THEN v ELSE value[content[m][j]]]
  <2>1. value'[e] = v
    BY <1>1 DEF MapTyped
  <2> QED
    BY <1>1, <1>3, <1>6, <2>1
<1>9. Promise!Put(m, k, v)
  <2> DEFINE D == [n \in Maps |-> Seen(content[n])]
  <2>1. DOMAIN Seen(content[m]) = DOMAIN content[m]
    BY DEF Seen
  <2>2. Promise!Entry(D[m], k, v)
          = [j \in DOMAIN content[m] \cup {k} |->
               IF j = k THEN v ELSE value[content[m][j]]]
    BY <2>1 DEF Promise!Entry, Seen
  <2>3. [n \in Maps |-> [j \in DOMAIN content'[n] |-> value'[content'[n][j]]]]
          = [D EXCEPT ![m] = Promise!Entry(D[m], k, v)]
    BY <1>7, <1>8, <2>2
  <2> QED
    BY <2>3 DEF Promise!Put, Seen
<1> QED
  BY <1>1, <1>5, <1>9

(* An entry is the only place of its element.                              *)
LEMMA OnePlace ==
  ASSUME NEW c, NEW m \in Maps, NEW k \in Keys, k \in DOMAIN c[m],
         \A n, o \in Maps : \A j \in DOMAIN c[n], l \in DOMAIN c[o] :
           c[n][j] = c[o][l] => n = o /\ j = l
  PROVE  {p \in Maps \X Keys : p[2] \in DOMAIN c[p[1]] /\ c[p[1]][p[2]] = c[m][k]}
           = {<<m, k>>}
<1> DEFINE P == {p \in Maps \X Keys :
                   p[2] \in DOMAIN c[p[1]] /\ c[p[1]][p[2]] = c[m][k]}
<1>1. <<m, k>> \in P
  OBVIOUS
<1>2. ASSUME NEW p \in P PROVE p = <<m, k>>
  <2>1. /\ p \in Maps \X Keys /\ p[1] \in Maps /\ p[2] \in DOMAIN c[p[1]]
        /\ c[p[1]][p[2]] = c[m][k]
    OBVIOUS
  <2>2. p[1] = m /\ p[2] = k
    BY <2>1
  <2> QED
    BY <2>1, <2>2
<1> QED
  BY <1>1, <1>2

LEMMA CreateInserts ==
  ASSUME MapInv, NEW m \in Maps, NEW k \in Keys, NEW v \in Values,
         Create(m, k, v), UNCHANGED ref
  PROVE  MapInv' /\ Promise!Insert(m, k, v)
<1> USE DEF MapInv
<1>1. /\ OneOwner'
      /\ \A n \in Maps : \A j \in DOMAIN content[n] :
           j \in DOMAIN content'[n] /\ content'[n][j] = content[n][j]
      /\ content'[m][k] \in Elements /\ k \in DOMAIN content'[m]
      /\ content'[m][k] \notin HeldBy(Maps)
      /\ Promise!Put(m, k, v)
  BY CreateKeeps
<1>2. /\ content' \in [Maps -> Tables] /\ value' \in [Elements -> Values]
      /\ DOMAIN content'[m] = DOMAIN content[m] \cup {k}
      /\ \A n \in Maps \ {m} : content'[n] = content[n]
  BY Creates
<1>3. MapTyped'
  BY <1>2 DEF MapTyped
<1>4. RefOwned'
  BY <1>1 DEF RefOwned
<1>5. content'[m][k] # ref
  BY <1>1, Belongs, MapAssumption DEF RefOwned
<1>6. Places' = Places
  BY <1>1, <1>2, <1>5 DEF Places
<1> QED
  BY <1>1, <1>3, <1>4, <1>6 DEF Promise!Insert

(* A write to one entry, whoever finds its element and how.                *)
LEMMA Writes ==
  ASSUME MapInv, NEW m \in Maps, NEW k \in DOMAIN content[m], NEW v \in Values,
         value' = [value EXCEPT ![content[m][k]] = v], UNCHANGED <<content, ref>>
  PROVE  MapInv' /\ Promise!Insert(m, k, v)
<1> USE DEF MapInv
<1>1. MapInv'
  <2>1. value' \in [Elements -> Values]
    BY TableFacts DEF MapTyped
  <2>2. MapTyped'
    BY <2>1 DEF MapTyped
  <2>3. OneOwner' /\ RefOwned'
    BY DEF OneOwner, RefOwned
  <2> QED
    BY <2>2, <2>3
<1>2. ASSUME NEW n \in Maps, NEW j \in DOMAIN content[n], n # m \/ j # k
      PROVE  value'[content[n][j]] = value[content[n][j]]
  <2>1. content[n][j] # content[m][k]
    BY <1>2 DEF OneOwner
  <2> QED
    BY <2>1, TableFacts DEF MapTyped
<1>3. value'[content[m][k]] = v
  BY TableFacts DEF MapTyped
<1> DEFINE D == [n \in Maps |-> Seen(content[n])]
<1>4. DOMAIN Seen(content[m]) = DOMAIN content[m]
  BY DEF Seen
<1>5. [j \in DOMAIN content[m] |-> value'[content[m][j]]] = Promise!Entry(D[m], k, v)
  BY <1>2, <1>3, <1>4 DEF Promise!Entry, Seen
<1>6. \A n \in Maps \ {m} :
        [j \in DOMAIN content[n] |-> value'[content[n][j]]] = D[n]
  BY <1>2 DEF Seen
<1>7. [n \in Maps |-> [j \in DOMAIN content[n] |-> value'[content[n][j]]]]
        = [D EXCEPT ![m] = Promise!Entry(D[m], k, v)]
  <2> DEFINE E == Promise!Entry(D[m], k, v)
  <2>1. ASSUME NEW n \in Maps
        PROVE  [j \in DOMAIN content[n] |-> value'[content[n][j]]]
                 = IF n = m THEN E ELSE D[n]
    BY <1>5, <1>6
  <2>2. [D EXCEPT ![m] = E] = [n \in Maps |-> IF n = m THEN E ELSE D[n]]
    OBVIOUS
  <2> QED
    BY <2>1, <2>2
<1>8. Promise!Put(m, k, v)
  BY <1>7 DEF Promise!Put, Seen
<1>9. Places' = Places
  BY DEF Places
<1> QED
  BY <1>1, <1>8, <1>9 DEF Promise!Insert

LEMMA InsertSimulates ==
  ASSUME MapInv, NEW m \in Maps, NEW k \in Keys, NEW v \in Values, Insert(m, k, v)
  PROVE  MapInv' /\ Promise!Insert(m, k, v)
<1>1. CASE Create(m, k, v)
  BY <1>1, CreateInserts DEF Insert
<1>2. CASE /\ k \in DOMAIN content[m]
           /\ value' = [value EXCEPT ![content[m][k]] = v]
           /\ UNCHANGED content
  BY <1>2, Writes DEF Insert
<1> QED
  BY <1>1, <1>2 DEF Insert

LEMMA AssignSimulates ==
  ASSUME MapInv, NEW v \in Values, Assign(v)
  PROVE  MapInv' /\ Promise!Assign(v)
<1> USE DEF MapInv
<1>1. PICK m \in Maps : \E k \in DOMAIN content[m] : content[m][k] = ref
  BY DEF Assign, RefOwned
<1>2. PICK k \in DOMAIN content[m] : content[m][k] = ref
  BY <1>1
<1>3. MapInv' /\ Promise!Insert(m, k, v)
  BY <1>2, Writes DEF Assign
<1>4. k \in Keys
  BY TableFacts
<1>5. Places = {<<m, k>>}
  BY <1>2, <1>4, OnePlace DEF OneOwner, Places
<1> QED
  BY <1>3, <1>4, <1>5 DEF Promise!Insert, Promise!Assign

LEMMA SubscriptSimulates ==
  ASSUME MapInv, NEW m \in Maps, NEW k \in Keys, Subscript(m, k)
  PROVE  MapInv' /\ Promise!Refer(m, k)
<1> USE DEF MapInv
<1> DEFINE D == [n \in Maps |-> Seen(content[n])]
<1>1. DOMAIN D[m] = DOMAIN content[m]
  BY DEF Seen
<1>2. CASE Create(m, k, Default)
  <2>1. /\ OneOwner' /\ k \in DOMAIN content'[m]
        /\ content'[m][k] \in Elements /\ Promise!Put(m, k, Default)
    BY <1>2, CreateKeeps, MapAssumption
  <2>2. content' \in [Maps -> Tables] /\ value' \in [Elements -> Values]
    BY <1>2, Creates, MapAssumption
  <2>3. ref' = content'[m][k]
    BY DEF Subscript
  <2>4. MapInv'
    BY <2>1, <2>2, <2>3 DEF MapTyped, RefOwned
  <2>5. Places' = {<<m, k>>}
    BY <2>1, <2>3, OnePlace DEF OneOwner, Places
  <2>6. k \notin DOMAIN D[m]
    BY <1>1, <1>2 DEF Create
  <2> QED
    BY <2>1, <2>4, <2>5, <2>6 DEF Promise!Refer
<1>3. CASE k \in DOMAIN content[m] /\ UNCHANGED <<content, value>>
  <2>1. ref' = content[m][k] /\ content[m][k] \in Elements
    BY <1>3, TableFacts DEF Subscript
  <2>2. MapInv'
    BY <1>3, <2>1 DEF MapTyped, OneOwner, RefOwned
  <2>3. Places' = {<<m, k>>}
    BY <1>3, <2>1, OnePlace DEF OneOwner, Places
  <2>4. D' = D
    BY <1>3 DEF Seen
  <2> QED
    BY <1>1, <1>3, <2>2, <2>3, <2>4 DEF Promise!Refer
<1> QED
  BY <1>2, <1>3 DEF Subscript

LEMMA EraseSimulates ==
  ASSUME MapInv, NEW m \in Maps, NEW k \in Keys, Erase(m, k)
  PROVE  MapInv' /\ Promise!Erase(m, k)
<1> USE DEF MapInv
<1> DEFINE f == [j \in DOMAIN content[m] \ {k} |-> content[m][j]]
           D == [n \in Maps |-> Seen(content[n])]
<1>1. /\ k \in DOMAIN content[m] /\ UNCHANGED value
      /\ content' = [content EXCEPT ![m] = f]
      /\ ref' = IF ref = content[m][k] THEN NoRef ELSE ref
  BY DEF Erase, Restrict, Destroyed
<1>2. f \in Tables
  <2>1. f \in [DOMAIN content[m] \ {k} -> Elements]
    BY TableFacts
  <2> QED
    BY <2>1, TableFacts DEF Tables
<1>3. /\ content' \in [Maps -> Tables] /\ content'[m] = f
      /\ \A n \in Maps \ {m} : content'[n] = content[n]
  BY <1>1, <1>2 DEF MapTyped
<1>4. MapTyped'
  BY <1>1, <1>3 DEF MapTyped
<1>5. ASSUME NEW n \in Maps, NEW j
      PROVE  /\ j \in DOMAIN content'[n]
                  <=> j \in DOMAIN content[n] /\ ~(n = m /\ j = k)
             /\ j \in DOMAIN content'[n] => content'[n][j] = content[n][j]
  BY <1>3
<1>6. OneOwner'
  BY <1>5 DEF OneOwner
<1>7. ASSUME NEW n \in Maps, NEW j \in DOMAIN content'[n]
      PROVE  content'[n][j] = ref' <=> content[n][j] = ref
  <2>1. /\ content'[n][j] = content[n][j] /\ j \in DOMAIN content[n]
        /\ ~(n = m /\ j = k)
    BY <1>5
  <2>2. content[n][j] # content[m][k] /\ content[n][j] # NoRef
    BY <1>1, <2>1, TableFacts, MapAssumption DEF OneOwner
  <2> QED
    BY <1>1, <2>1, <2>2
<1>8. RefOwned'
  <2> SUFFICES ASSUME ref' # NoRef
               PROVE  \E n \in Maps : \E j \in DOMAIN content'[n] :
                        content'[n][j] = ref'
    BY DEF RefOwned
  <2>1. ref' = ref /\ ref # content[m][k] /\ ref # NoRef
    BY <1>1
  <2>2. PICK n \in Maps : \E j \in DOMAIN content[n] : content[n][j] = ref
    BY <2>1 DEF RefOwned
  <2>3. PICK j \in DOMAIN content[n] : content[n][j] = ref
    BY <2>2
  <2>4. j \in DOMAIN content'[n]
    BY <1>5, <2>1, <2>3
  <2> QED
    BY <1>7, <2>3, <2>4
<1>9. Places' = Places \ {<<m, k>>}
  <2>1. ASSUME NEW p \in Maps \X Keys
        PROVE  p \in Places' <=> p \in Places /\ p # <<m, k>>
    <3>1. p[1] \in Maps /\ (p = <<m, k>> <=> p[1] = m /\ p[2] = k)
      OBVIOUS
    <3> QED
      BY <1>5, <1>7, <3>1 DEF Places
  <2> QED
    BY <2>1 DEF Places
<1>10. Promise!Erase(m, k)
  <2>1. DOMAIN D[m] = DOMAIN content[m]
    BY DEF Seen
  <2>2. [j \in DOMAIN content'[m] |-> value'[content'[m][j]]]
          = [j \in DOMAIN D[m] \ {k} |-> D[m][j]]
    BY <1>1, <1>3, <2>1 DEF Seen
  <2>3. \A n \in Maps \ {m} :
          [j \in DOMAIN content'[n] |-> value'[content'[n][j]]] = D[n]
    BY <1>1, <1>3 DEF Seen
  <2>4. [n \in Maps |-> [j \in DOMAIN content'[n] |-> value'[content'[n][j]]]]
          = [D EXCEPT ![m] = [j \in DOMAIN D[m] \ {k} |-> D[m][j]]]
    BY <2>2, <2>3
  <2> QED
    BY <1>9, <2>4 DEF Promise!Erase, Seen
<1> QED
  BY <1>4, <1>6, <1>8, <1>10

(* The table of one map gives way to another, which shares no element with
   those of the other maps.                                                *)
LEMMA Refills ==
  ASSUME MapInv, NEW m \in Maps, NEW f \in Tables,
         content' = [content EXCEPT ![m] = f],
         Destroyed(HeldBy({m})),
         value' \in [Elements -> Values],
         \A e \in HeldBy(Maps \ {m}) : value'[e] = value[e],
         \A k, l \in DOMAIN f :
           f[k] \notin HeldBy(Maps \ {m}) /\ (f[k] = f[l] => k = l)
  PROVE  /\ MapInv'
         /\ Places' = {p \in Places : p[1] \notin {m}}
         /\ [n \in Maps |-> Seen(content[n])]'
              = [[n \in Maps |-> Seen(content[n])] EXCEPT
                   ![m] = [k \in DOMAIN f |-> value'[f[k]]]]
<1> USE DEF MapInv
<1>1. /\ content' \in [Maps -> Tables] /\ content'[m] = f
      /\ \A n \in Maps \ {m} : content'[n] = content[n]
  BY DEF MapTyped
<1>2. ref' = IF ref \in HeldBy({m}) THEN NoRef ELSE ref
  BY DEF Destroyed
<1>3. ASSUME NEW n \in Maps \ {m}, NEW j \in DOMAIN content[n]
      PROVE  /\ content[n][j] \in HeldBy(Maps \ {m})
             /\ content[n][j] \notin HeldBy({m})
             /\ content[n][j] # NoRef
  BY TableFacts, Belongs, MapAssumption DEF OneOwner
<1>4. \A k \in DOMAIN f : f[k] # NoRef
  BY MapAssumption DEF Tables
<1>5. ref' \in HeldBy(Maps \ {m}) \cup {NoRef}
  BY <1>2, Belongs DEF RefOwned
<1>6. MapTyped'
  BY <1>1, <1>2 DEF MapTyped
<1>7. OneOwner'
  <2> SUFFICES ASSUME NEW n \in Maps, NEW o \in Maps,
                      NEW j \in DOMAIN content'[n], NEW l \in DOMAIN content'[o],
                      content'[n][j] = content'[o][l]
               PROVE  n = o /\ j = l
    BY DEF OneOwner
  <2>1. CASE n = m /\ o = m
    BY <1>1, <2>1
  <2>2. CASE n = m /\ o # m
    BY <1>1, <1>3, <2>2
  <2>3. CASE n # m /\ o = m
    BY <1>1, <1>3, <2>3
  <2>4. CASE n # m /\ o # m
    BY <1>1, <2>4 DEF OneOwner
  <2> QED
    BY <2>1, <2>2, <2>3, <2>4
<1>8. RefOwned'
  <2> SUFFICES ASSUME ref' # NoRef
               PROVE  \E n \in Maps : \E j \in DOMAIN content'[n] :
                        content'[n][j] = ref'
    BY DEF RefOwned
  <2>1. ref' \in HeldBy(Maps \ {m})
    BY <1>5
  <2>2. PICK n \in Maps \ {m} : \E j \in DOMAIN content[n] : content[n][j] = ref'
    BY <2>1, Belongs
  <2> QED
    BY <1>1, <2>2
<1>9. Places' = {p \in Places : p[1] \notin {m}}
  <2>1. ASSUME NEW p \in Maps \X Keys
        PROVE  p \in Places' <=> p \in Places /\ p[1] # m
    <3>1. CASE p[1] = m
      BY <1>1, <1>4, <1>5, <3>1 DEF Places
    <3>2. CASE p[1] # m
      <4>1. p[1] \in Maps \ {m} /\ content'[p[1]] = content[p[1]]
        BY <1>1, <3>2
      <4>2. ASSUME p[2] \in DOMAIN content[p[1]]
            PROVE  content[p[1]][p[2]] = ref' <=> content[p[1]][p[2]] = ref
        <5>1. PICK n \in Maps \ {m} : n = p[1]
          BY <4>1
        <5>2. PICK j \in DOMAIN content[n] : j = p[2]
          BY <4>2, <5>1
        <5>3. content[n][j] \notin HeldBy({m}) /\ content[n][j] # NoRef
          BY <1>3
        <5>4. content[n][j] = ref' <=> content[n][j] = ref
          BY <1>2, <5>3
        <5> QED
          BY <5>1, <5>2, <5>4
      <4> QED
        BY <3>2, <4>1, <4>2 DEF Places
    <3> QED
      BY <3>1, <3>2
  <2> QED
    BY <2>1 DEF Places
<1>10. ASSUME NEW n \in Maps
       PROVE  [j \in DOMAIN content'[n] |-> value'[content'[n][j]]]
                = IF n = m THEN [k \in DOMAIN f |-> value'[f[k]]]
                  ELSE Seen(content[n])
  BY <1>1, <1>3 DEF Seen
<1> DEFINE D == [n \in Maps |-> Seen(content[n])]
<1>11. [n \in Maps |-> [j \in DOMAIN content'[n] |-> value'[content'[n][j]]]]
         = [D EXCEPT ![m] = [k \in DOMAIN f |-> value'[f[k]]]]
  BY <1>10
<1>12. D' = [D EXCEPT ![m] = [k \in DOMAIN f |-> value'[f[k]]]]
  BY <1>11 DEF Seen
<1> QED
  BY <1>6, <1>7, <1>8, <1>9, <1>12

LEMMA NoEntriesFits ==
  /\ NoEntries \in Tables
  /\ DOMAIN NoEntries = {}
  /\ \A g : DOMAIN g = {} => [k \in DOMAIN g |-> g[k]] = Promise!Empty
<1>1. NoEntries \in [{} -> Elements]
  BY DEF NoEntries
<1> QED
  BY <1>1 DEF Tables, NoEntries, Promise!Empty

LEMMA ClearSimulates ==
  ASSUME MapInv, NEW m \in Maps, ClearMap(m)
  PROVE  MapInv' /\ Promise!Clear(m)
<1> DEFINE D == [n \in Maps |-> Seen(content[n])]
<1>1. /\ NoEntries \in Tables /\ DOMAIN NoEntries = {}
      /\ content' = [content EXCEPT ![m] = NoEntries]
      /\ Destroyed(HeldBy({m})) /\ UNCHANGED value
  BY NoEntriesFits DEF ClearMap
<1>2. value' \in [Elements -> Values]
  BY <1>1 DEF MapInv, MapTyped
<1>3. /\ MapInv' /\ Places' = {p \in Places : p[1] \notin {m}}
      /\ D' = [D EXCEPT ![m] = [k \in DOMAIN NoEntries |-> value'[NoEntries[k]]]]
  BY <1>1, <1>2, Refills
<1>4. [k \in DOMAIN NoEntries |-> value'[NoEntries[k]]] = Promise!Empty
  BY <1>1 DEF Promise!Empty
<1> QED
  BY <1>3, <1>4 DEF Promise!Clear, Promise!Outside

LEMMA CopySimulates ==
  ASSUME MapInv, NEW m \in Maps, NEW other \in Maps, CopyMap(m, other)
  PROVE  MapInv' /\ Promise!Copy(m, other)
<1> DEFINE D == [n \in Maps |-> Seen(content[n])]
<1>1. PICK f \in Injection(DOMAIN content[other], Elements \ HeldBy(Maps \ {m})) :
        /\ content' = [content EXCEPT ![m] = f]
        /\ value' = [e \in Elements |->
                      IF \E k \in DOMAIN f : f[k] = e
                      THEN value[content[other][CHOOSE k \in DOMAIN f : f[k] = e]]
                      ELSE value[e]]
  BY DEF CopyMap
<1>2. /\ f \in [DOMAIN content[other] -> Elements \ HeldBy(Maps \ {m})]
      /\ \A k, l \in DOMAIN f : f[k] = f[l] => k = l
  BY DEF Injection, IsInjective
<1>3. f \in Tables
  <2>1. f \in [DOMAIN content[other] -> Elements]
    BY <1>2
  <2> QED
    BY <2>1, TableFacts DEF Tables, MapInv
<1>4. ASSUME NEW k \in DOMAIN f PROVE value'[f[k]] = value[content[other][k]]
  <2>1. f[k] \in Elements /\ \E l \in DOMAIN f : f[l] = f[k]
    BY <1>2
  <2>2. (CHOOSE l \in DOMAIN f : f[l] = f[k]) = k
    BY <1>2
  <2> QED
    BY <1>1, <2>1, <2>2
<1>5. \A e \in HeldBy(Maps \ {m}) : value'[e] = value[e]
  <2> SUFFICES ASSUME NEW e \in HeldBy(Maps \ {m}) PROVE value'[e] = value[e]
    OBVIOUS
  <2>1. e \in Elements
    BY Belongs, TableFacts DEF MapInv
  <2>2. ~ \E k \in DOMAIN f : f[k] = e
    BY <1>2
  <2> QED
    BY <1>1, <2>1, <2>2
<1>6. value' \in [Elements -> Values]
  <2>1. ASSUME NEW e \in Elements PROVE value'[e] \in Values
    <3>1. CASE \E k \in DOMAIN f : f[k] = e
      <4>1. PICK k \in DOMAIN f : f[k] = e
        BY <3>1
      <4>2. content[other][k] \in Elements
        BY <1>2, TableFacts DEF MapInv
      <4> QED
        BY <1>4, <4>1, <4>2 DEF MapInv, MapTyped
    <3>2. CASE ~ \E k \in DOMAIN f : f[k] = e
      BY <1>1, <3>2 DEF MapInv, MapTyped
    <3> QED
      BY <3>1, <3>2
  <2> QED
    BY <1>1, <2>1
<1>7. /\ MapInv' /\ Places' = {p \in Places : p[1] \notin {m}}
      /\ D' = [D EXCEPT ![m] = [k \in DOMAIN f |-> value'[f[k]]]]
  <2>1. \A k, l \in DOMAIN f :
          f[k] \notin HeldBy(Maps \ {m}) /\ (f[k] = f[l] => k = l)
    BY <1>2
  <2>2. content' = [content EXCEPT ![m] = f] /\ Destroyed(HeldBy({m}))
    BY <1>1 DEF CopyMap
  <2> HIDE DEF D
  <2>3. /\ MapInv' /\ Places' = {p \in Places : p[1] \notin {m}}
        /\ [n \in Maps |-> Seen(content[n])]'
             = [[n \in Maps |-> Seen(content[n])] EXCEPT
                  ![m] = [k \in DOMAIN f |-> value'[f[k]]]]
    BY <1>3, <1>5, <1>6, <2>1, <2>2, Refills
  <2> QED
    BY <2>3 DEF D
<1>8. [k \in DOMAIN f |-> value'[f[k]]] = D[other]
  BY <1>2, <1>4 DEF Seen
<1> QED
  BY <1>7, <1>8 DEF Promise!Copy, Promise!Outside

LEMMA MoveSimulates ==
  ASSUME MapInv, NEW m \in Maps, NEW other \in Maps, MoveMap(m, other)
  PROVE  MapInv' /\ Promise!Move(m, other)
<1> USE DEF MapInv
<1> DEFINE D == [n \in Maps |-> Seen(content[n])]
           From(n) == IF n = m THEN other ELSE n
<1>1. /\ m # other /\ UNCHANGED value
      /\ content' = [content EXCEPT ![m] = content[other], ![other] = NoEntries]
      /\ ref' = IF ref \in HeldBy({m}) THEN NoRef ELSE ref
  BY DEF MoveMap, Destroyed
<1>2. /\ content' \in [Maps -> Tables] /\ DOMAIN content'[other] = {}
      /\ \A n \in Maps \ {other} :
           content'[n] = content[From(n)] /\ From(n) \in Maps \ {m}
  BY <1>1, NoEntriesFits DEF MapTyped
<1>3. MapTyped'
  BY <1>1, <1>2 DEF MapTyped
<1>4. OneOwner'
  <2> SUFFICES ASSUME NEW n \in Maps, NEW o \in Maps,
                      NEW j \in DOMAIN content'[n], NEW l \in DOMAIN content'[o],
                      content'[n][j] = content'[o][l]
               PROVE  n = o /\ j = l
    BY DEF OneOwner
  <2>1. n # other /\ o # other
    BY <1>2
  <2>2. From(n) = From(o) /\ j = l
    BY <1>2, <2>1 DEF OneOwner
  <2> QED
    BY <2>1, <2>2
<1>5. ASSUME NEW n \in Maps \ {m}, NEW j \in DOMAIN content[n]
      PROVE  content[n][j] = ref' <=> content[n][j] = ref
  <2>1. content[n][j] \notin HeldBy({m}) /\ content[n][j] # NoRef
    BY TableFacts, Belongs, MapAssumption DEF OneOwner
  <2> QED
    BY <1>1, <2>1
<1>6. RefOwned'
  <2> SUFFICES ASSUME ref' # NoRef
               PROVE  \E n \in Maps : \E j \in DOMAIN content'[n] :
                        content'[n][j] = ref'
    BY DEF RefOwned
  <2>1. ref' = ref /\ ref \notin HeldBy({m}) /\ ref # NoRef
    BY <1>1
  <2>2. PICK n \in Maps \ {m} : \E j \in DOMAIN content[n] : content[n][j] = ref
    BY <2>1, Belongs DEF RefOwned
  <2>3. CASE n = other
    BY <1>2, <2>1, <2>2, <2>3
  <2>4. CASE n # other
    BY <1>2, <2>1, <2>2, <2>4
  <2> QED
    BY <2>3, <2>4
<1>7. Places' = {p \in Places : p[1] \notin {m, other}}
                \cup {<<m, p[2]>> : p \in Places \ {q \in Places : q[1] \notin {other}}}
  <2> DEFINE R == {p \in Places : p[1] \notin {m, other}}
                  \cup {<<m, p[2]>> :
                          p \in Places \ {q \in Places : q[1] \notin {other}}}
  <2>1. ASSUME NEW n \in Maps, NEW j \in Keys
        PROVE  <<n, j>> \in Places' <=> n # other /\ <<From(n), j>> \in Places
    <3>1. CASE n = other
      BY <1>2, <3>1 DEF Places
    <3>2. CASE n # other
      <4>1. From(n) \in Maps \ {m} /\ content'[n] = content[From(n)]
        BY <1>2, <3>2
      <4>2. \A l \in DOMAIN content[From(n)] :
              content[From(n)][l] = ref' <=> content[From(n)][l] = ref
        BY <1>5, <4>1
      <4> QED
        BY <3>2, <4>1, <4>2 DEF Places
    <3> QED
      BY <3>1, <3>2
  <2>2. ASSUME NEW n \in Maps, NEW j \in Keys
        PROVE  <<n, j>> \in R <=> n # other /\ <<From(n), j>> \in Places
    <3>1. CASE n = m
      <4>1. <<n, j>> \in R <=> \E p \in Places : p[1] = other /\ <<m, p[2]>> = <<m, j>>
        BY <3>1
      <4>2. \A p \in Places : p = <<p[1], p[2]>>
        BY DEF Places
      <4>3. (\E p \in Places : p[1] = other /\ <<m, p[2]>> = <<m, j>>)
              <=> <<other, j>> \in Places
        BY <4>2
      <4> QED
        BY <1>1, <3>1, <4>1, <4>3
    <3>2. CASE n # m
      BY <3>2
    <3> QED
      BY <3>1, <3>2
  <2>3. Places' \subseteq Maps \X Keys /\ R \subseteq Maps \X Keys
    BY DEF Places
  <2>4. ASSUME NEW p \in Maps \X Keys PROVE p \in Places' <=> p \in R
    <3>1. PICK n \in Maps, j \in Keys : p = <<n, j>>
      OBVIOUS
    <3> HIDE DEF R, From
    <3> QED
      BY <2>1, <2>2, <3>1
  <2>5. Places' = R
    <3> HIDE DEF R
    <3> QED
      BY <2>3, <2>4
  <2> QED
    BY <2>5
<1>8. D' = [D EXCEPT ![m] = D[other], ![other] = Promise!Empty]
  <2>1. ASSUME NEW n \in Maps
        PROVE  [j \in DOMAIN content'[n] |-> value'[content'[n][j]]]
                 = IF n = other THEN Promise!Empty
                   ELSE IF n = m THEN D[other] ELSE D[n]
    <3>1. CASE n = other
      BY <1>2, <3>1 DEF Promise!Empty
    <3>2. CASE n # other
      BY <1>1, <1>2, <3>2 DEF Seen
    <3> QED
      BY <3>1, <3>2
  <2>2. [n \in Maps |-> [j \in DOMAIN content'[n] |-> value'[content'[n][j]]]]
          = [D EXCEPT ![m] = D[other], ![other] = Promise!Empty]
    BY <1>1, <2>1
  <2> QED
    BY <2>2 DEF Seen
<1> QED
  BY <1>3, <1>4, <1>6, <1>7, <1>8 DEF Promise!Move, Promise!Outside

LEMMA MapSimulates ==
  MapInv /\ [MapNext]_mapVars => MapInv' /\ [Promise!Next]_(Promise!vars)
<1> SUFFICES ASSUME MapInv, [MapNext]_mapVars
             PROVE  MapInv' /\ [Promise!Next]_(Promise!vars)
  OBVIOUS
<1>1. CASE UNCHANGED mapVars
  <2>1. UNCHANGED <<content, value, ref>>
    BY <1>1 DEF mapVars
  <2>2. MapInv'
    BY <2>1 DEF MapInv, MapTyped, OneOwner, RefOwned
  <2>3. UNCHANGED Promise!vars
    BY <2>1 DEF Promise!vars, Seen, Places
  <2> QED
    BY <2>2, <2>3
<1>2. ASSUME NEW m \in Maps, NEW k \in Keys, NEW v \in Values, Insert(m, k, v)
      PROVE  MapInv' /\ Promise!Next
  BY <1>2, InsertSimulates DEF Promise!Next
<1>3. ASSUME NEW m \in Maps, NEW k \in Keys, InsertThrows(m, k)
      PROVE  MapInv' /\ Promise!Next
  BY <1>3, CreateInserts, MapAssumption DEF InsertThrows, Promise!Next
<1>4. ASSUME NEW m \in Maps, NEW k \in Keys, Subscript(m, k)
      PROVE  MapInv' /\ Promise!Next
  BY <1>4, SubscriptSimulates DEF Promise!Next
<1>5. ASSUME NEW m \in Maps, NEW k \in Keys, Erase(m, k)
      PROVE  MapInv' /\ Promise!Next
  BY <1>5, EraseSimulates DEF Promise!Next
<1>6. ASSUME NEW v \in Values, Assign(v) PROVE MapInv' /\ Promise!Next
  BY <1>6, AssignSimulates DEF Promise!Next
<1>7. ASSUME NEW m \in Maps, ClearMap(m) PROVE MapInv' /\ Promise!Next
  BY <1>7, ClearSimulates DEF Promise!Next
<1>8. ASSUME NEW m \in Maps, NEW other \in Maps, CopyMap(m, other)
      PROVE  MapInv' /\ Promise!Next
  BY <1>8, CopySimulates DEF CopyMap, Promise!Next
<1>9. ASSUME NEW m \in Maps, NEW other \in Maps, CopyMapThrows(m, other)
      PROVE  MapInv' /\ Promise!Next
  BY <1>7, <1>9 DEF CopyMapThrows
<1>10. ASSUME NEW m \in Maps, NEW other \in Maps, MoveMap(m, other)
       PROVE  MapInv' /\ Promise!Next
  BY <1>10, MoveSimulates DEF MoveMap, Promise!Next
<1> QED
  BY <1>1, <1>2, <1>3, <1>4, <1>5, <1>6, <1>7, <1>8, <1>9, <1>10 DEF MapNext

(***************************************************************************)
(* For any number of maps, any keys and values and any memory: whatever is *)
(* created, shared, moved and freed below, the maps behave as dictionaries *)
(* that have nothing in common, and a write through a reference that was   *)
(* kept across copies and moves changes the entry it was obtained for.     *)
(***************************************************************************)
THEOREM MapsImplementDictionaries == MapSpec => ImplementsDictionaries
<1>1. MapInit => MapInv
  <2> SUFFICES ASSUME MapInit PROVE MapInv
    OBVIOUS
  <2>1. /\ content \in [Maps -> Tables]
        /\ \A m \in Maps : DOMAIN content[m] = {}
    BY NoEntriesFits DEF MapInit
  <2> QED
    BY <2>1, MapAssumption DEF MapInit, MapInv, MapTyped, OneOwner, RefOwned
<1>2. MapInit => Promise!Init
  <2> SUFFICES ASSUME MapInit PROVE Promise!Init
    OBVIOUS
  <2>1. \A m \in Maps : content[m] = NoEntries /\ DOMAIN content[m] = {}
    BY NoEntriesFits DEF MapInit
  <2>2. \A m \in Maps : Seen(content[m]) = Promise!Empty
    BY <2>1 DEF Seen, Promise!Empty
  <2>3. Places = {}
    BY <2>1 DEF Places
  <2> QED
    BY <2>2, <2>3 DEF Promise!Init
<1> QED
  BY <1>1, <1>2, MapSimulates, PTL DEF MapSpec, ImplementsDictionaries, Promise!Spec
=============================================================================
