------------------------------- MODULE Stack -------------------------------
(***************************************************************************)
(* Softadastra::Stack, a stack on top of a std::vector: what becomes of    *)
(* the elements when stacks are copied, moved, assigned to themselves,     *)
(* swapped and cleared, and when the copy of an element throws.  The       *)
(* elements are numbered in the order in which they were pushed.           *)
(*                                                                         *)
(* A push that throws and a pop or a top of an empty stack change nothing: *)
(* they are steps that stutter.                                            *)
(***************************************************************************)
EXTENDS Integers, Sequences, SequencesExt

CONSTANTS
  Stacks,  (* the objects                                                  *)
  Pushes   (* bound on the number of elements pushed                       *)

VARIABLES
  elems,      (* [Stacks -> sequences of elements], the top last           *)
  pushed,     (* the number of elements pushed so far                      *)
  handed,     (* elements that pop returned                                *)
  discarded   (* elements of a stack that was cleared or assigned to       *)

stackVars == <<elems, pushed, handed, discarded>>

StackInit ==
  /\ elems = [s \in Stacks |-> <<>>]
  /\ pushed = 0
  /\ handed = {}
  /\ discarded = {}

Push(s) ==
  /\ pushed < Pushes
  /\ elems' = [elems EXCEPT ![s] = Append(@, pushed + 1)]
  /\ pushed' = pushed + 1
  /\ UNCHANGED <<handed, discarded>>

Pop(s) ==
  /\ elems[s] # <<>>
  /\ elems' = [elems EXCEPT ![s] = Front(@)]
  /\ handed' = handed \cup {Last(elems[s])}
  /\ UNCHANGED <<pushed, discarded>>

PopThrows_faulty(s) ==
  /\ elems[s] # <<>>
  /\ elems' = [elems EXCEPT ![s] = Front(@)]
  /\ UNCHANGED <<pushed, handed, discarded>>

(* The copy of the element throws, before pop_back.                        *)
PopThrows(s) == elems[s] # <<>> /\ UNCHANGED stackVars

(* The content of s gives way to es, that of the other stacks stays.       *)
Replace(s, es) ==
  /\ elems' = [elems EXCEPT ![s] = es]
  /\ discarded' = discarded \cup ToSet(elems[s])
  /\ UNCHANGED <<pushed, handed>>

Clear(s) == Replace(s, <<>>)

(* Construction (of an s that was empty) or assignment; the latter tests
   for self-assignment.                                                    *)
Copy(s, other) == s # other /\ Replace(s, elems[other])

(* The vector assigns over the elements it has, then it constructs more of
   them, and the n-th throws.                                              *)
CopyThrows(s, other) ==
  /\ s # other
  /\ \E n \in DOMAIN elems[other] :
       /\ n <= Len(elems[s]) + 1
       /\ Replace(s, [i \in DOMAIN elems[s] |->
                        IF i < n THEN elems[other][i] ELSE elems[s][i]])

(* A vector that is moved from is left empty, by itself as well.           *)
Move_faulty(s, other) ==
  /\ elems' = [elems EXCEPT ![s] = elems[other], ![other] = <<>>]
  /\ discarded' =
       IF s = other THEN discarded ELSE discarded \cup ToSet(elems[s])
  /\ UNCHANGED <<pushed, handed>>

Move(s, other) ==
  /\ s # other
  /\ elems' = [elems EXCEPT ![s] = elems[other], ![other] = <<>>]
  /\ discarded' = discarded \cup ToSet(elems[s])
  /\ UNCHANGED <<pushed, handed>>

Swap(s, other) ==
  /\ elems' = [elems EXCEPT ![s] = elems[other], ![other] = elems[s]]
  /\ UNCHANGED <<pushed, handed, discarded>>

StackNext ==
  \E s \in Stacks :
    \/ Push(s) \/ Pop(s) \/ PopThrows(s) \/ Clear(s)
    \/ \E other \in Stacks :
         Copy(s, other) \/ CopyThrows(s, other) \/ Move(s, other)
         \/ Swap(s, other)

StackSpec == StackInit /\ [][StackNext]_stackVars
-----------------------------------------------------------------------------
Held == UNION {ToSet(elems[s]) : s \in Stacks}

(***************************************************************************)
(* No sequence of copies, moves, swaps and exceptions, on whichever        *)
(* stacks, one and the same included, makes an element disappear: it is in *)
(* some stack, a caller has it, or the stack that held it was cleared or   *)
(* assigned to.                                                            *)
(***************************************************************************)
NothingLost == 1 .. pushed \subseteq Held \cup handed \cup discarded
=============================================================================
