--------------------------- MODULE EvictionPolicy ---------------------------
(***************************************************************************)
(* The bookkeeping of LRUPolicy and LFUPolicy, as operators on a record    *)
(*                                                                         *)
(*   policy   "LRU" or "LFU"                                               *)
(*   list     LRU: access_list_, the most recently used key first          *)
(*   count    LFU: key_to_count_, a function on the tracked keys           *)
(*   heap     LFU: the <<key, access_count>> pairs in heap_                *)
(*   mem      current_memory_                                              *)
(*                                                                         *)
(* heap_ may hold a pair twice; copies of a pair are valid or stale        *)
(* together, so a set is enough.                                           *)
(***************************************************************************)
EXTENDS Integers, Sequences, FiniteSets, Functions

CONSTANTS Key, MemoryLimit

ASSUME PolicyConstants == IsFiniteSet(Key) /\ MemoryLimit \in Nat

NewPolicy(policy) ==
    [policy |-> policy, list |-> << >>, count |-> << >>, heap |-> {}, mem |-> 0]

Tracked(p) == IF p.policy = "LRU" THEN Range(p.list) ELSE DOMAIN p.count

\* Function f with k mapped to x, whether or not k was in its domain.
Store(f, k, x) == [j \in DOMAIN f \union {k} |-> IF j = k THEN x ELSE f[j]]

Drop(f, k) == [j \in DOMAIN f \ {k} |-> f[j]]

\* list s without its element at i
Erase(s, i) == SubSeq(s, 1, i - 1) \o SubSeq(s, i + 1, Len(s))

Back(s) == s[Len(s)]

\* key_to_iter_: where key k is in a list that holds it.
Iter(list, k) == CHOOSE i \in DOMAIN list : list[i] = k

ShouldEvict(p) == p.mem > MemoryLimit

MemoryWithout(p, size) == IF p.mem >= size THEN p.mem - size ELSE 0

-----------------------------------------------------------------------------
\* Mutant: an access leaves the list as it is.
LruAccess_NoMove(p, k) == p

LruAccess(p, k) ==
    IF k \in Range(p.list) THEN [p EXCEPT !.list = <<k>> \o Erase(@, Iter(@, k))] ELSE p

LruInsert(p, k, size) == [p EXCEPT !.list = <<k>> \o @, !.mem = @ + size]

LruDelete(p, k, size) ==
    IF k \in Range(p.list)
      THEN [p EXCEPT !.list = Erase(@, Iter(@, k)), !.mem = MemoryWithout(p, size)]
      ELSE p

\* get_eviction_candidate: the possible victims, with the policy it leaves. {}: it
\* returns "".
LruCandidates(p) ==
    IF p.list = << >> THEN {} ELSE {[victim |-> Back(p.list), left |-> p]}

-----------------------------------------------------------------------------
\* Mutant: an access is not pushed to the heap.
LfuAccess_NoPush(p, k, c) ==
    IF k \in DOMAIN p.count THEN [p EXCEPT !.count = Store(@, k, c)] ELSE p

LfuAccess(p, k, c) ==
    IF k \in DOMAIN p.count
      THEN [p EXCEPT !.count = Store(@, k, c), !.heap = @ \union {<<k, c>>}]
      ELSE p

LfuInsert(p, k, size, c) ==
    [p EXCEPT !.count = Store(@, k, c), !.heap = @ \union {<<k, c>>}, !.mem = @ + size]

LfuDelete(p, k, size) ==
    IF k \in DOMAIN p.count
      THEN [p EXCEPT !.count = Drop(@, k), !.mem = MemoryWithout(p, size)]
      ELSE p

\* The heap entries that lazy deletion lets through.
Valid(p) == {e \in p.heap : e[1] \in DOMAIN p.count /\ p.count[e[1]] = e[2]}

\* The heap orders by count alone, so a tie may go either way; everything smaller
\* than the victim's entry was stale and is popped.
LfuCandidates(p) ==
    {[victim |-> e[1], left |-> [p EXCEPT !.heap = {f \in @ : f[2] >= e[2]} \ {e}]] :
        e \in {e \in Valid(p) : \A f \in Valid(p) : e[2] <= f[2]}}

-----------------------------------------------------------------------------
OnAccess(p, k, c) == IF p.policy = "LRU" THEN LruAccess(p, k) ELSE LfuAccess(p, k, c)

OnInsert(p, k, size, c) ==
    IF p.policy = "LRU" THEN LruInsert(p, k, size) ELSE LfuInsert(p, k, size, c)

OnDelete(p, k, size) ==
    IF p.policy = "LRU" THEN LruDelete(p, k, size) ELSE LfuDelete(p, k, size)

Candidates(p) == IF p.policy = "LRU" THEN LruCandidates(p) ELSE LfuCandidates(p)

=============================================================================
