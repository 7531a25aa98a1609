--------------------------- MODULE LockFreeQueue ---------------------------
(***************************************************************************)
(* base/lock_free_queue.h and the way its two users drive it.  One thread  *)
(* produces, another consumes, and the producer writes one token into the  *)
(* consumer's notify pipe after every produce():                           *)
(*   - SignalingServer -> SignalingWorker::_q_conn (token NEW_CONN);       *)
(*   - RtcServer       -> RtcWorker::_q_msg        (token RTC_MSG).        *)
(* The consumer calls consume() exactly once for each token it reads.      *)
(*                                                                         *)
(* `first', `divider', `last' and the `next' fields are plain pointers     *)
(* shared by the two threads.  Nothing orders the producer's stores (the   *)
(* new node's fields, last->next, last) among themselves, only before the  *)
(* atomic increment of _size, so the model lets them take effect in any    *)
(* order.  An address may be reused as soon as its node is deleted.        *)
(***************************************************************************)
EXTENDS Integers, Sequences, FiniteSets

CONSTANTS Node,        \* the addresses `new Node' can return
          Value,       \* what is queued
          NULL,        \* nullptr, and the contents of uninitialised memory
          MaxProduce   \* bound on the number of produce() calls

ASSUME NullAssumption == NULL \notin Node /\ NULL \notin Value
ASSUME BoundAssumption == MaxProduce \in Nat
ASSUME NodeAssumption == Node # {}

VARIABLES
    live,      \* addresses that are allocated
    next,      \* Node::next
    value,     \* Node::value
    first, divider, last,
    size,      \* the atomic _size
    ppc,       \* where the producer is in push + notify
    node,      \* producer: the node being inserted
    pending,   \* producer: its stores that are not visible yet
    cpc,       \* where the consumer is in recv_notify + consume
    result,    \* consumer: *result
    tokens,    \* ints in the notify pipe
    sent,      \* history: the values of produce() calls
    rcvd,      \* history: the values consume() returned
    chain,     \* history: the nodes in the order of their allocation
    freed      \* history: how many of them were deleted

prodVars == <<ppc, node, pending, sent, chain>>
consVars == <<cpc, result, rcvd>>
vars == <<live, next, value, first, divider, last, size, ppc, node, pending,
          cpc, result, tokens, sent, rcvd, chain, freed>>

-----------------------------------------------------------------------------
(* LockFreeQueue(): one dummy node.                                        *)
Init ==
    /\ \E n \in Node : /\ first = n /\ divider = n /\ last = n
                       /\ live = {n}
                       /\ chain = <<n>>
    /\ next = [n \in Node |-> NULL]
    /\ value = [n \in Node |-> NULL]
    /\ size = 0
    /\ ppc = "idle" /\ node = NULL /\ pending = {}
    /\ cpc = "idle" /\ result = NULL
    /\ tokens = 0
    /\ sent = <<>> /\ rcvd = <<>> /\ freed = 0

(* produce(): `new Node(t)'.  The memory still holds what its last owner   *)
(* left in it until the constructor's stores take effect.                  *)
Alloc ==
    /\ ppc = "idle" /\ Len(sent) < MaxProduce
    /\ \E n \in Node \ live, v \in Value :
          /\ node' = n
          /\ live' = live \cup {n}
          /\ sent' = Append(sent, v)
          /\ chain' = Append(chain, n)
    /\ pending' = {"value", "null", "next", "last"}
    /\ ppc' = "store"
    /\ UNCHANGED <<next, value, first, divider, last, size, tokens, freed, consVars>>

(* The node at the end of the list before this produce().                  *)
tail == chain[Len(chain) - 1]

StoreValue ==
    /\ ppc = "store" /\ "value" \in pending
    /\ value' = [value EXCEPT ![node] = sent[Len(sent)]]
    /\ pending' = pending \ {"value"}
    /\ UNCHANGED <<live, next, first, divider, last, size, tokens, freed,
                   ppc, node, sent, chain, consVars>>

(* The constructor's next(nullptr).                                        *)
StoreNull ==
    /\ ppc = "store" /\ "null" \in pending
    /\ next' = [next EXCEPT ![node] = NULL]
    /\ pending' = pending \ {"null"}
    /\ UNCHANGED <<live, value, first, divider, last, size, tokens, freed,
                   ppc, node, sent, chain, consVars>>

(* last->next = node.                                                      *)
StoreNext ==
    /\ ppc = "store" /\ "next" \in pending
    /\ next' = [next EXCEPT ![tail] = node]
    /\ pending' = pending \ {"next"}
    /\ UNCHANGED <<live, value, first, divider, last, size, tokens, freed,
                   ppc, node, sent, chain, consVars>>

(* last = last->next.                                                      *)
StoreLast ==
    /\ ppc = "store" /\ "last" \in pending
    /\ last' = node
    /\ pending' = pending \ {"last"}
    /\ UNCHANGED <<live, next, value, first, divider, size, tokens, freed,
                   ppc, node, sent, chain, consVars>>

(* ++_size: sequentially consistent, all earlier stores are visible.       *)
Count ==
    /\ ppc = "store" /\ pending = {}
    /\ size' = size + 1
    /\ ppc' = "reclaim"
    /\ UNCHANGED <<live, next, value, first, divider, last, tokens, freed,
                   node, pending, sent, chain, consVars>>

(* Mutants of the sweep: it runs up to last instead of divider; it moves   *)
(* first without deleting.                                                 *)
ReclaimToLast ==
    /\ ppc = "reclaim" /\ last # first
    /\ first' = next[first]
    /\ live' = live \ {first}
    /\ freed' = freed + 1
    /\ UNCHANGED <<next, value, divider, last, size, tokens, prodVars, consVars>>

ReclaimNoDelete ==
    /\ ppc = "reclaim" /\ divider # first
    /\ first' = next[first]
    /\ freed' = freed + 1
    /\ UNCHANGED <<live, next, value, divider, last, size, tokens, prodVars, consVars>>

(* One round of `while (divider != first)': delete the oldest node.        *)
Reclaim ==
    /\ ppc = "reclaim" /\ divider # first
    /\ first' = next[first]
    /\ live' = live \ {first}
    /\ freed' = freed + 1
    /\ UNCHANGED <<next, value, divider, last, size, tokens, prodVars, consVars>>

ReclaimDone ==
    /\ ppc = "reclaim" /\ divider = first
    /\ ppc' = "notify"
    /\ UNCHANGED <<live, next, value, first, divider, last, size, tokens, freed,
                   node, pending, sent, chain, consVars>>

(* Mutant: the return value of a failed write() is ignored.                *)
NotifyLost ==
    /\ ppc = "notify"
    /\ ppc' = "idle" /\ node' = NULL
    /\ UNCHANGED <<live, next, value, first, divider, last, size, freed, tokens,
                   pending, sent, chain, consVars>>

(* notify(): one int into the pipe of the consumer.                        *)
Notify ==
    /\ ppc = "notify"
    /\ tokens' = tokens + 1
    /\ ppc' = "idle"
    /\ node' = NULL
    /\ UNCHANGED <<live, next, value, first, divider, last, size, freed,
                   pending, sent, chain, consVars>>

Producer == \/ Alloc \/ StoreValue \/ StoreNull \/ StoreNext \/ StoreLast
            \/ Count \/ Reclaim \/ ReclaimDone \/ Notify

-----------------------------------------------------------------------------
(* Mutant: the handler runs again for a token it did not take out of the   *)
(* pipe.                                                                   *)
ReadTokenKept ==
    /\ cpc = "idle" /\ tokens > 0
    /\ cpc' = "check"
    /\ UNCHANGED <<live, next, value, first, divider, last, size, freed, tokens,
                   prodVars, result, rcvd>>

(* recv_notify(): one int is read, consume() is called.                    *)
ReadToken ==
    /\ cpc = "idle" /\ tokens > 0
    /\ tokens' = tokens - 1
    /\ cpc' = "check"
    /\ UNCHANGED <<live, next, value, first, divider, last, size, freed,
                   prodVars, result, rcvd>>

(* `if (divider != last)'.                                                 *)
CheckLast ==
    /\ cpc = "check"
    /\ cpc' = IF divider # last THEN "read" ELSE "idle"
    /\ UNCHANGED <<live, next, value, first, divider, last, size, tokens, freed,
                   prodVars, result, rcvd>>

(* Mutant: the value of the divider node itself is returned.               *)
ReadDivider ==
    /\ cpc = "read"
    /\ result' = value[divider]
    /\ cpc' = "advance"
    /\ UNCHANGED <<live, next, value, first, divider, last, size, tokens, freed,
                   prodVars, rcvd>>

(* *result = divider->next->value.  Through a null next the program would  *)
(* crash here (see NoUseAfterFree).                                        *)
ReadValue ==
    /\ cpc = "read"
    /\ next[divider] # NULL
    /\ result' = value[next[divider]]
    /\ cpc' = "advance"
    /\ UNCHANGED <<live, next, value, first, divider, last, size, tokens, freed,
                   prodVars, rcvd>>

(* divider = divider->next: from here on the producer may delete the node. *)
Advance ==
    /\ cpc = "advance"
    /\ divider' = next[divider]
    /\ rcvd' = Append(rcvd, result)
    /\ cpc' = "count"
    /\ UNCHANGED <<live, next, value, first, last, size, tokens, freed,
                   prodVars, result>>

(* Mutant: the decrement of _size is forgotten.                            *)
UncountNot ==
    /\ cpc = "count"
    /\ cpc' = "idle"
    /\ UNCHANGED <<live, next, value, first, divider, last, size, tokens, freed,
                   prodVars, result, rcvd>>

(* --_size and return true.                                                *)
Uncount ==
    /\ cpc = "count"
    /\ size' = size - 1
    /\ cpc' = "idle"
    /\ UNCHANGED <<live, next, value, first, divider, last, tokens, freed,
                   prodVars, result, rcvd>>

Consumer == ReadToken \/ CheckLast \/ ReadValue \/ Advance \/ Uncount

(* MaxProduce and the number of addresses bound the model, not the         *)
(* program: stopping there is no deadlock.                                 *)
Done == /\ Len(sent) = MaxProduce \/ live = Node
        /\ ppc = "idle"
        /\ cpc = "idle" /\ tokens = 0
        /\ UNCHANGED vars

Next == Producer \/ Consumer \/ Done

Spec == Init /\ [][Next]_vars

(* Both threads run an event loop: neither stops inside these functions,   *)
(* and a consumer with a readable pipe is scheduled.  A producer in the    *)
(* middle of produce() completes it, but need not start another.           *)
FairSpec == /\ Spec
            /\ WF_vars(Producer /\ ppc # "idle")
            /\ WF_vars(Consumer)

-----------------------------------------------------------------------------
(* The types of the shared and the local variables of both threads.        *)
TypeOK ==
    /\ live \subseteq Node
    /\ next \in [Node -> Node \cup {NULL}]
    /\ value \in [Node -> Value \cup {NULL}]
    /\ first \in Node /\ divider \in Node /\ last \in Node
    /\ size \in Int
    /\ ppc \in {"idle", "store", "reclaim", "notify"}
    /\ node \in Node \cup {NULL}
    /\ pending \subseteq {"value", "null", "next", "last"}
    /\ cpc \in {"idle", "check", "read", "advance", "count"}
    /\ result \in Value \cup {NULL}
    /\ tokens \in Nat
    /\ sent \in Seq(Value)
    /\ rcvd \in Seq(Value \cup {NULL})
    /\ chain \in Seq(Node)
    /\ freed \in Nat

(* No thread dereferences a deleted node or nullptr: the consumer when it  *)
(* follows divider->next, the producer when it follows first->next or      *)
(* stores into the old tail, whatever the other thread does meanwhile.     *)
NoUseAfterFree ==
    /\ {first, divider, last} \subseteq live
    /\ cpc \in {"read", "advance"} => next[divider] \in live
    /\ ppc = "store" => tail \in live /\ node \in live
    /\ ppc = "reclaim" /\ divider # first => next[first] \in live

(* A token in the hands of the consumer always finds its element: consume()*)
(* never takes the `return false' path and never reads a node whose stores *)
(* are still pending, so no connection and no message is left behind.      *)
TokenFindsElement ==
    cpc = "check" => /\ divider # last
                     /\ next[divider] # NULL
                     /\ value[next[divider]] = sent[Len(rcvd) + 1]

(* _size counts what is queued up to the steps in progress and is never    *)
(* negative, though the decrement is not ordered with the publication of   *)
(* last.                                                                   *)
SizeCounts ==
    /\ size >= 0
    /\ ppc = "idle" /\ cpc = "idle" => size = Len(sent) - Len(rcvd) /\ size = tokens

(* Every allocated node is still on the list from first: the sweep deletes *)
(* each consumed node once, and none drops off the list undeleted.         *)
NoNodeLeak == live = {chain[i] : i \in freed + 1 .. Len(chain)}

(* Values come out in the order in which they went in, none lost, none     *)
(* twice, none invented.                                                   *)
Abs == INSTANCE FifoQueue WITH written <- sent, read <- rcvd
Fifo == Abs!Spec

(* Everything produced is consumed in the end.                             *)
AllDelivered == \A k \in 1 .. MaxProduce : Len(sent) >= k ~> Len(rcvd) >= k

-----------------------------------------------------------------------------
(* The inductive invariant behind the safety properties, in parts.         *)

Storing(s) == ppc = "store" /\ s \in pending

(* The values whose produce() and notify() are complete.                   *)
Announced == IF ppc = "idle" THEN Len(sent) ELSE Len(sent) - 1

(* 1 while the consumer holds a token whose element it has not passed.     *)
InHand == IF cpc \in {"check", "read", "advance"} THEN 1 ELSE 0

(* The three pointers cut the chain of nodes into deleted, consumed and    *)
(* queued ones.                                                            *)
Pointers ==
    /\ Len(chain) = Len(sent) + 1
    /\ freed <= Len(rcvd)
    /\ first = chain[freed + 1]
    /\ divider = chain[Len(rcvd) + 1]
    /\ last = chain[IF Storing("last") THEN Len(chain) - 1 ELSE Len(chain)]

Distinct == \A i, j \in freed + 1 .. Len(chain) : chain[i] = chain[j] => i = j

Links == \A i \in freed + 1 .. Len(chain) - 1 :
            next[chain[i]] = chain[i + 1] \/ (i = Len(chain) - 1 /\ Storing("next"))

Contents == \A i \in freed + 1 .. Len(chain) :
            \/ i = 1
            \/ value[chain[i]] = sent[i - 1]
            \/ i = Len(chain) /\ Storing("value")

(* One token, in the pipe or in hand, for each announced value.            *)
Tokens == tokens + InHand + Len(rcvd) = Announced

Counter == size = Len(sent) - (IF ppc = "store" THEN 1 ELSE 0)
                  - Len(rcvd) + (IF cpc = "count" THEN 1 ELSE 0)

ProducerLocals ==
    /\ ppc # "idle" => Len(sent) >= 1 /\ node = chain[Len(chain)]
    /\ ppc # "store" => pending = {}

Prefix == /\ \A i \in 1 .. Len(rcvd) : rcvd[i] = sent[i]
          /\ cpc = "advance" => result = sent[Len(rcvd) + 1]

(* The strengthening of the safety properties that every step of the two   *)
(* threads preserves.                                                      *)
IndInv == /\ TypeOK /\ Pointers /\ NoNodeLeak /\ Distinct /\ Links /\ Contents
          /\ Tokens /\ Counter /\ ProducerLocals /\ Prefix
=============================================================================
