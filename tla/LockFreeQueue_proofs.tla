------------------------ MODULE LockFreeQueue_proofs ------------------------
(***************************************************************************)
(* The queue is safe for every set of addresses and of values and for any  *)
(* number of produce() calls.                                              *)
(***************************************************************************)
EXTENDS LockFreeQueue, TLAPS

(* The constructor establishes the invariant.                              *)
LEMMA InitInd == Init => IndInv
  BY NullAssumption DEF Init, IndInv, TypeOK, Pointers, NoNodeLeak, Distinct,
     Links, Contents, Tokens, Counter, ProducerLocals, Prefix, Storing,
     Announced, InHand

(* Where the pointers stand on the chain, and what the consumer finds when *)
(* it holds a token and the producer when it may delete a node.            *)
HasToken == cpc \in {"check", "read", "advance"}

LEMMA Positions ==
  IndInv => /\ freed <= Len(rcvd) /\ Len(rcvd) < Len(chain) /\ Len(chain) = Len(sent) + 1
            /\ HasToken => Len(rcvd) + 2 <= Len(chain)
            /\ ppc = "store" => Len(rcvd) + 2 <= Len(chain)
            /\ ppc = "store" /\ HasToken => Len(rcvd) + 3 <= Len(chain)
  BY DEF IndInv, TypeOK, Pointers, Tokens, Announced, InHand, HasToken, ProducerLocals

LEMMA TokenHeld ==
  IndInv /\ HasToken => /\ next[divider] = chain[Len(rcvd) + 2]
                        /\ value[next[divider]] = sent[Len(rcvd) + 1]
                        /\ divider # last
  <1> SUFFICES ASSUME IndInv, HasToken
               PROVE  /\ next[divider] = chain[Len(rcvd) + 2]
                      /\ value[next[divider]] = sent[Len(rcvd) + 1]
                      /\ divider # last
    OBVIOUS
  <1> DEFINE d == Len(rcvd) + 1
  <1>1. /\ d \in freed + 1 .. Len(chain) - 1
        /\ d + 1 \in freed + 1 .. Len(chain)
        /\ ppc = "store" => d < Len(chain) - 1
    BY Positions DEF IndInv, TypeOK
  <1>2. divider = chain[d]
    BY DEF IndInv, Pointers
  <1>3. next[divider] = chain[d + 1]
    BY <1>1, <1>2 DEF IndInv, Links, Storing
  <1>4. value[chain[d + 1]] = sent[d]
    BY <1>1 DEF IndInv, Contents, Storing, TypeOK
  <1>5. divider # last
    <2>1. CASE Storing("last")
      <3>1. last = chain[Len(chain) - 1] /\ d # Len(chain) - 1
        BY <1>1, <2>1 DEF IndInv, Pointers, Storing
      <3> QED BY <1>1, <1>2, <3>1 DEF IndInv, Distinct, TypeOK
    <2>2. CASE ~Storing("last")
      <3>1. last = chain[Len(chain)] /\ d # Len(chain)
        BY <1>1, <2>2 DEF IndInv, Pointers
      <3> QED BY <1>1, <1>2, <3>1 DEF IndInv, Distinct, TypeOK
    <2> QED BY <2>1, <2>2
  <1> QED BY <1>3, <1>4, <1>5 DEF TypeOK

LEMMA Reclaimable ==
  IndInv /\ divider # first => /\ freed < Len(rcvd)
                               /\ next[first] = chain[freed + 2]
  <1> SUFFICES ASSUME IndInv, divider # first
               PROVE  freed < Len(rcvd) /\ next[first] = chain[freed + 2]
    OBVIOUS
  <1>1. first = chain[freed + 1] /\ freed # Len(rcvd)
    BY DEF IndInv, Pointers
  <1>2. freed < Len(rcvd) /\ freed + 1 \in freed + 1 .. Len(chain) - 1
        /\ (ppc = "store" => freed + 1 < Len(chain) - 1)
    BY <1>1, Positions DEF IndInv, TypeOK
  <1> QED BY <1>1, <1>2 DEF IndInv, Links, Storing, TypeOK

(* Every step of produce() and notify() preserves it.                      *)
LEMMA ProducerInd == IndInv /\ Producer => IndInv'
  <1> SUFFICES ASSUME IndInv, Producer PROVE IndInv'
    OBVIOUS
  <1> USE DEF IndInv
  <1>1. CASE Alloc
    <2> USE <1>1 DEF Alloc, consVars
    <2>1. TypeOK'
      BY DEF TypeOK
    <2>2. Pointers'
      BY DEF Pointers, Tokens, ProducerLocals, TypeOK, Announced, InHand,
             Storing
    <2>3. NoNodeLeak'
      <3>1. chain' = Append(chain, node') /\ live' = live \cup {node'}
        BY DEF TypeOK
      <3>2. freed' = freed /\ freed + 1 <= Len(chain)
        BY Positions DEF TypeOK
      <3>3. Len(chain') = Len(chain) + 1 /\ chain'[Len(chain) + 1] = node'
        BY <3>1 DEF TypeOK
      <3>4. \A i \in 1 .. Len(chain) : chain'[i] = chain[i]
        BY <3>1 DEF TypeOK
      <3> QED BY <3>1, <3>2, <3>3, <3>4 DEF NoNodeLeak, TypeOK
    <2>4. Distinct'
      <3>1. Len(chain') = Len(chain) + 1 /\ chain'[Len(chain) + 1] = node'
        BY DEF TypeOK
      <3>2. \A i \in freed + 1 .. Len(chain) : chain'[i] = chain[i] /\ chain[i] # node'
        BY DEF TypeOK, NoNodeLeak
      <3> QED BY <3>1, <3>2 DEF Distinct, TypeOK
    <2>5. Links'
      <3>1. Len(chain') = Len(chain) + 1 /\ \A i \in 1 .. Len(chain) : chain'[i] = chain[i]
        BY DEF TypeOK
      <3>2. \A i \in freed + 1 .. Len(chain) - 1 : next'[chain[i]] = chain[i + 1]
        BY DEF Links, Storing
      <3>3. ppc' = "store" /\ "next" \in pending' /\ freed' = freed
        OBVIOUS
      <3> QED BY <3>1, <3>2, <3>3 DEF Links, Storing, TypeOK
    <2>6. Contents'
      BY DEF Contents, Pointers, ProducerLocals, TypeOK, Storing
    <2>7. Tokens'
      <3>1. Len(sent') = Len(sent) + 1 /\ ppc' # "idle"
        BY DEF TypeOK
      <3>2. Announced' = Announced /\ InHand' = InHand
        BY <3>1 DEF Announced, InHand, TypeOK
      <3> QED BY <3>2 DEF Tokens
    <2>8. Counter'
      BY DEF Counter, TypeOK
    <2>9. ProducerLocals'
      BY DEF ProducerLocals, Pointers, TypeOK, Storing
    <2>10. Prefix'
      BY DEF Prefix, Pointers, Tokens, TypeOK, Announced, InHand, Storing
    <2> QED BY <2>1, <2>2, <2>3, <2>4, <2>5, <2>6, <2>7, <2>8, <2>9, <2>10
  <1>2. CASE StoreValue
    <2> USE <1>2 DEF StoreValue, consVars
    <2>1. NoNodeLeak' /\ Distinct' /\ Tokens' /\ Counter' /\ Prefix'
      BY DEF NoNodeLeak, Distinct, Tokens, Counter, Prefix, Announced, InHand
    <2>2. TypeOK'
      <3>1. sent[Len(sent)] \in Value
        BY DEF ProducerLocals, TypeOK
      <3>2. value' \in [Node -> Value \cup {NULL}]
        BY <3>1 DEF TypeOK
      <3> QED BY <3>2 DEF TypeOK
    <2>3. Pointers'
      BY DEF Pointers, TypeOK, Storing
    <2>4. Links'
      BY DEF Links, TypeOK, Storing
    <2>5. Contents'
      <3>1. node = chain[Len(chain)] /\ node \in Node
        BY Positions DEF ProducerLocals, TypeOK
      <3>2. \A i \in freed + 1 .. Len(chain) - 1 : chain[i] # node
        BY <3>1, Positions DEF Distinct, TypeOK
      <3>3. \A i \in freed + 1 .. Len(chain) - 1 : value'[chain[i]] = value[chain[i]]
        BY <3>2 DEF TypeOK
      <3>4. value'[chain[Len(chain)]] = sent[Len(chain) - 1]
        BY <3>1, Positions DEF TypeOK
      <3>5. UNCHANGED <<chain, freed, sent, ppc>>
        OBVIOUS
      <3>6. SUFFICES ASSUME NEW i \in freed + 1 .. Len(chain), i # 1
                     PROVE  value'[chain[i]] = sent[i - 1]
        BY <3>5 DEF Contents
      <3>7. CASE i = Len(chain)
        BY <3>4, <3>7
      <3>8. CASE i # Len(chain)
        <4>1. i \in freed + 1 .. Len(chain) - 1
          BY <3>8 DEF TypeOK
        <4>2. value[chain[i]] = sent[i - 1]
          BY <3>6, <3>8 DEF Contents
        <4> QED BY <3>3, <4>1, <4>2
      <3> QED BY <3>7, <3>8
    <2>6. ProducerLocals'
      BY DEF ProducerLocals, TypeOK
    <2> QED BY <2>1, <2>2, <2>3, <2>4, <2>5, <2>6
  <1>3. CASE StoreNull
    <2> USE <1>3 DEF StoreNull, consVars
    <2>1. NoNodeLeak' /\ Distinct' /\ Tokens' /\ Counter' /\ Prefix'
      BY DEF NoNodeLeak, Distinct, Tokens, Counter, Prefix, Announced, InHand
    <2>2. TypeOK'
      BY DEF TypeOK
    <2>3. Pointers'
      BY DEF Pointers, TypeOK, Storing
    <2>4. Links'
      <3>1. node = chain[Len(chain)] /\ freed + 1 <= Len(chain)
        BY Positions DEF ProducerLocals, TypeOK
      <3>2. \A i \in freed + 1 .. Len(chain) - 1 : chain[i] # node
        BY <3>1 DEF Distinct, TypeOK
      <3>3. \A i \in freed + 1 .. Len(chain) - 1 : next'[chain[i]] = next[chain[i]]
        BY <3>2 DEF TypeOK
      <3> QED BY <3>3 DEF Links, Storing, TypeOK
    <2>5. Contents'
      BY DEF Contents, TypeOK, Storing
    <2>6. ProducerLocals'
      BY DEF ProducerLocals, TypeOK
    <2> QED BY <2>1, <2>2, <2>3, <2>4, <2>5, <2>6
  <1>4. CASE StoreNext
    <2> USE <1>4 DEF StoreNext, consVars
    <2>1. NoNodeLeak' /\ Distinct' /\ Tokens' /\ Counter' /\ Prefix'
      BY DEF NoNodeLeak, Distinct, Tokens, Counter, Prefix, Announced, InHand
    <2>2. TypeOK'
      BY DEF TypeOK
    <2>3. Pointers'
      BY DEF Pointers, TypeOK, Storing
    <2>4. Links'
      <3>1. node = chain[Len(chain)] /\ freed + 2 <= Len(chain)
        BY Positions DEF ProducerLocals, TypeOK
      <3>2. \A i \in freed + 1 .. Len(chain) - 2 : chain[i] # tail
        BY <3>1 DEF Distinct, TypeOK, tail
      <3>3. \A i \in freed + 1 .. Len(chain) - 2 : next'[chain[i]] = next[chain[i]]
        BY <3>2 DEF TypeOK
      <3>4. next'[chain[Len(chain) - 1]] = chain[Len(chain)]
        BY <3>1 DEF TypeOK, tail
      <3> QED BY <3>1, <3>3, <3>4 DEF Links, Storing, TypeOK
    <2>5. Contents'
      BY DEF Contents, TypeOK, Storing
    <2>6. ProducerLocals'
      BY DEF ProducerLocals, TypeOK
    <2> QED BY <2>1, <2>2, <2>3, <2>4, <2>5, <2>6
  <1>5. CASE StoreLast
    <2> USE <1>5 DEF StoreLast, consVars
    <2>1. NoNodeLeak' /\ Distinct' /\ Tokens' /\ Counter' /\ Prefix'
      BY DEF NoNodeLeak, Distinct, Tokens, Counter, Prefix, Announced, InHand
    <2>2. TypeOK'
      <3>1. node = chain[Len(chain)] /\ Len(chain) \in 1 .. Len(chain)
        BY Positions DEF ProducerLocals, TypeOK
      <3> QED BY <3>1 DEF TypeOK
    <2>3. Pointers'
      BY DEF Pointers, ProducerLocals, TypeOK, Storing
    <2>4. Links'
      BY DEF Links, TypeOK, Storing
    <2>5. Contents'
      BY DEF Contents, TypeOK, Storing
    <2>6. ProducerLocals'
      BY DEF ProducerLocals, TypeOK
    <2> QED BY <2>1, <2>2, <2>3, <2>4, <2>5, <2>6
  <1>6. CASE Count
    <2> USE <1>6 DEF Count, consVars
    <2>1. NoNodeLeak' /\ Distinct' /\ Prefix'
      BY DEF NoNodeLeak, Distinct, Prefix
    <2>2. TypeOK'
      BY DEF TypeOK
    <2>3. Pointers'
      BY DEF Pointers, TypeOK, Storing
    <2>4. Links'
      BY DEF Links, TypeOK, Storing
    <2>5. Contents'
      BY DEF Contents, TypeOK, Storing
    <2>6. Tokens'
      BY DEF Tokens, TypeOK, Announced, InHand
    <2>7. Counter'
      BY DEF Counter, TypeOK
    <2>8. ProducerLocals'
      BY DEF ProducerLocals, TypeOK
    <2> QED BY <2>1, <2>2, <2>3, <2>4, <2>5, <2>6, <2>7, <2>8
  <1>7. CASE Reclaim
    <2> USE <1>7 DEF Reclaim, consVars, prodVars
    <2>1. Tokens' /\ Counter' /\ ProducerLocals' /\ Prefix'
      BY DEF Tokens, Counter, ProducerLocals, Prefix, Announced, InHand
    <2>2. TypeOK'
      <3>1. next[first] = chain[freed + 2] /\ freed + 2 \in 1 .. Len(chain)
        BY Reclaimable, Positions DEF TypeOK
      <3> QED BY <3>1 DEF TypeOK
    <2>3. Pointers'
      <3>1. first' = chain[freed' + 1] /\ freed' <= Len(rcvd')
        BY Reclaimable DEF TypeOK
      <3> QED BY <3>1 DEF Pointers, Storing
    <2>4. NoNodeLeak'
      <3>1. freed + 1 \in 1 .. Len(chain) /\ first = chain[freed + 1]
        BY Positions DEF Pointers, TypeOK
      <3>2. \A i \in freed + 2 .. Len(chain) : chain[i] # first
        BY <3>1 DEF Distinct, TypeOK
      <3>3. freed + 1 .. Len(chain) = {freed + 1} \cup (freed + 2 .. Len(chain))
        BY <3>1 DEF TypeOK
      <3>4. live = {chain[i] : i \in freed + 1 .. Len(chain)} /\ live' = live \ {first}
        BY DEF NoNodeLeak
      <3>5. live' = {chain[i] : i \in freed + 2 .. Len(chain)}
        BY <3>1, <3>2, <3>3, <3>4
      <3>6. freed' + 1 = freed + 2 /\ chain' = chain
        BY DEF TypeOK
      <3> QED BY <3>5, <3>6 DEF NoNodeLeak
    <2>5. Distinct'
      BY DEF Distinct, TypeOK
    <2>6. Links'
      BY DEF Links, TypeOK, Storing
    <2>7. Contents'
      BY DEF Contents, TypeOK, Storing
    <2> QED BY <2>1, <2>2, <2>3, <2>4, <2>5, <2>6, <2>7
  <1>8. CASE ReclaimDone
    <2> USE <1>8 DEF ReclaimDone, consVars
    <2>1. NoNodeLeak' /\ Distinct' /\ Prefix'
      BY DEF NoNodeLeak, Distinct, Prefix
    <2>2. TypeOK'
      BY DEF TypeOK
    <2>3. Pointers'
      BY DEF Pointers, TypeOK, Storing
    <2>4. Links'
      BY DEF Links, TypeOK, Storing
    <2>5. Contents'
      BY DEF Contents, TypeOK, Storing
    <2>6. Tokens'
      BY DEF Tokens, TypeOK, Announced, InHand
    <2>7. Counter'
      BY DEF Counter, TypeOK
    <2>8. ProducerLocals'
      BY DEF ProducerLocals, TypeOK
    <2> QED BY <2>1, <2>2, <2>3, <2>4, <2>5, <2>6, <2>7, <2>8
  <1>9. CASE Notify
    <2> USE <1>9 DEF Notify, consVars
    <2>1. NoNodeLeak' /\ Distinct' /\ Prefix'
      BY DEF NoNodeLeak, Distinct, Prefix
    <2>2. TypeOK'
      BY DEF TypeOK
    <2>3. Pointers'
      BY DEF Pointers, TypeOK, Storing
    <2>4. Links'
      BY DEF Links, TypeOK, Storing
    <2>5. Contents'
      BY DEF Contents, TypeOK, Storing
    <2>6. Tokens'
      BY DEF Tokens, ProducerLocals, TypeOK, Announced, InHand
    <2>7. Counter'
      BY DEF Counter, TypeOK
    <2>8. ProducerLocals'
      BY DEF ProducerLocals, TypeOK
    <2> QED BY <2>1, <2>2, <2>3, <2>4, <2>5, <2>6, <2>7, <2>8
  <1> QED BY <1>1, <1>2, <1>3, <1>4, <1>5, <1>6, <1>7, <1>8, <1>9 DEF Producer

(* Every step of recv_notify() and consume() preserves it.                 *)
LEMMA ConsumerInd == IndInv /\ Consumer => IndInv'
  <1> SUFFICES ASSUME IndInv, Consumer PROVE IndInv'
    OBVIOUS
  <1> USE DEF IndInv
  <1>1. CASE ReadToken
    <2> USE <1>1 DEF ReadToken, prodVars
    <2>1. Pointers' /\ NoNodeLeak' /\ Distinct' /\ Links' /\ Contents' /\ ProducerLocals'
      BY DEF Pointers, NoNodeLeak, Distinct, Links, Contents, ProducerLocals,
             Storing
    <2>2. TypeOK'
      BY DEF TypeOK
    <2>3. Tokens'
      BY DEF Tokens, TypeOK, Announced, InHand
    <2>4. Counter'
      BY DEF Counter, TypeOK
    <2>5. Prefix'
      BY DEF Prefix, TypeOK
    <2> QED BY <2>1, <2>2, <2>3, <2>4, <2>5
  <1>2. CASE CheckLast
    <2> USE <1>2 DEF CheckLast, prodVars
    <2>1. Pointers' /\ NoNodeLeak' /\ Distinct' /\ Links' /\ Contents' /\ ProducerLocals'
      BY DEF Pointers, NoNodeLeak, Distinct, Links, Contents, ProducerLocals,
             Storing
    <2>2. TypeOK'
      BY DEF TypeOK
    <2>3. Tokens'
      BY TokenHeld DEF HasToken, Tokens, Announced, InHand
    <2>4. Counter'
      BY DEF Counter, TypeOK
    <2>5. Prefix'
      BY DEF Prefix, TypeOK
    <2> QED BY <2>1, <2>2, <2>3, <2>4, <2>5
  <1>3. CASE ReadValue
    <2> USE <1>3 DEF ReadValue, prodVars
    <2>1. Pointers' /\ NoNodeLeak' /\ Distinct' /\ Links' /\ Contents' /\ ProducerLocals'
      BY DEF Pointers, NoNodeLeak, Distinct, Links, Contents, ProducerLocals,
             Storing
    <2>2. TypeOK'
      BY NodeAssumption DEF TypeOK
    <2>3. Tokens'
      BY DEF Tokens, TypeOK, Announced, InHand
    <2>4. Counter'
      BY DEF Counter, TypeOK
    <2>5. Prefix'
      BY TokenHeld DEF HasToken, Prefix
    <2> QED BY <2>1, <2>2, <2>3, <2>4, <2>5
  <1>4. CASE Advance
    <2> USE <1>4 DEF Advance, prodVars
    <2>1. NoNodeLeak' /\ Distinct' /\ Links' /\ Contents' /\ ProducerLocals'
      BY DEF NoNodeLeak, Distinct, Links, Contents, ProducerLocals, Storing
    <2>2. TypeOK'
      <3>1. next[divider] \in Node
        BY TokenHeld, Positions DEF HasToken, TypeOK
      <3> QED BY <3>1 DEF TypeOK
    <2>3. Pointers'
      <3>1. divider' = chain[Len(rcvd) + 2] /\ Len(rcvd') = Len(rcvd) + 1
        BY TokenHeld DEF HasToken, TypeOK
      <3> QED BY <3>1 DEF Pointers, Storing, TypeOK
    <2>4. Tokens'
      <3>1. Len(rcvd') = Len(rcvd) + 1
        BY DEF TypeOK
      <3> QED BY <3>1 DEF Tokens, Announced, InHand, TypeOK
    <2>5. Counter'
      BY DEF Counter, TypeOK
    <2>6. Prefix'
      BY DEF Prefix, Tokens, TypeOK, Announced, InHand
    <2> QED BY <2>1, <2>2, <2>3, <2>4, <2>5, <2>6
  <1>5. CASE Uncount
    <2> USE <1>5 DEF Uncount, prodVars
    <2>1. Pointers' /\ NoNodeLeak' /\ Distinct' /\ Links' /\ Contents' /\ ProducerLocals'
      BY DEF Pointers, NoNodeLeak, Distinct, Links, Contents, ProducerLocals,
             Storing
    <2>2. TypeOK'
      BY DEF TypeOK
    <2>3. Tokens'
      <3>1. InHand = 0 /\ InHand' = 0
        BY DEF InHand
      <3>2. Announced' = Announced
        BY DEF Announced
      <3> QED BY <3>1, <3>2 DEF Tokens
    <2>4. Counter'
      BY DEF Counter, TypeOK
    <2>5. Prefix'
      BY DEF Prefix, TypeOK
    <2> QED BY <2>1, <2>2, <2>3, <2>4, <2>5
  <1> QED BY <1>1, <1>2, <1>3, <1>4, <1>5 DEF Consumer

(* What the invariant says about the memory and about a token in hand.     *)
LEMMA IndSafe == IndInv => NoUseAfterFree /\ TokenFindsElement /\ SizeCounts
  <1> SUFFICES ASSUME IndInv PROVE NoUseAfterFree /\ TokenFindsElement /\ SizeCounts
    OBVIOUS
  <1> USE DEF IndInv
  <1>1. \A i \in freed + 1 .. Len(chain) : chain[i] \in live
    BY DEF NoNodeLeak
  <1>2. NoUseAfterFree
    <2>1. {first, divider, last} \subseteq live
      BY <1>1, Positions DEF Pointers, Storing, TypeOK
    <2>2. cpc \in {"read", "advance"} => next[divider] \in live
      BY <1>1, Positions, TokenHeld DEF HasToken, TypeOK
    <2>3. ppc = "store" => tail \in live /\ node \in live
      <3> HAVE ppc = "store"
      <3>1. {Len(chain) - 1, Len(chain)} \subseteq freed + 1 .. Len(chain)
        BY Positions DEF TypeOK
      <3> QED BY <1>1, <3>1 DEF tail, ProducerLocals
    <2>4. ppc = "reclaim" /\ divider # first => next[first] \in live
      BY <1>1, Positions, Reclaimable DEF TypeOK
    <2> QED BY <2>1, <2>2, <2>3, <2>4 DEF NoUseAfterFree
  <1>3. TokenFindsElement
    BY NullAssumption, Positions, TokenHeld DEF TokenFindsElement, HasToken, TypeOK
  <1>4. SizeCounts
    BY Positions DEF SizeCounts, Counter, Tokens, Announced, InHand, ProducerLocals, TypeOK
  <1> QED BY <1>2, <1>3, <1>4

(* The invariant holds in every reachable state.                           *)
THEOREM Inductive == Spec => []IndInv
  <1>1. IndInv /\ [Next]_vars => IndInv'
    <2>1. IndInv /\ UNCHANGED vars => IndInv'
      BY DEF IndInv, TypeOK, Pointers, NoNodeLeak, Distinct, Links, Contents,
         Tokens, Counter, ProducerLocals, Prefix, Storing, Announced, InHand, vars
    <2> QED BY <2>1, ProducerInd, ConsumerInd DEF Next, Done
  <1> QED BY InitInd, <1>1, PTL DEF Spec

(* Every variable keeps its type.                                          *)
THEOREM TypeCorrect == Spec => []TypeOK
  BY Inductive, PTL DEF IndInv

(* No thread dereferences nullptr or a deleted node, whatever order the    *)
(* producer's stores become visible in.                                    *)
THEOREM MemorySafe == Spec => []NoUseAfterFree
  <1>1. IndInv => NoUseAfterFree
    BY IndSafe
  <1> QED BY Inductive, <1>1, PTL

(* A consume() that follows a token always finds its element.              *)
THEOREM TokenSafe == Spec => []TokenFindsElement
  <1>1. IndInv => TokenFindsElement
    BY IndSafe
  <1> QED BY Inductive, <1>1, PTL

(* _size is never negative and exact when both threads are idle.           *)
THEOREM SizeSafe == Spec => []SizeCounts
  <1>1. IndInv => SizeCounts
    BY IndSafe
  <1> QED BY Inductive, <1>1, PTL

(* The allocated nodes are exactly those still on the list.                *)
THEOREM LeakFree == Spec => []NoNodeLeak
  BY Inductive, PTL DEF IndInv

(* The queue implements the abstract FIFO hand-over.                       *)
THEOREM Refines == Spec => Fifo
  <1>1. Init => Abs!Init
    BY DEF Init, Abs!Init
  <1>2. IndInv /\ [Next]_vars => [Abs!Next]_(Abs!vars)
    <2> SUFFICES ASSUME IndInv, [Next]_vars PROVE [Abs!Next]_(Abs!vars)
      OBVIOUS
    <2>1. CASE Alloc
      BY <2>1 DEF Alloc, consVars, Abs!Next, Abs!Send
    <2>2. CASE Advance
      <3>1. Len(rcvd) < Len(sent)
        BY <2>2 DEF Advance, IndInv, TypeOK, Tokens, Announced, InHand
      <3>2. rcvd' = Append(rcvd, sent[Len(rcvd) + 1]) /\ sent' = sent
        BY <2>2 DEF Advance, prodVars, IndInv, Prefix
      <3> QED BY <3>1, <3>2 DEF Abs!Next, Abs!Recv
    <2>3. CASE ~Alloc /\ ~Advance
      <3>1. UNCHANGED <<sent, rcvd>>
        BY <2>3 DEF Next, Producer, Consumer, Done, StoreValue, StoreNull,
           StoreNext, StoreLast, Count, Reclaim, ReclaimDone, Notify,
           ReadToken, CheckLast, ReadValue, Uncount, prodVars, consVars, vars
      <3> QED BY <3>1 DEF Abs!vars
    <2> QED BY <2>1, <2>2, <2>3
  <1> QED BY Inductive, <1>1, <1>2, PTL DEF Spec, Fifo, Abs!Spec
=============================================================================
