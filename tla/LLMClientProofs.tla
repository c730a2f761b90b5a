---------------------------- MODULE LLMClientProofs ----------------------------
(***************************************************************************)
(* Proofs about LLMClient for any finite fan-out, any mix of methods and   *)
(* any ceilings: nothing leaks, and completions stay within the ceiling.   *)
(***************************************************************************)
EXTENDS LLMClient, FiniteSetTheorems, TLAPS

\* What a call knows of itself: its types, that it has posts, attempts and
\* repairs left where the code needs one, and which methods get where.
LocalInv ==
    /\ pc \in [Calls -> PCs]
    /\ kind \in [Calls -> AllKinds]
    /\ tries \in [Calls -> 0 .. MaxRetries]
    /\ round \in [Calls -> 0 .. Rounds]
    /\ spent \in [Calls -> 0 .. Rounds]
    /\ strict \in [Calls -> BOOLEAN]
    /\ noStrict \in BOOLEAN
    /\ \A c \in Calls :
         /\ pc[c] \in {"idle", "lookup"} => round[c] = 0 /\ spent[c] = 0
         /\ pc[c] \in {"queued", "backoff"} => tries[c] < MaxRetries
         /\ pc[c] \in PostPCs => spent[c] < round[c]
         /\ pc[c] \in {"streamQueued", "streaming"} => kind[c] = "stream"
         /\ strict[c] => kind[c] = "structured"

CountInv ==
    /\ recorded \in Nat /\ cached \in Nat /\ reserved \in Nat
    /\ free \in Nat /\ streamFree \in Nat /\ answered \in Nat
    /\ NothingLeaks

\* One if the condition holds: what a member adds to a cardinality.
One(p) == IF p THEN 1 ELSE 0

-----------------------------------------------------------------------------
\* Putting one element into a finite set or out of it changes its size by
\* what the element adds.
LEMMA CardMove ==
    ASSUME NEW S, IsFiniteSet(S), NEW c, NEW T,
           T = S \cup {c} \/ T = S \ {c}
    PROVE  /\ Cardinality(S) \in Nat /\ Cardinality(T) \in Nat
           /\ Cardinality(T) + One(c \in S) = Cardinality(S) + One(c \in T)
           /\ c \in S => Cardinality(S) > 0
<1>1. Cardinality(S) \in Nat
  BY FS_CardinalityType
<1>2. c \in S => /\ IsFiniteSet(S \ {c})
                 /\ Cardinality(S \ {c}) = Cardinality(S) - 1
  BY FS_RemoveElement
<1>3. c \in S => Cardinality(S \ {c}) \in Nat
  BY <1>2, FS_CardinalityType
<1>4. c \notin S => Cardinality(S \cup {c}) = Cardinality(S) + 1
  BY FS_AddElement
<1>5. CASE T = S
  BY <1>1, <1>2, <1>3, <1>5
<1>6. CASE T = S \cup {c} /\ c \notin S
  BY <1>1, <1>4, <1>6 DEF One
<1>7. CASE T = S \ {c} /\ c \in S
  <2>1. c \notin T
    BY <1>7
  <2>2. QED
    BY <1>1, <1>2, <1>3, <1>7, <2>1 DEF One
<1>8. QED
  <2>1. c \in S => S \cup {c} = S
    OBVIOUS
  <2>2. c \notin S => S \ {c} = S
    OBVIOUS
  <2>3. QED
    BY <1>5, <1>6, <1>7, <2>1, <2>2

\* How a call's move changes the sizes the counters stand for.
LEMMA Move ==
    ASSUME pc \in [Calls -> PCs], NEW c \in Calls, NEW w \in PCs, Goto(c, w)
    PROVE  /\ Cardinality(InPost)' + One(pc[c] \in PostPCs)
                 = Cardinality(InPost) + One(w \in PostPCs)
           /\ Cardinality(Sent)' + One(pc[c] = "sent")
                 = Cardinality(Sent) + One(w = "sent")
           /\ Cardinality(Streaming)' + One(pc[c] = "streaming")
                 = Cardinality(Streaming) + One(w = "streaming")
           /\ Cardinality(InPost) \in Nat /\ Cardinality(InPost)' \in Nat
           /\ Cardinality(Sent) \in Nat /\ Cardinality(Sent)' \in Nat
           /\ Cardinality(Streaming) \in Nat /\ Cardinality(Streaming)' \in Nat
           /\ pc[c] \in PostPCs => Cardinality(InPost) > 0
<1>1. IsFiniteSet(InPost) /\ IsFiniteSet(Sent) /\ IsFiniteSet(Streaming)
  BY LLMAssumption, FS_Subset DEF InPost, Sent, Streaming
<1>2. \A d \in Calls : pc'[d] = IF d = c THEN w ELSE pc[d]
  BY DEF Goto
<1>3. /\ InPost' = InPost \cup {c} \/ InPost' = InPost \ {c}
      /\ (c \in InPost <=> pc[c] \in PostPCs) /\ (c \in InPost' <=> w \in PostPCs)
  BY <1>2 DEF InPost
<1>4. /\ Sent' = Sent \cup {c} \/ Sent' = Sent \ {c}
      /\ (c \in Sent <=> pc[c] = "sent") /\ (c \in Sent' <=> w = "sent")
  BY <1>2 DEF Sent
<1>5. /\ Streaming' = Streaming \cup {c} \/ Streaming' = Streaming \ {c}
      /\ (c \in Streaming <=> pc[c] = "streaming")
      /\ (c \in Streaming' <=> w = "streaming")
  BY <1>2 DEF Streaming
<1>6. /\ Cardinality(InPost) \in Nat /\ Cardinality(InPost') \in Nat
      /\ Cardinality(InPost') + One(pc[c] \in PostPCs)
            = Cardinality(InPost) + One(w \in PostPCs)
      /\ pc[c] \in PostPCs => Cardinality(InPost) > 0
  BY <1>1, <1>3, CardMove DEF One
<1>7. /\ Cardinality(Sent) \in Nat /\ Cardinality(Sent') \in Nat
      /\ Cardinality(Sent') + One(pc[c] = "sent")
            = Cardinality(Sent) + One(w = "sent")
  BY <1>1, <1>4, CardMove DEF One
<1>8. /\ Cardinality(Streaming) \in Nat /\ Cardinality(Streaming') \in Nat
      /\ Cardinality(Streaming') + One(pc[c] = "streaming")
            = Cardinality(Streaming) + One(w = "streaming")
  BY <1>1, <1>5, CardMove DEF One
<1>9. QED
  BY <1>6, <1>7, <1>8

-----------------------------------------------------------------------------
\* Each call keeps what it knows of itself, whatever the others do.
LEMMA NextLocal == LocalInv /\ [Next]_vars => LocalInv'
<1> SUFFICES ASSUME LocalInv, [Next]_vars
             PROVE  LocalInv'
  OBVIOUS
<1> USE LLMAssumption DEF LocalInv, PCs, PostPCs, AllKinds, Goto
<1>1. ASSUME NEW c \in Calls, Begin(c)
      PROVE  LocalInv'
  BY <1>1 DEF Begin
<1>2. ASSUME NEW c \in Calls, CacheHit(c)
      PROVE  LocalInv'
  BY <1>2 DEF CacheHit
<1>3. ASSUME NEW c \in Calls, CacheMiss(c)
      PROVE  LocalInv'
  BY <1>3 DEF CacheMiss, Post
<1>4. ASSUME NEW c \in Calls, Send(c)
      PROVE  LocalInv'
  BY <1>4 DEF Send
<1>5. ASSUME NEW c \in Calls, Transient(c)
      PROVE  LocalInv'
  BY <1>5 DEF Transient
<1>6. ASSUME NEW c \in Calls, Wake(c)
      PROVE  LocalInv'
  BY <1>6 DEF Wake
<1>7. ASSUME NEW c \in Calls, Complete(c)
      PROVE  LocalInv'
  BY <1>7 DEF Complete
<1>8. ASSUME NEW c \in Calls, Validated(c)
      PROVE  LocalInv'
  BY <1>8 DEF Validated
<1>9. ASSUME NEW c \in Calls, Invalid(c)
      PROVE  LocalInv'
  BY <1>9 DEF Invalid, Post
<1>10. ASSUME NEW c \in Calls, Unsupported(c)
       PROVE  LocalInv'
  BY <1>10 DEF Unsupported, Post
<1>11. ASSUME NEW c \in Calls, Rejected(c)
       PROVE  LocalInv'
  BY <1>11 DEF Rejected
<1>12. ASSUME NEW c \in Calls, StreamOpen(c)
       PROVE  LocalInv'
  BY <1>12 DEF StreamOpen
<1>13. ASSUME NEW c \in Calls, StreamEnd(c)
       PROVE  LocalInv'
  BY <1>13 DEF StreamEnd
<1>14. ASSUME NEW c \in Calls, Cancel(c)
       PROVE  LocalInv'
  BY <1>14 DEF Cancel
<1>15. CASE UNCHANGED vars
  BY <1>15 DEF vars, callVars
<1>16. QED
  BY <1>1, <1>2, <1>3, <1>4, <1>5, <1>6, <1>7, <1>8, <1>9, <1>10, <1>11,
     <1>12, <1>13, <1>14, <1>15 DEF Next, Step, Own, Answer

\* Each step keeps the counters equal to what they count.
LEMMA NextCount == LocalInv /\ CountInv /\ [Next]_vars => CountInv'
<1> SUFFICES ASSUME LocalInv, CountInv, [Next]_vars
             PROVE  CountInv'
  OBVIOUS
<1> USE LLMAssumption DEF LocalInv, CountInv, NothingLeaks, PCs, PostPCs,
        AllKinds, One
<1>1. ASSUME NEW c \in Calls, Begin(c)
      PROVE  CountInv'
  BY <1>1, Move DEF Begin, ledger
<1>2. ASSUME NEW c \in Calls, CacheHit(c)
      PROVE  CountInv'
  BY <1>2, Move DEF CacheHit
<1>3. ASSUME NEW c \in Calls, CacheMiss(c)
      PROVE  CountInv'
  BY <1>3, Move DEF CacheMiss, Post
<1>4. ASSUME NEW c \in Calls, Send(c)
      PROVE  CountInv'
  BY <1>4, Move DEF Send, ledger
<1>5. ASSUME NEW c \in Calls, Transient(c)
      PROVE  CountInv'
  BY <1>5, Move DEF Transient
<1>6. ASSUME NEW c \in Calls, Wake(c)
      PROVE  CountInv'
  BY <1>6, Move DEF Wake, ledger
<1>7. ASSUME NEW c \in Calls, Complete(c)
      PROVE  CountInv'
  BY <1>7, Move DEF Complete
<1>8. ASSUME NEW c \in Calls, Validated(c)
      PROVE  CountInv'
  BY <1>8, Move DEF Validated
<1>9. ASSUME NEW c \in Calls, Invalid(c)
      PROVE  CountInv'
  BY <1>9, Move DEF Invalid, Post
<1>10. ASSUME NEW c \in Calls, Unsupported(c)
       PROVE  CountInv'
  BY <1>10, Move DEF Unsupported, Post
<1>11. ASSUME NEW c \in Calls, Rejected(c)
       PROVE  CountInv'
  BY <1>11, Move DEF Rejected
<1>12. ASSUME NEW c \in Calls, StreamOpen(c)
       PROVE  CountInv'
  BY <1>12, Move DEF StreamOpen, ledger
<1>13. ASSUME NEW c \in Calls, StreamEnd(c)
       PROVE  CountInv'
  BY <1>13, Move DEF StreamEnd
<1>14. ASSUME NEW c \in Calls, Cancel(c)
       PROVE  CountInv'
  BY <1>14, Move DEF Cancel
<1>15. CASE UNCHANGED vars
  BY <1>15 DEF vars, callVars, ledger, InPost, Sent, Streaming
<1>16. QED
  BY <1>1, <1>2, <1>3, <1>4, <1>5, <1>6, <1>7, <1>8, <1>9, <1>10, <1>11,
     <1>12, <1>13, <1>14, <1>15 DEF Next, Step, Own, Answer

\* Where every call is a completion, a claim is made only below the ceiling
\* and a record replaces the claim it was made under.
LEMMA NextCeiling ==
    LocalInv /\ CountInv /\ CompletionsWithinCeiling /\ [Next]_vars
       => CompletionsWithinCeiling'
<1> SUFFICES ASSUME LocalInv, CountInv, CompletionsWithinCeiling, [Next]_vars,
                    (\A c \in Calls : kind[c] = "complete")'
             PROVE  recorded' + reserved' <= MaxCalls
  BY DEF CompletionsWithinCeiling
<1> USE LLMAssumption DEF LocalInv, CountInv
<1>1. kind' = kind
  BY DEF Next, Step, Own, Answer, Begin, CacheHit, CacheMiss, Send, Transient,
         Wake, Complete, Validated, Invalid, Unsupported, Rejected, StreamOpen,
         StreamEnd, Cancel, vars, callVars
<1>2. recorded + reserved <= MaxCalls /\ \A c \in Calls : kind[c] = "complete"
  BY <1>1 DEF CompletionsWithinCeiling
<1>3. ASSUME NEW c \in Calls, CacheMiss(c)
      PROVE  recorded' + reserved' <= MaxCalls
  BY <1>2, <1>3 DEF CacheMiss, Post
<1>4. ASSUME NEW c \in Calls, Complete(c)
      PROVE  recorded' + reserved' <= MaxCalls
  BY <1>2, <1>4 DEF Complete
<1>5. ASSUME NEW c \in Calls,
             Transient(c) \/ Rejected(c) \/ Cancel(c)
      PROVE  recorded' + reserved' <= MaxCalls
  BY <1>2, <1>5 DEF Transient, Rejected, Cancel
<1>6. ASSUME NEW c \in Calls, Begin(c) \/ CacheHit(c) \/ Send(c) \/ Wake(c)
                              \/ StreamOpen(c)
      PROVE  recorded' + reserved' <= MaxCalls
  BY <1>2, <1>6 DEF Begin, CacheHit, Send, Wake, StreamOpen, ledger
<1>7. ASSUME NEW c \in Calls, StreamEnd(c) \/ Validated(c) \/ Invalid(c)
                              \/ Unsupported(c)
      PROVE  FALSE
  BY <1>2, <1>7 DEF StreamEnd, Validated, Invalid, Unsupported
<1>8. CASE UNCHANGED vars
  BY <1>2, <1>8 DEF vars, ledger
<1>9. QED
  BY <1>3, <1>4, <1>5, <1>6, <1>7, <1>8 DEF Next, Step, Own, Answer

\* The inductive invariant.
IInv == LocalInv /\ CountInv /\ CompletionsWithinCeiling

\* The initial states satisfy the inductive invariant.
LEMMA InitIInv == Init => IInv
<1> SUFFICES ASSUME Init
             PROVE  IInv
  OBVIOUS
<1>1. InPost = {} /\ Sent = {} /\ Streaming = {}
  BY DEF Init, InPost, Sent, Streaming, PostPCs
<1>2. LocalInv
  <2>1. kind \in [Calls -> AllKinds]
    BY LLMAssumption DEF Init
  <2>2. 0 \in 0 .. MaxRetries /\ 0 \in 0 .. Rounds
    BY LLMAssumption
  <2>3. /\ pc \in [Calls -> PCs]
        /\ tries \in [Calls -> 0 .. MaxRetries]
        /\ round \in [Calls -> 0 .. Rounds] /\ spent \in [Calls -> 0 .. Rounds]
        /\ strict \in [Calls -> BOOLEAN] /\ noStrict \in BOOLEAN
    BY <2>2 DEF Init, PCs
  <2>4. QED
    BY <2>1, <2>3 DEF Init, LocalInv, PostPCs
<1>3. CountInv
  BY <1>1, FS_EmptySet, LLMAssumption DEF Init, CountInv, NothingLeaks
<1>4. CompletionsWithinCeiling
  BY LLMAssumption DEF Init, CompletionsWithinCeiling
<1>5. QED
  BY <1>2, <1>3, <1>4 DEF IInv

\* The inductive invariant holds in every reachable state.
LEMMA IInvHolds == Spec => []IInv
<1>1. IInv /\ [Next]_vars => IInv'
  BY NextLocal, NextCount, NextCeiling DEF IInv
<1>2. QED
  BY InitIInv, <1>1, PTL DEF Spec

\* Every variable keeps its type; that the permits stay in range is where
\* the counters and what they count have to agree.
THEOREM TypeCorrect == Spec => []TypeOK
<1>1. IInv => TypeOK
  <2> SUFFICES ASSUME IInv
               PROVE  TypeOK
    OBVIOUS
  <2>1. IsFiniteSet(Sent) /\ IsFiniteSet(Streaming)
    BY LLMAssumption, FS_Subset DEF Sent, Streaming
  <2>2. Cardinality(Sent) \in Nat /\ Cardinality(Streaming) \in Nat
    BY <2>1, FS_CardinalityType
  <2>3. free \in 0 .. MaxConcurrency /\ streamFree \in 0 .. MaxStreams
    BY <2>2, LLMAssumption DEF IInv, CountInv, NothingLeaks
  <2>4. QED
    BY <2>3 DEF IInv, LocalInv, CountInv, TypeOK
<1>2. QED
  BY <1>1, IInvHolds, PTL

\* No path through a call keeps a reservation or a permit.
THEOREM NoLeak == Spec => []NothingLeaks
<1>1. IInv => NothingLeaks
  BY DEF IInv, CountInv
<1>2. QED
  BY <1>1, IInvHolds, PTL

\* The ceiling on calls holds for completions under every interleaving.
THEOREM CeilingHolds == Spec => []CompletionsWithinCeiling
<1>1. IInv => CompletionsWithinCeiling
  BY DEF IInv
<1>2. QED
  BY <1>1, IInvHolds, PTL
=============================================================================
