--------------------------- MODULE SanicCallProofs ---------------------------
(***************************************************************************)
(* Proofs about SanicCall, for any requests, calls and counted attempts.   *)
(***************************************************************************)
EXTENDS SanicCall, TLAPS

(***************************************************************************)
(* The invariant.  A call that was made has captured its maker's context   *)
(* and was sent with it.  A call that has returned a state has succeeded   *)
(* and is not made again; what a call carries or returns, and what a       *)
(* request has, are updates that were applied for that request, but for    *)
(* the returning call's own.  As long as the calls of a request follow one *)
(* another, the one that is under way carries all of the request's state.  *)
(***************************************************************************)
ContextInv ==
  \A c \in Call :
    /\ point[c] # "idle" => context[c] = maker[c] /\ sent[c] = maker[c]
    /\ point[c] = "idle" => attempts[c] = 0

Ended == {"answered", "hasty", "over", "done"}

ReturnInv ==
  \A c \in Call : arriving[c] # {} \/ c \in applied => code[c] = "OK" /\ point[c] \in Ended

AppliedFor(q) == {c \in applied : maker[c] = q}

StateInv ==
  /\ \A c \in Call : /\ carried[c] \subseteq AppliedFor(maker[c])
                      /\ arriving[c] \subseteq AppliedFor(maker[c]) \cup {c}
  /\ \A q \in Request : state[q] \subseteq AppliedFor(q)

SequenceInv ==
  \A q \in Request \ overlap :
    /\ state[q] = AppliedFor(q)
    /\ \A c \in Call : maker[c] = q /\ UnderWay(c) =>
         /\ \A d \in Call : maker[d] = q /\ UnderWay(d) => d = c
         /\ c \notin applied => carried[c] = AppliedFor(q)
         /\ arriving[c] # {} => /\ c \notin applied
                                /\ arriving[c] = carried[c] \cup {c}

(* Only a call whose result is set is yet to be observed.                    *)
FinishingInv == \A c \in Call : finishing[c] # "nobody" => point[c] \in {"over", "done"}

SanicInv ==
  TypeOK /\ ContextInv /\ FinishingInv /\ ObservedOnce /\ ReturnInv /\ StateInv /\ SequenceInv

LEMMA InitSanicInv == Init => SanicInv
<1> SUFFICES ASSUME Init PROVE SanicInv
  OBVIOUS
<1> USE SanicAssumption
<1>1. TypeOK
  BY DEF Init, TypeOK, LoopPoint, Point, Finisher, Code
<1>2. ContextInv /\ FinishingInv /\ ObservedOnce
  BY DEF Init, ContextInv, FinishingInv, ObservedOnce
<1>3. ReturnInv /\ StateInv
  BY DEF Init, ReturnInv, StateInv, AppliedFor
<1>4. SequenceInv
  BY DEF Init, SequenceInv, AppliedFor, UnderWay
<1> QED
  BY <1>1, <1>2, <1>3, <1>4 DEF SanicInv

LEMMA OverType ==
  ASSUME TypeOK, NEW c \in Call, NEW who \in Finisher, Over(c, who)
  PROVE  /\ point' \in [Call -> Point] /\ finishing' \in [Call -> Finisher]
         /\ observed' \in [Call -> Seq(Nat)]
BY DEF Over, TypeOK, Point

LEMMA CallMethodType ==
  ASSUME TypeOK, NEW c \in Call, CallMethod(c), (context' \in [Call -> Request \cup {None}])
  PROVE  /\ point' \in [Call -> Point] /\ finishing' \in [Call -> Finisher]
         /\ observed' \in [Call -> Seq(Nat)]
         /\ code' \in [Call -> Code \cup {None}]
         /\ sent' \in [Call -> Request \cup {None}] /\ carried' \in [Call -> SUBSET Call]
         /\ attempts' \in [Call -> 0..MaxAttempts]
<1>1. ContextOf(c) \in Request \cup {None}
  BY DEF ContextOf
<1>2. StateSent(ContextOf(c)) \subseteq Call
  BY <1>1 DEF StateSent, TypeOK
<1>3. /\ point' \in [Call -> Point] /\ finishing' \in [Call -> Finisher]
      /\ observed' \in [Call -> Seq(Nat)]
  BY OverType DEF CallMethod, metricVars, TypeOK, Point, Finisher
<1>5. code' \in [Call -> Code \cup {None}]
  BY DEF CallMethod, TypeOK
<1>6. sent' \in [Call -> Request \cup {None}] /\ carried' \in [Call -> SUBSET Call]
  BY <1>1, <1>2 DEF CallMethod, TypeOK
<1>7. attempts' \in [Call -> 0..MaxAttempts]
  BY SanicAssumption DEF CallMethod, TypeOK
<1> QED
  BY <1>3, <1>5, <1>6, <1>7

(* A call whose result is set has yet to be observed. *)
LEMMA OverObserves ==
  ASSUME TypeOK, FinishingInv, ObservedOnce, NEW c \in Call, point[c] \notin {"over", "done"},
         NEW who \in Finisher \ {"nobody"}, Over(c, who)
  PROVE  FinishingInv' /\ ObservedOnce'
BY DEF Over, TypeOK, FinishingInv, ObservedOnce

(* Steps that only end calls, or move them on, leave the sequence alone. *)
LEMMA SequenceKept ==
  ASSUME SequenceInv, UNCHANGED <<maker, carried, arriving, state, applied, overlap>>,
         \A c \in Call : UnderWay(c)' => UnderWay(c)
  PROVE  SequenceInv'
<1> SUFFICES ASSUME NEW q \in Request \ overlap
             PROVE  /\ state[q] = AppliedFor(q)
                    /\ \A c \in Call : maker[c] = q /\ UnderWay(c)' =>
                         /\ \A d \in Call : maker[d] = q /\ UnderWay(d)' => d = c
                         /\ c \notin applied => carried[c] = AppliedFor(q)
                         /\ arriving[c] # {} => /\ c \notin applied
                                                /\ arriving[c] = carried[c] \cup {c}
  BY DEF SequenceInv, AppliedFor
<1> QED
  BY DEF SequenceInv

(* Every step keeps the types. *)
LEMMA NextTypeOK == TypeOK /\ [Next]_vars => TypeOK'
<1> SUFFICES ASSUME TypeOK, [Next]_vars PROVE TypeOK'
  OBVIOUS
<1> USE SanicAssumption
<1>1. CASE Decide
  BY <1>1 DEF Decide, callVars, attemptVars, stateVars, metricVars, TypeOK, LoopPoint,
    Point, Code
<1>2. CASE Select
  BY <1>2 DEF Select, callVars, attemptVars, stateVars, metricVars, TypeOK, LoopPoint,
    Point, Code
<1>3. CASE Wake
  BY <1>3 DEF Wake, callVars, attemptVars, stateVars, metricVars, TypeOK, LoopPoint, Point,
    Code
<1>4. ASSUME NEW c \in Call, BackOff(c) PROVE TypeOK'
  BY <1>4 DEF BackOff, attemptVars, stateVars, metricVars, TypeOK, LoopPoint, Point, Code
<1>5. ASSUME NEW c \in Call, TryAgain(c) PROVE TypeOK'
  <2>1. context' \in [Call -> Request \cup {None}]
    BY <1>5 DEF TryAgain, TypeOK
  <2> QED
    BY <1>5, <2>1, CallMethodType DEF TryAgain, stateVars, TypeOK, LoopPoint
<1>6. ASSUME NEW c \in Call, Resume(c) PROVE TypeOK'
  BY <1>6 DEF Resume, attemptVars, stateVars, metricVars, TypeOK, LoopPoint, Point, Code
<1>7. ASSUME NEW c \in Call, Start(c) PROVE TypeOK'
  <2>1. context' \in [Call -> Request \cup {None}]
    BY <1>7 DEF Start, TypeOK
  <2>2. overlap' \subseteq Request
    BY <1>7 DEF Start, TypeOK
  <2> QED
    BY <1>7, <2>1, <2>2, CallMethodType DEF Start, TypeOK
<1>8. ASSUME NEW c \in Call, Attach(c) PROVE TypeOK'
  BY <1>8 DEF Attach, attemptVars, stateVars, metricVars, TypeOK, LoopPoint, Point, Code
<1>9. ASSUME NEW c \in Call, ProcessResult(c) PROVE TypeOK'
  BY <1>9 DEF ProcessResult, attemptVars, metricVars, TypeOK, LoopPoint, Point, Code
<1>10. ASSUME NEW c \in Call, SetResult(c) PROVE TypeOK'
  <2>1. SetBy(c) \in Finisher
    BY DEF SetBy, Finisher
  <2>2. /\ point' \in [Call -> Point] /\ finishing' \in [Call -> Finisher]
        /\ observed' \in [Call -> Seq(Nat)]
    BY <1>10, <2>1, OverType DEF SetResult, metricVars, TypeOK, Point
  <2>3. loop' \in LoopPoint
    BY <1>10 DEF SetResult, TypeOK, LoopPoint
  <2> QED
    BY <1>10, <2>2, <2>3 DEF SetResult, attemptVars, stateVars, TypeOK
<1>11. ASSUME NEW c \in Call, NEW k \in Code, Complete(c, k) PROVE TypeOK'
  <2>1. arriving' \in [Call -> SUBSET Call]
    <3>1. CASE UNCHANGED arriving
      BY <3>1 DEF TypeOK
    <3>2. CASE arriving' = [arriving EXCEPT ![c] = carried[c] \cup {c}]
      BY <3>2 DEF TypeOK
    <3> QED
      BY <1>11, <3>1, <3>2 DEF Complete
  <2>2. point' \in [Call -> Point]
    BY <1>11 DEF Complete, TypeOK, Point
  <2>3. code' \in [Call -> Code \cup {None}]
    BY <1>11 DEF Complete, TypeOK
  <2> QED
    BY <1>11, <2>1, <2>2, <2>3 DEF Complete, metricVars, TypeOK
<1>12. ASSUME NEW c \in Call, Observe(c) PROVE TypeOK'
  <2>1. Append(observed[c], retry_cnt) \in Seq(Nat)
    BY DEF TypeOK, retry_cnt
  <2>2. observed' \in [Call -> Seq(Nat)] /\ finishing' \in [Call -> Finisher]
    BY <1>12, <2>1 DEF Observe, TypeOK, Finisher
  <2> QED
    BY <1>12, <2>2 DEF Observe, attemptVars, stateVars, TypeOK
<1>13. CASE UNCHANGED vars
  BY <1>13 DEF vars, callVars, attemptVars, stateVars, metricVars, TypeOK, LoopPoint,
    Point, Code
<1> QED
  BY <1>1, <1>2, <1>3, <1>4, <1>5, <1>6, <1>7, <1>8, <1>9, <1>10, <1>11, <1>12, <1>13
    DEF Next, LoopStep

(* The context of a call is its maker's. *)
LEMMA NextContextInv == TypeOK /\ ContextInv /\ [Next]_vars => ContextInv'
<1> SUFFICES ASSUME TypeOK, ContextInv, [Next]_vars PROVE ContextInv'
  OBVIOUS
<1> USE SanicAssumption
<1>1. CASE Decide
  BY <1>1 DEF Decide, callVars, attemptVars, stateVars, metricVars, TypeOK, ContextInv
<1>2. CASE Select
  BY <1>2 DEF Select, callVars, attemptVars, stateVars, metricVars, TypeOK, ContextInv
<1>3. CASE Wake
  BY <1>3 DEF Wake, callVars, attemptVars, stateVars, metricVars, TypeOK, ContextInv
<1>4. ASSUME NEW c \in Call, BackOff(c) PROVE ContextInv'
  BY <1>4 DEF BackOff, attemptVars, stateVars, TypeOK, ContextInv
<1>5. ASSUME NEW c \in Call, TryAgain(c) PROVE ContextInv'
  BY <1>5 DEF TryAgain, CallMethod, Over, ContextOf, StateSent, stateVars,
    TypeOK, ContextInv
<1>6. ASSUME NEW c \in Call, Resume(c) PROVE ContextInv'
  BY <1>6 DEF Resume, attemptVars, stateVars, TypeOK, ContextInv
<1>7. ASSUME NEW c \in Call, Start(c) PROVE ContextInv'
  BY <1>7 DEF Start, CallMethod, Over, ContextOf, StateSent, UnderWay, TypeOK,
    ContextInv
<1>8. ASSUME NEW c \in Call, Attach(c) PROVE ContextInv'
  BY <1>8 DEF Attach, attemptVars, stateVars, TypeOK, ContextInv
<1>9. ASSUME NEW c \in Call, ProcessResult(c) PROVE ContextInv'
  BY <1>9 DEF ProcessResult, attemptVars, TypeOK, ContextInv
<1>10. ASSUME NEW c \in Call, SetResult(c) PROVE ContextInv'
  BY <1>10 DEF SetResult, Over, CanSetResult, DoRetry, MaxRetries, retry_cnt,
    attemptVars, stateVars, TypeOK, ContextInv
<1>11. ASSUME NEW c \in Call, NEW k \in Code, Complete(c, k) PROVE ContextInv'
  BY <1>11 DEF Complete, TypeOK, ContextInv
<1>12. ASSUME NEW c \in Call, Observe(c) PROVE ContextInv'
  BY <1>12 DEF Observe, attemptVars, ContextInv
<1>13. CASE UNCHANGED vars
  BY <1>13 DEF vars, callVars, attemptVars, stateVars, metricVars, TypeOK, ContextInv
<1> QED
  BY <1>1, <1>2, <1>3, <1>4, <1>5, <1>6, <1>7, <1>8, <1>9, <1>10, <1>11, <1>12, <1>13
    DEF Next, LoopStep

(* A call is observed once, by whoever set its result. *)
LEMMA NextObservedOnce ==
  TypeOK /\ FinishingInv /\ ObservedOnce /\ [Next]_vars => FinishingInv' /\ ObservedOnce'
<1> SUFFICES ASSUME TypeOK, FinishingInv, ObservedOnce, [Next]_vars
             PROVE  FinishingInv' /\ ObservedOnce'
  OBVIOUS
<1> USE SanicAssumption
<1>1. CASE Decide
  BY <1>1 DEF Decide, callVars, attemptVars, stateVars, metricVars, TypeOK, FinishingInv, ObservedOnce
<1>2. CASE Select
  BY <1>2 DEF Select, callVars, attemptVars, stateVars, metricVars, TypeOK, FinishingInv, ObservedOnce
<1>3. CASE Wake
  BY <1>3 DEF Wake, callVars, attemptVars, stateVars, metricVars, TypeOK, FinishingInv, ObservedOnce
<1>4. ASSUME NEW c \in Call, BackOff(c) PROVE FinishingInv' /\ ObservedOnce'
  BY <1>4 DEF BackOff, attemptVars, stateVars, metricVars, TypeOK, FinishingInv, ObservedOnce
<1>5. ASSUME NEW c \in Call, TryAgain(c) PROVE FinishingInv' /\ ObservedOnce'
  <2>1. CASE point' = [point EXCEPT ![c] = "calling"] /\ UNCHANGED metricVars
    BY <1>5, <2>1 DEF TryAgain, metricVars, TypeOK, FinishingInv, ObservedOnce
  <2>2. CASE Over(c, "loop")
    BY <1>5, <2>2, OverObserves DEF TryAgain, Finisher
  <2> QED
    BY <1>5, <2>1, <2>2 DEF TryAgain, CallMethod
<1>6. ASSUME NEW c \in Call, Resume(c) PROVE FinishingInv' /\ ObservedOnce'
  BY <1>6 DEF Resume, attemptVars, stateVars, metricVars, TypeOK, FinishingInv, ObservedOnce
<1>7. ASSUME NEW c \in Call, Start(c) PROVE FinishingInv' /\ ObservedOnce'
  <2>1. CASE point' = [point EXCEPT ![c] = "calling"] /\ UNCHANGED metricVars
    BY <1>7, <2>1 DEF Start, metricVars, TypeOK, FinishingInv, ObservedOnce
  <2>2. CASE Over(c, "loop")
    BY <1>7, <2>2, OverObserves DEF Start, UnderWay, Finisher
  <2> QED
    BY <1>7, <2>1, <2>2 DEF Start, CallMethod
<1>8. ASSUME NEW c \in Call, Attach(c) PROVE FinishingInv' /\ ObservedOnce'
  BY <1>8 DEF Attach, attemptVars, stateVars, metricVars, TypeOK, FinishingInv, ObservedOnce
<1>9. ASSUME NEW c \in Call, ProcessResult(c) PROVE FinishingInv' /\ ObservedOnce'
  BY <1>9 DEF ProcessResult, attemptVars, metricVars, TypeOK, FinishingInv, ObservedOnce
<1>10. ASSUME NEW c \in Call, SetResult(c) PROVE FinishingInv' /\ ObservedOnce'
  <2>1. CASE point' = [point EXCEPT ![c] = "ready"] /\ UNCHANGED metricVars
    BY <1>10, <2>1 DEF SetResult, CanSetResult, metricVars, TypeOK, FinishingInv, ObservedOnce
  <2>2. CASE Over(c, SetBy(c))
    BY <1>10, <2>2, OverObserves DEF SetResult, SetBy, CanSetResult, Finisher
  <2> QED
    BY <1>10, <2>1, <2>2 DEF SetResult
<1>11. ASSUME NEW c \in Call, NEW k \in Code, Complete(c, k) PROVE FinishingInv' /\ ObservedOnce'
  BY <1>11 DEF Complete, metricVars, TypeOK, FinishingInv, ObservedOnce
<1>12. ASSUME NEW c \in Call, Observe(c) PROVE FinishingInv' /\ ObservedOnce'
  <2>1. FinishingInv'
    BY <1>12 DEF Observe, TypeOK, FinishingInv
  <2>2. ASSUME NEW d \in Call
        PROVE  Len(observed'[d]) =
                 IF point'[d] \in {"over", "done"} /\ finishing'[d] = "nobody" THEN 1 ELSE 0
    <3>1. CASE d = c
      <4>1. observed[c] \in Seq(Nat) /\ Len(observed[c]) = 0 /\ point[c] \in {"over", "done"}
        BY <1>12 DEF Observe, TypeOK, FinishingInv, ObservedOnce
      <4>2. /\ observed'[c] = Append(observed[c], retry_cnt)
            /\ finishing'[c] = "nobody" /\ point'[c] = point[c]
        BY <1>12 DEF Observe, TypeOK
      <4> QED
        BY <3>1, <4>1, <4>2 DEF retry_cnt
    <3>2. CASE d # c
      BY <1>12, <3>2 DEF Observe, TypeOK, ObservedOnce
    <3> QED
      BY <3>1, <3>2
  <2> QED
    BY <2>1, <2>2 DEF ObservedOnce
<1>13. CASE UNCHANGED vars
  BY <1>13 DEF vars, callVars, attemptVars, stateVars, metricVars, TypeOK, FinishingInv, ObservedOnce
<1> QED
  BY <1>1, <1>2, <1>3, <1>4, <1>5, <1>6, <1>7, <1>8, <1>9, <1>10, <1>11, <1>12, <1>13
    DEF Next, LoopStep

(* A call that has returned a state is not made again. *)
LEMMA NextReturnInv == TypeOK /\ ReturnInv /\ [Next]_vars => ReturnInv'
<1> SUFFICES ASSUME TypeOK, ReturnInv, [Next]_vars PROVE ReturnInv'
  OBVIOUS
<1> USE SanicAssumption
<1>1. CASE Decide
  BY <1>1 DEF Decide, callVars, attemptVars, stateVars, metricVars, TypeOK, ReturnInv, Ended
<1>2. CASE Select
  BY <1>2 DEF Select, callVars, attemptVars, stateVars, metricVars, TypeOK, ReturnInv, Ended
<1>3. CASE Wake
  BY <1>3 DEF Wake, callVars, attemptVars, stateVars, metricVars, TypeOK, ReturnInv, Ended
<1>4. ASSUME NEW c \in Call, BackOff(c) PROVE ReturnInv'
  BY <1>4 DEF BackOff, attemptVars, stateVars, TypeOK, ReturnInv, Ended
<1>5. ASSUME NEW c \in Call, TryAgain(c) PROVE ReturnInv'
  BY <1>5 DEF TryAgain, CallMethod, Over, ContextOf, StateSent, stateVars,
    TypeOK, ReturnInv, Ended
<1>6. ASSUME NEW c \in Call, Resume(c) PROVE ReturnInv'
  BY <1>6 DEF Resume, attemptVars, stateVars, TypeOK, ReturnInv, Ended
<1>7. ASSUME NEW c \in Call, Start(c) PROVE ReturnInv'
  BY <1>7 DEF Start, CallMethod, Over, ContextOf, StateSent, UnderWay, TypeOK,
    ReturnInv, Ended
<1>8. ASSUME NEW c \in Call, Attach(c) PROVE ReturnInv'
  BY <1>8 DEF Attach, attemptVars, stateVars, TypeOK, ReturnInv, Ended
<1>9. ASSUME NEW c \in Call, ProcessResult(c) PROVE ReturnInv'
  BY <1>9 DEF ProcessResult, attemptVars, TypeOK, ReturnInv, Ended
<1>10. ASSUME NEW c \in Call, SetResult(c) PROVE ReturnInv'
  <2>1. ASSUME NEW d \in Call, arriving[d] # {} \/ d \in applied
        PROVE  code[d] = "OK" /\ point'[d] \in Ended
    <3>1. code[d] = "OK" /\ point[d] \in Ended
      BY <2>1 DEF ReturnInv
    <3>2. CASE d = c
      <4>1. ~DoRetry(code[c])
        BY <3>1, <3>2 DEF DoRetry, MaxRetries, retry_cnt
      <4> QED
        BY <1>10, <3>2, <3>1, <4>1 DEF SetResult, Over, TypeOK, Ended
    <3>3. CASE d # c
      BY <1>10, <3>1, <3>3 DEF SetResult, Over, TypeOK
    <3> QED
      BY <3>2, <3>3
  <2> QED
    BY <1>10, <2>1 DEF SetResult, attemptVars, stateVars, ReturnInv
<1>11. ASSUME NEW c \in Call, NEW k \in Code, Complete(c, k) PROVE ReturnInv'
  BY <1>11 DEF Complete, TypeOK, ReturnInv, Ended
<1>12. ASSUME NEW c \in Call, Observe(c) PROVE ReturnInv'
  BY <1>12 DEF Observe, attemptVars, stateVars, ReturnInv
<1>13. CASE UNCHANGED vars
  BY <1>13 DEF vars, callVars, attemptVars, stateVars, metricVars, TypeOK, ReturnInv, Ended
<1> QED
  BY <1>1, <1>2, <1>3, <1>4, <1>5, <1>6, <1>7, <1>8, <1>9, <1>10, <1>11, <1>12, <1>13
    DEF Next, LoopStep

(* Updates are applied for the request that made the call. *)
LEMMA NextStateInv ==
  TypeOK /\ ContextInv /\ ReturnInv /\ StateInv /\ [Next]_vars => StateInv'
<1> SUFFICES ASSUME TypeOK, ContextInv, ReturnInv, StateInv, [Next]_vars
             PROVE StateInv'
  OBVIOUS
<1> USE SanicAssumption
<1>1. CASE Decide
  BY <1>1 DEF Decide, callVars, attemptVars, stateVars, metricVars, TypeOK, ContextInv,
    ReturnInv, Ended, StateInv, AppliedFor
<1>2. CASE Select
  BY <1>2 DEF Select, callVars, attemptVars, stateVars, metricVars, TypeOK, ContextInv,
    ReturnInv, Ended, StateInv, AppliedFor
<1>3. CASE Wake
  BY <1>3 DEF Wake, callVars, attemptVars, stateVars, metricVars, TypeOK, ContextInv,
    ReturnInv, Ended, StateInv, AppliedFor
<1>4. ASSUME NEW c \in Call, BackOff(c) PROVE StateInv'
  BY <1>4 DEF BackOff, attemptVars, stateVars, TypeOK, ContextInv, ReturnInv,
    Ended, StateInv, AppliedFor
<1>5. ASSUME NEW c \in Call, TryAgain(c) PROVE StateInv'
  BY <1>5 DEF TryAgain, CallMethod, Over, ContextOf, StateSent, stateVars,
    TypeOK, ContextInv, ReturnInv, Ended, StateInv, AppliedFor
<1>6. ASSUME NEW c \in Call, Resume(c) PROVE StateInv'
  BY <1>6 DEF Resume, attemptVars, stateVars, TypeOK, ContextInv, ReturnInv,
    Ended, StateInv, AppliedFor
<1>7. ASSUME NEW c \in Call, Start(c) PROVE StateInv'
  BY <1>7 DEF Start, CallMethod, Over, ContextOf, StateSent, UnderWay, TypeOK,
    ContextInv, ReturnInv, Ended, StateInv, AppliedFor
<1>8. ASSUME NEW c \in Call, Attach(c) PROVE StateInv'
  BY <1>8 DEF Attach, attemptVars, stateVars, TypeOK, ContextInv, ReturnInv,
    Ended, StateInv, AppliedFor
<1>9. ASSUME NEW c \in Call, ProcessResult(c) PROVE StateInv'
  <2>1. sent[c] = maker[c] /\ maker[c] \in Request /\ maker[c] # None
    BY <1>9 DEF ProcessResult, ReturnInv, Ended, ContextInv, TypeOK
  <2>2. /\ state' = [state EXCEPT ![maker[c]] = arriving[c]]
        /\ arriving' = [arriving EXCEPT ![c] = {}]
        /\ applied' = applied \cup {c} /\ UNCHANGED <<maker, carried>>
    BY <1>9, <2>1 DEF ProcessResult, attemptVars
  <2>3. ASSUME NEW q PROVE AppliedFor(q) \subseteq AppliedFor(q)'
    BY <2>2 DEF AppliedFor
  <2>4. ASSUME NEW q, q = maker[c] PROVE c \in AppliedFor(q)'
    BY <2>2, <2>4 DEF AppliedFor
  <2>5. ASSUME NEW d \in Call
        PROVE  /\ carried'[d] \subseteq AppliedFor(maker[d])'
               /\ arriving'[d] \subseteq AppliedFor(maker[d])' \cup {d}
    BY <2>2, <2>3 DEF StateInv, TypeOK
  <2>6. ASSUME NEW q \in Request PROVE state'[q] \subseteq AppliedFor(q)'
    <3>1. CASE q = maker[c]
      <4>1. arriving[c] \subseteq AppliedFor(q) \cup {c} /\ state'[q] = arriving[c]
        BY <2>1, <2>2, <3>1 DEF StateInv, TypeOK
      <4> QED
        BY <2>3, <2>4, <3>1, <4>1
    <3>2. CASE q # maker[c]
      <4>1. state'[q] = state[q] /\ state[q] \subseteq AppliedFor(q)
        BY <2>2, <3>2 DEF StateInv, TypeOK
      <4> QED
        BY <2>3, <4>1
    <3> QED
      BY <3>1, <3>2
  <2> QED
    BY <2>2, <2>5, <2>6 DEF StateInv
<1>10. ASSUME NEW c \in Call, SetResult(c) PROVE StateInv'
  BY <1>10 DEF SetResult, Over, CanSetResult, DoRetry, MaxRetries, retry_cnt,
    attemptVars, stateVars, TypeOK, ContextInv, ReturnInv, Ended, StateInv,
    AppliedFor
<1>11. ASSUME NEW c \in Call, NEW k \in Code, Complete(c, k) PROVE StateInv'
  <2>1. carried[c] \subseteq AppliedFor(maker[c]) /\ UNCHANGED <<carried, maker, applied, state>>
    BY <1>11 DEF Complete, StateInv
  <2>2. arriving' = arriving \/ arriving' = [arriving EXCEPT ![c] = carried[c] \cup {c}]
    BY <1>11 DEF Complete
  <2>3. ASSUME NEW d \in Call PROVE arriving'[d] \subseteq AppliedFor(maker[d]) \cup {d}
    <3>1. arriving'[d] = arriving[d] \/ (d = c /\ arriving'[d] = carried[c] \cup {c})
      BY <2>2 DEF TypeOK
    <3> QED
      BY <2>1, <3>1 DEF StateInv
  <2> QED
    BY <2>1, <2>3 DEF StateInv, AppliedFor
<1>12. ASSUME NEW c \in Call, Observe(c) PROVE StateInv'
  BY <1>12 DEF Observe, attemptVars, stateVars, StateInv, AppliedFor
<1>13. CASE UNCHANGED vars
  BY <1>13 DEF vars, callVars, attemptVars, stateVars, metricVars, TypeOK, ContextInv,
    ReturnInv, Ended, StateInv, AppliedFor
<1> QED
  BY <1>1, <1>2, <1>3, <1>4, <1>5, <1>6, <1>7, <1>8, <1>9, <1>10, <1>11, <1>12, <1>13
    DEF Next, LoopStep

(* Calls in sequence carry all of the state. *)
LEMMA NextSequenceInv ==
  TypeOK /\ ContextInv /\ ReturnInv /\ SequenceInv /\ [Next]_vars => SequenceInv'
<1> SUFFICES ASSUME TypeOK, ContextInv, ReturnInv, SequenceInv, [Next]_vars
             PROVE SequenceInv'
  OBVIOUS
<1> USE SanicAssumption
<1>1. CASE Decide
  BY <1>1, SequenceKept DEF Decide, UnderWay, attemptVars, stateVars, callVars,
    TypeOK
<1>2. CASE Select
  BY <1>2, SequenceKept DEF Select, UnderWay, attemptVars, stateVars, callVars,
    TypeOK
<1>3. CASE Wake
  BY <1>3, SequenceKept DEF Wake, UnderWay, attemptVars, stateVars, callVars,
    TypeOK
<1>4. ASSUME NEW c \in Call, BackOff(c) PROVE SequenceInv'
  BY <1>4, SequenceKept DEF BackOff, UnderWay, attemptVars, stateVars,
    callVars, TypeOK
<1>5. ASSUME NEW c \in Call, TryAgain(c) PROVE SequenceInv'
  <2>1. sent'[c] = maker[c] /\ maker[c] \in Request /\ maker[c] # None
    BY <1>5 DEF TryAgain, CallMethod, ContextOf, ContextInv, TypeOK
  <2>2. carried' = [carried EXCEPT ![c] = state[maker[c]]]
    <3>1. ContextOf(c) = maker[c]
      BY <1>5 DEF TryAgain, ContextOf, ContextInv, TypeOK
    <3>2. StateSent(ContextOf(c)) = state[maker[c]]
      BY <2>1, <3>1 DEF StateSent
    <3> QED
      BY <1>5, <3>2 DEF TryAgain, CallMethod
  <2>3. UNCHANGED <<maker, arriving, state, applied>> /\ overlap \subseteq overlap'
    BY <1>5 DEF TryAgain, stateVars
  <2>4. \A d \in Call : UnderWay(d)' => UnderWay(d)
    BY <1>5 DEF TryAgain, CallMethod, Over, UnderWay, TypeOK, stateVars
  <2>5. overlap' = overlap /\ UnderWay(c) /\ arriving[c] = {} /\ c \notin applied
    BY <1>5 DEF TryAgain, UnderWay, ReturnInv, Ended, stateVars
  <2>6. ASSUME NEW q \in Request \ overlap, NEW d \in Call, maker[d] = q, UnderWay(d)'
        PROVE  /\ \A e \in Call : maker[e] = q /\ UnderWay(e)' => e = d
               /\ d \notin applied => carried'[d] = AppliedFor(q)
               /\ arriving[d] # {} => /\ d \notin applied
                                      /\ arriving[d] = carried'[d] \cup {d}
    <3>1. UnderWay(d)
      BY <2>4, <2>6
    <3>2. CASE d = c
      BY <2>2, <2>4, <2>5, <2>6, <3>1, <3>2 DEF SequenceInv, TypeOK
    <3>3. CASE d # c
      BY <2>2, <2>4, <2>6, <3>1, <3>3 DEF SequenceInv, TypeOK
    <3> QED
      BY <3>2, <3>3
  <2>7. \A q : AppliedFor(q)' = AppliedFor(q)
    BY <2>3 DEF AppliedFor
  <2> QED
    BY <2>3, <2>5, <2>6, <2>7 DEF SequenceInv
<1>6. ASSUME NEW c \in Call, Resume(c) PROVE SequenceInv'
  BY <1>6, SequenceKept DEF Resume, UnderWay, attemptVars, stateVars, callVars,
    TypeOK
<1>7. ASSUME NEW c \in Call, Start(c) PROVE SequenceInv'
  <2>1. sent'[c] = maker[c] /\ maker[c] \in Request /\ maker[c] # None
    BY <1>7 DEF Start, CallMethod, ContextOf, ContextInv, TypeOK
  <2>2. carried' = [carried EXCEPT ![c] = state[maker[c]]]
    <3>1. ContextOf(c) = maker[c]
      BY <1>7 DEF Start, ContextOf, ContextInv, TypeOK
    <3>2. StateSent(ContextOf(c)) = state[maker[c]]
      BY <2>1, <3>1 DEF StateSent
    <3> QED
      BY <1>7, <3>2 DEF Start, CallMethod
  <2>3. UNCHANGED <<maker, arriving, state, applied>> /\ overlap \subseteq overlap'
    BY <1>7 DEF Start, stateVars
  <2>4. \A d \in Call : d # c => (UnderWay(d)' <=> UnderWay(d))
    BY <1>7 DEF Start, CallMethod, Over, UnderWay, TypeOK
  <2>5. arriving[c] = {} /\ c \notin applied
    BY <1>7 DEF Start, ReturnInv, Ended
  <2>6. maker[c] \notin overlap' => \A d \in Call \ {c} : ~(maker[d] = maker[c] /\ UnderWay(d))
    BY <1>7, <2>1 DEF Start
  <2>7. ASSUME NEW q \in Request \ overlap', NEW d \in Call, maker[d] = q, UnderWay(d)'
        PROVE  /\ \A e \in Call : maker[e] = q /\ UnderWay(e)' => e = d
               /\ d \notin applied => carried'[d] = AppliedFor(q)
               /\ arriving[d] # {} => /\ d \notin applied
                                      /\ arriving[d] = carried'[d] \cup {d}
    <3>1. q \in Request \ overlap /\ state[q] = AppliedFor(q)
      BY <2>3, <2>7 DEF SequenceInv
    <3>2. CASE d = c
      BY <2>2, <2>4, <2>5, <2>6, <2>7, <3>1, <3>2 DEF TypeOK
    <3>3. CASE d # c
      <4>1. maker[c] # q
        BY <2>4, <2>6, <2>7, <3>3
      <4> QED
        BY <2>2, <2>4, <2>7, <3>1, <3>3, <4>1 DEF SequenceInv, TypeOK
    <3> QED
      BY <3>2, <3>3
  <2>8. \A q : AppliedFor(q)' = AppliedFor(q)
    BY <2>3 DEF AppliedFor
  <2>9. \A q \in Request \ overlap' : state[q] = AppliedFor(q)
    BY <2>3 DEF SequenceInv
  <2> QED
    BY <2>3, <2>7, <2>8, <2>9 DEF SequenceInv
<1>8. ASSUME NEW c \in Call, Attach(c) PROVE SequenceInv'
  BY <1>8, SequenceKept DEF Attach, UnderWay, attemptVars, stateVars, callVars,
    TypeOK
<1>9. ASSUME NEW c \in Call, ProcessResult(c) PROVE SequenceInv'
  <2>1. sent[c] = maker[c] /\ maker[c] \in Request /\ maker[c] # None /\ UnderWay(c)
    BY <1>9 DEF ProcessResult, ReturnInv, Ended, ContextInv, TypeOK, UnderWay
  <2>2. /\ state' = [state EXCEPT ![maker[c]] = arriving[c]]
        /\ arriving' = [arriving EXCEPT ![c] = {}]
        /\ applied' = applied \cup {c} /\ UNCHANGED <<point, maker, carried, overlap>>
    BY <1>9, <2>1 DEF ProcessResult, attemptVars
  <2>3. \A d \in Call : UnderWay(d)' => UnderWay(d)
    BY <2>2 DEF UnderWay, TypeOK
  <2>4. ASSUME NEW q \in Request \ overlap
        PROVE  /\ state'[q] = AppliedFor(q)'
               /\ \A d \in Call : maker[d] = q /\ UnderWay(d)' =>
                    /\ \A e \in Call : maker[e] = q /\ UnderWay(e)' => e = d
                    /\ d \notin applied' => carried[d] = AppliedFor(q)'
                    /\ arriving'[d] # {} => /\ d \notin applied'
                                            /\ arriving'[d] = carried[d] \cup {d}
    <3>1. CASE q = maker[c]
      <4>1. arriving[c] = AppliedFor(q) \cup {c}
        BY <1>9, <2>1, <2>4, <3>1 DEF ProcessResult, SequenceInv
      <4>2. AppliedFor(q)' = AppliedFor(q) \cup {c}
        BY <2>2, <3>1 DEF AppliedFor
      <4>3. state'[q] = AppliedFor(q)'
        BY <2>1, <2>2, <3>1, <4>1, <4>2 DEF TypeOK
      <4>4. \A d \in Call : maker[d] = q /\ UnderWay(d)' => d = c
        BY <2>1, <2>3, <2>4, <3>1 DEF SequenceInv
      <4>5. c \in applied' /\ arriving'[c] = {}
        BY <2>2 DEF TypeOK
      <4> QED
        BY <4>3, <4>4, <4>5
    <3>2. CASE q # maker[c]
      <4>1. AppliedFor(q)' = AppliedFor(q)
        BY <2>2, <3>2 DEF AppliedFor
      <4>2. state'[q] = state[q] /\ \A d \in Call : maker[d] = q => arriving'[d] = arriving[d] /\ d # c
        BY <2>2, <3>2 DEF TypeOK
      <4>3. \A d \in Call : d # c => (d \in applied' <=> d \in applied)
        BY <2>2
      <4> QED
        BY <2>3, <2>4, <4>1, <4>2, <4>3 DEF SequenceInv
    <3> QED
      BY <3>1, <3>2
  <2> QED
    BY <2>2, <2>4 DEF SequenceInv
<1>10. ASSUME NEW c \in Call, SetResult(c) PROVE SequenceInv'
  BY <1>10, SequenceKept DEF SetResult, CanSetResult, Over, UnderWay,
    attemptVars,
    stateVars, TypeOK
<1>11. ASSUME NEW c \in Call, NEW k \in Code, Complete(c, k) PROVE SequenceInv'
  <2>1. UNCHANGED <<maker, carried, state, applied, overlap>> /\ UnderWay(c) /\ c \notin applied
    BY <1>11 DEF Complete, UnderWay, ReturnInv, Ended
  <2>2. \A d \in Call : UnderWay(d)' <=> UnderWay(d)
    BY <1>11 DEF Complete, UnderWay, TypeOK
  <2>3. arriving' = arriving \/ arriving' = [arriving EXCEPT ![c] = carried[c] \cup {c}]
    BY <1>11 DEF Complete
  <2>4. ASSUME NEW q \in Request \ overlap, NEW d \in Call, maker[d] = q, UnderWay(d)
        PROVE  /\ \A e \in Call : maker[e] = q /\ UnderWay(e) => e = d
               /\ d \notin applied => carried[d] = AppliedFor(q)
               /\ arriving'[d] # {} => /\ d \notin applied
                                       /\ arriving'[d] = carried[d] \cup {d}
    <3>1. arriving'[d] = arriving[d] \/ (d = c /\ arriving'[d] = carried[d] \cup {d})
      BY <2>3 DEF TypeOK
    <3> QED
      BY <2>1, <2>4, <3>1 DEF SequenceInv
  <2>5. \A q : AppliedFor(q)' = AppliedFor(q)
    BY <2>1 DEF AppliedFor
  <2> QED
    BY <2>1, <2>2, <2>4, <2>5 DEF SequenceInv
<1>12. ASSUME NEW c \in Call, Observe(c) PROVE SequenceInv'
  BY <1>12, SequenceKept DEF Observe, UnderWay, attemptVars, stateVars
<1>13. CASE UNCHANGED vars
  BY <1>13, SequenceKept DEF vars, callVars, attemptVars, stateVars, UnderWay
<1> QED
  BY <1>1, <1>2, <1>3, <1>4, <1>5, <1>6, <1>7, <1>8, <1>9, <1>10, <1>11, <1>12, <1>13
    DEF Next, LoopStep

(* The invariant holds throughout. *)
LEMMA SanicInvariant == Spec => []SanicInv
<1>1. SanicInv /\ [Next]_vars => SanicInv'
  BY NextTypeOK, NextContextInv, NextObservedOnce, NextReturnInv, NextStateInv,
    NextSequenceInv DEF SanicInv
<1> QED
  BY InitSanicInv, <1>1, PTL DEF Spec

(* The loop, the calls and the request states keep their types.              *)
THEOREM TypeCorrect == Spec => []TypeOK
<1>1. SanicInv => TypeOK
  BY DEF SanicInv
<1> QED
  BY SanicInvariant, <1>1, PTL

(* Every attempt, the first and the ones after a backoff, is sent with the   *)
(* context of the request whose task made the call (utils.py:8).             *)
THEOREM ContextsKept == Spec => []ContextKept
<1>1. SanicInv => ContextKept
  <2> SUFFICES ASSUME TypeOK, ContextInv, NEW c \in Call, attempts[c] > 0
               PROVE  sent[c] = maker[c]
    BY DEF SanicInv, ContextKept
  <2> QED
    BY DEF ContextInv
<1> QED
  BY SanicInvariant, <1>1, PTL

(* set_result observes a call exactly once and not before its result is set, *)
(* on whichever thread it runs, though the caller may go on in between.      *)
THEOREM ObservedExactlyOnce == Spec => []ObservedOnce
<1>1. SanicInv => ObservedOnce
  BY DEF SanicInv
<1> QED
  BY SanicInvariant, <1>1, PTL

(* The callbacks on gRPC's threads apply what a callee returns to the        *)
(* request that called it, and only what calls that succeeded return.        *)
THEOREM StatesStay == Spec => []StateStaysWithRequest
<1>1. SanicInv => StateStaysWithRequest
  BY DEF SanicInv, StateInv, ReturnInv, AppliedFor, StateStaysWithRequest,
    TypeOK
<1> QED
  BY SanicInvariant, <1>1, PTL

(* No update of a request's calls is lost while they follow one another.     *)
THEOREM UpdatesAddUp == Spec => []SequentialUpdatesAddUp
<1>1. SanicInv => SequentialUpdatesAddUp
  BY DEF SanicInv, SequenceInv, AppliedFor, SequentialUpdatesAddUp, TypeOK
<1> QED
  BY SanicInvariant, <1>1, PTL
=============================================================================
