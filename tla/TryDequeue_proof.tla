-------------------------- MODULE TryDequeue_proof --------------------------
(***************************************************************************)
(* TLAPS proofs about TryDequeue, for any set of consumers and any number  *)
(* and size of streams.                                                    *)
(***************************************************************************)
EXTENDS TryDequeue, Integers, TLAPS

TypeInv ==
    /\ made \in 0 .. MaxStreams
    /\ size \in [Streams -> 0 .. MaxSize]
    /\ pc \in [Consumers -> {"idle", "score", "best", "rest", "sum"}]
    /\ ptr \in [Consumers -> 0 .. MaxStreams]
    /\ nonEmptyCount \in [Consumers -> 0 .. 3]
    /\ best \in [Consumers -> 0 .. MaxStreams]
    /\ bestSize \in [Consumers -> 0 .. MaxSize]
    /\ total \in [Consumers -> Nat]
    /\ answer \in [Consumers -> {"none", "true", "false", "some", "zero"}]
    /\ alone \in [Consumers -> BOOLEAN]
    /\ sawEmpty \in [Consumers -> BOOLEAN]

(* A stream that is not in the list yet has no elements. *)
UnmadeEmpty == \A s \in Streams : s > made => size[s] = 0

(* The locals of c: a call finds them as the last one left them, and the   *)
(* first loop has a best stream as soon as it has counted one.             *)
LocalsInv(c) ==
    /\ pc[c] = "idle" => /\ nonEmptyCount[c] = 0 /\ best[c] = 0
                         /\ bestSize[c] = 0 /\ total[c] = 0
    /\ pc[c] \in {"score", "best"} =>
           /\ bestSize[c] = 0 <=> nonEmptyCount[c] = 0
           /\ bestSize[c] > 0 => best[c] \in Streams
    /\ pc[c] = "best" => nonEmptyCount[c] > 0

(* A stream that the walk of c has still to come to has an element. *)
SomeAhead(c) == \E s \in 1 .. ptr[c] : size[s] > 0

(* A call that is alone: the best stream has kept what it had, as only     *)
(* producers were about, and as long as the walk has met no element there  *)
(* is one ahead of it, unless the queue was empty when the call began.     *)
LoneInv(c) ==
    alone[c] /\ pc[c] # "idle" =>
        /\ \A d \in Consumers \ {c} : pc[d] = "idle"
        /\ pc[c] # "rest"
        /\ pc[c] \in {"score", "best"} /\ bestSize[c] > 0 =>
               size[best[c]] >= bestSize[c]
        /\ ~sawEmpty[c] /\ pc[c] = "score" /\ nonEmptyCount[c] = 0 => SomeAhead(c)
        /\ ~sawEmpty[c] /\ pc[c] = "sum" /\ total[c] = 0 => SomeAhead(c)

AnswerInv(c) == alone[c] /\ answer[c] \in {"false", "zero"} => sawEmpty[c]

CallInv(c) == LocalsInv(c) /\ LoneInv(c) /\ AnswerInv(c)

(* The inductive invariant. *)
WalkInv == TypeInv /\ UnmadeEmpty /\ \A c \in Consumers : CallInv(c)

-----------------------------------------------------------------------------

(* The inductive invariant holds of a new queue. *)
LEMMA InitWalk == Init => WalkInv
<1> SUFFICES ASSUME Init PROVE WalkInv
  OBVIOUS
<1>1. TypeInv BY TryDequeueAssumption DEF Init, TypeInv, Streams
<1>2. UnmadeEmpty BY DEF Init, UnmadeEmpty
<1>3. \A c \in Consumers : CallInv(c)
  BY DEF Init, CallInv, LocalsInv, LoneInv, AnswerInv
<1>4. QED BY <1>1, <1>2, <1>3 DEF WalkInv

(* What producers do to the streams disturbs no call. *)
LEMMA GrowthKeepsCalls ==
    ASSUME TypeInv, NEW c \in Consumers, CallInv(c),
           UNCHANGED <<pc, locals, answer, history>>,
           \A s \in Streams : size'[s] >= size[s],
           size' \in [Streams -> 0 .. MaxSize]
    PROVE  CallInv(c)'
<1>1. LocalsInv(c)' BY DEF CallInv, LocalsInv, locals
<1>2. AnswerInv(c)' BY DEF CallInv, AnswerInv, history
<1>3. SomeAhead(c) => SomeAhead(c)'
  <2> SUFFICES ASSUME NEW s \in 1 .. ptr[c], size[s] > 0
               PROVE  \E r \in 1 .. ptr'[c] : size'[r] > 0
    BY DEF SomeAhead
  <2>1. s \in Streams /\ s \in 1 .. ptr'[c]
    BY TryDequeueAssumption DEF TypeInv, Streams, locals
  <2>2. size'[s] > 0 BY <2>1 DEF TypeInv
  <2>3. QED BY <2>1, <2>2
<1>4. pc[c] \in {"score", "best"} /\ bestSize[c] > 0 /\ size[best[c]] >= bestSize[c]
          => size'[best[c]] >= bestSize[c]
  <2> SUFFICES ASSUME pc[c] \in {"score", "best"}, bestSize[c] > 0,
                      size[best[c]] >= bestSize[c]
               PROVE  size'[best[c]] >= bestSize[c]
    OBVIOUS
  <2>1. best[c] \in Streams BY DEF CallInv, LocalsInv
  <2>2. QED BY <2>1 DEF TypeInv
<1>5. LoneInv(c)' BY <1>3, <1>4 DEF CallInv, LoneInv, locals, history
<1>6. QED BY <1>1, <1>2, <1>5 DEF CallInv

(* A step of another consumer leaves alone what belongs to c. *)
LeavesTo(c) ==
    /\ pc'[c] = pc[c] /\ nonEmptyCount'[c] = nonEmptyCount[c]
    /\ best'[c] = best[c] /\ bestSize'[c] = bestSize[c]
    /\ total'[c] = total[c] /\ answer'[c] = answer[c]

(* It disturbs no call of c, for that call is not alone. *)
LEMMA RivalKeepsCalls ==
    ASSUME TypeInv, NEW c \in Consumers, CallInv(c), LeavesTo(c),
           alone'[c] => alone[c] /\ pc[c] = "idle",
           sawEmpty[c] => sawEmpty'[c]
    PROVE  CallInv(c)'
<1>1. LocalsInv(c)' BY DEF CallInv, LocalsInv, LeavesTo
<1>2. AnswerInv(c)' BY DEF CallInv, AnswerInv, LeavesTo
<1>3. LoneInv(c)' BY DEF LoneInv, LeavesTo
<1>4. QED BY <1>1, <1>2, <1>3 DEF CallInv

(* So a step inside a call of c keeps the invariant if it keeps c's part. *)
LEMMA StepInCall ==
    ASSUME WalkInv, NEW c \in Consumers, pc[c] # "idle",
           \A d \in Consumers \ {c} : LeavesTo(d),
           alone' = alone,
           \A d \in Consumers : sawEmpty[d] => sawEmpty'[d],
           TypeInv', UnmadeEmpty', CallInv(c)'
    PROVE  WalkInv'
<1>1. ASSUME NEW d \in Consumers PROVE CallInv(d)'
  <2>1. CASE d = c BY <2>1
  <2>2. CASE d # c
    <3>1. alone'[d] => alone[d] /\ pc[d] = "idle"
      BY <2>2 DEF WalkInv, CallInv, LoneInv
    <3>2. TypeInv /\ CallInv(d) /\ LeavesTo(d) BY <2>2 DEF WalkInv
    <3>3. QED BY <3>1, <3>2, RivalKeepsCalls
  <2>3. QED BY <2>1, <2>2
<1>2. QED BY <1>1 DEF WalkInv

-----------------------------------------------------------------------------
(* The steps *)

LEMMA AddProducerKeeps ==
    ASSUME WalkInv, AddProducer PROVE WalkInv'
<1>1. TypeInv' BY TryDequeueAssumption
  DEF WalkInv, TypeInv, AddProducer, locals, history
<1>2. UnmadeEmpty' BY DEF WalkInv, TypeInv, UnmadeEmpty, AddProducer, Streams
<1>3. ASSUME NEW c \in Consumers PROVE CallInv(c)'
  <2>1. /\ UNCHANGED <<pc, locals, answer, history>>
        /\ \A s \in Streams : size'[s] >= size[s]
        /\ size' \in [Streams -> 0 .. MaxSize]
    BY DEF AddProducer, WalkInv, TypeInv
  <2>2. QED BY <2>1, GrowthKeepsCalls DEF WalkInv
<1>4. QED BY <1>1, <1>2, <1>3 DEF WalkInv

LEMMA PutKeeps ==
    ASSUME WalkInv, NEW s \in Streams, Put(s) PROVE WalkInv'
<1>1. /\ size' \in [Streams -> 0 .. MaxSize]
      /\ \A r \in Streams : size'[r] >= size[r]
      /\ \A r \in Streams : r # s => size'[r] = size[r]
  BY TryDequeueAssumption DEF WalkInv, TypeInv, Put
<1>2. TypeInv' BY <1>1 DEF WalkInv, TypeInv, Put, locals, history
<1>3. UnmadeEmpty' BY <1>1 DEF WalkInv, TypeInv, UnmadeEmpty, Put, Streams
<1>4. ASSUME NEW c \in Consumers PROVE CallInv(c)'
  <2>1. UNCHANGED <<pc, locals, answer, history>> BY DEF Put
  <2>2. QED BY <1>1, <2>1, GrowthKeepsCalls DEF WalkInv
<1>5. QED BY <1>2, <1>3, <1>4 DEF WalkInv

(* A call that begins has all streams ahead of it; others become idle or   *)
(* are no longer alone.                                                    *)
LEMMA BeginsKeeps ==
    ASSUME WalkInv, NEW c \in Consumers, NEW at \in {"score", "sum"}, Begins(c, at)
    PROVE  WalkInv'
<1>1. TypeInv'
  BY DEF WalkInv, TypeInv, Begins, Goes, queueVars, Empty
<1>2. UnmadeEmpty' BY DEF WalkInv, UnmadeEmpty, Begins, queueVars
<1>3. ASSUME NEW d \in Consumers, d # c PROVE CallInv(d)'
  <2>1. LeavesTo(d) BY <1>3 DEF WalkInv, TypeInv, Begins, Goes, LeavesTo
  <2>2. /\ alone'[d] => alone[d] /\ pc[d] = "idle"
        /\ sawEmpty[d] => sawEmpty'[d]
    BY <1>3 DEF WalkInv, TypeInv, Begins
  <2>3. QED BY <2>1, <2>2, RivalKeepsCalls DEF WalkInv
<1>4. CallInv(c)'
  <2>1. /\ pc[c] = "idle" /\ pc'[c] = at /\ ptr'[c] = made /\ answer'[c] = "none"
        /\ \A d \in Consumers \ {c} : pc'[d] = pc[d]
        /\ alone'[c] => \A d \in Consumers : pc[d] = "idle"
        /\ sawEmpty'[c] = Empty /\ UNCHANGED <<size, made>>
        /\ nonEmptyCount'[c] = 0 /\ bestSize'[c] = 0
    BY DEF WalkInv, TypeInv, Begins, Goes, queueVars, CallInv, LocalsInv
  <2>2. LocalsInv(c)' BY <2>1 DEF LocalsInv
  <2>3. AnswerInv(c)' BY <2>1 DEF AnswerInv
  <2>4. ~Empty => SomeAhead(c)'
    <3> SUFFICES ASSUME NEW s \in Streams, size[s] # 0
                 PROVE  \E r \in 1 .. ptr'[c] : size'[r] > 0
      BY DEF Empty, SomeAhead
    <3>1. s \in 1 .. ptr'[c]
      BY <2>1 DEF WalkInv, TypeInv, UnmadeEmpty, Streams
    <3>2. size'[s] > 0 BY <2>1 DEF WalkInv, TypeInv
    <3>3. QED BY <3>1, <3>2
  <2>5. LoneInv(c)' BY <2>1, <2>4 DEF LoneInv
  <2>6. QED BY <2>2, <2>3, <2>5 DEF CallInv
<1>5. QED BY <1>1, <1>2, <1>3, <1>4 DEF WalkInv

(* The first loop goes on to the next stream. *)
LEMMA ScoresKeeps ==
    ASSUME WalkInv, NEW c \in Consumers, Scores(c) PROVE WalkInv'
<1> DEFINE s == ptr[c]
<1>1. /\ TypeInv /\ CallInv(c)
      /\ pc[c] = "score" /\ s \in Streams /\ size[s] \in 0 .. MaxSize
      /\ nonEmptyCount[c] \in 0 .. 2
  BY TryDequeueAssumption DEF WalkInv, TypeInv, Scores, Streams
<1>2. /\ UNCHANGED <<pc, answer, alone, sawEmpty, size, made, total>>
      /\ ptr'[c] = s - 1
      /\ nonEmptyCount'[c] = IF size[s] > 0 THEN nonEmptyCount[c] + 1
                                            ELSE nonEmptyCount[c]
      /\ best'[c] = IF size[s] > bestSize[c] THEN s ELSE best[c]
      /\ bestSize'[c] = IF size[s] > bestSize[c] THEN size[s] ELSE bestSize[c]
  BY <1>1 DEF Scores, TypeInv, queueVars, history
<1>3. TypeInv'
  <2>1. /\ s - 1 \in 0 .. MaxStreams /\ s \in 0 .. MaxStreams
        /\ nonEmptyCount[c] + 1 \in 0 .. 3
    BY <1>1, TryDequeueAssumption DEF Streams
  <2>2. /\ ptr' \in [Consumers -> 0 .. MaxStreams]
        /\ nonEmptyCount' \in [Consumers -> 0 .. 3]
        /\ best' \in [Consumers -> 0 .. MaxStreams]
        /\ bestSize' \in [Consumers -> 0 .. MaxSize]
    BY <1>1, <2>1 DEF Scores, TypeInv
  <2>3. QED BY <1>1, <1>2, <2>2 DEF TypeInv
<1>4. UnmadeEmpty' BY <1>2 DEF WalkInv, UnmadeEmpty
<1>5. \A d \in Consumers \ {c} : LeavesTo(d)
  BY <1>1, <1>2 DEF Scores, TypeInv, LeavesTo
<1>6. bestSize[c] \in 0 .. MaxSize BY <1>1 DEF TypeInv
<1>7. LocalsInv(c)'
  BY <1>1, <1>2, <1>6 DEF CallInv, LocalsInv
<1>8. LoneInv(c)'
  <2> SUFFICES ASSUME alone[c] PROVE LoneInv(c)'
    BY <1>2 DEF LoneInv
  <2>1. \A d \in Consumers \ {c} : pc'[d] = "idle"
    BY <1>1, <1>2 DEF CallInv, LoneInv
  <2>2. bestSize'[c] > 0 => size'[best'[c]] >= bestSize'[c]
    BY <1>1, <1>2, <1>6 DEF CallInv, LoneInv
  <2>3. ~sawEmpty[c] /\ nonEmptyCount'[c] = 0 => SomeAhead(c)'
    <3> SUFFICES ASSUME ~sawEmpty[c], nonEmptyCount'[c] = 0 PROVE SomeAhead(c)'
      OBVIOUS
    <3>1. nonEmptyCount[c] = 0 /\ size[s] = 0 BY <1>1, <1>2
    <3>2. PICK r \in 1 .. s : size[r] > 0
      BY <1>1, <3>1 DEF CallInv, LoneInv, SomeAhead
    <3>3. r \in 1 .. ptr'[c] BY <1>1, <1>2, <3>1, <3>2 DEF Streams
    <3>4. QED BY <1>2, <3>2, <3>3 DEF SomeAhead
  <2>4. QED BY <1>1, <1>2, <2>1, <2>2, <2>3 DEF LoneInv
<1>9. AnswerInv(c)' BY <1>1, <1>2 DEF CallInv, AnswerInv
<1>10. QED
  BY <1>1, <1>2, <1>3, <1>4, <1>5, <1>7, <1>8, <1>9, StepInCall DEF CallInv

(* It has counted a stream: that one is tried first. *)
LEMMA ScoresEndKeeps ==
    ASSUME WalkInv, NEW c \in Consumers, ScoresEnd(c) PROVE WalkInv'
<1>1. /\ TypeInv /\ CallInv(c) /\ pc[c] = "score" /\ pc'[c] = "best"
      /\ \A d \in Consumers \ {c} : pc'[d] = pc[d]
      /\ nonEmptyCount[c] > 0
      /\ UNCHANGED <<locals, answer, alone, sawEmpty, size, made>>
  BY DEF WalkInv, TypeInv, ScoresEnd, Goes, queueVars, history
<1>2. TypeInv'
  BY <1>1 DEF ScoresEnd, Goes, TypeInv, locals
<1>3. UnmadeEmpty' BY <1>1 DEF WalkInv, UnmadeEmpty
<1>4. \A d \in Consumers \ {c} : LeavesTo(d) BY <1>1 DEF LeavesTo, locals
<1>5. LocalsInv(c)' BY <1>1 DEF CallInv, LocalsInv, locals
<1>6. LoneInv(c)' BY <1>1 DEF CallInv, LoneInv, locals
<1>7. AnswerInv(c)' BY <1>1 DEF CallInv, AnswerInv
<1>8. QED
  BY <1>1, <1>2, <1>3, <1>4, <1>5, <1>6, <1>7, StepInCall DEF CallInv

(* A call that returns leaves its locals as the next one needs them; if it *)
(* was alone, what it returns must be right.                               *)
LEMMA ReturnsKeeps ==
    ASSUME WalkInv, NEW c \in Consumers, pc[c] # "idle",
           NEW r \in {"true", "false", "some", "zero"}, Returns(c, r),
           UNCHANGED <<made, alone>>,
           size' \in [Streams -> 0 .. MaxSize],
           \A s \in Streams : size[s] = 0 => size'[s] = 0,
           sawEmpty' \in [Consumers -> BOOLEAN],
           \A d \in Consumers : sawEmpty[d] => sawEmpty'[d],
           alone[c] /\ r \in {"false", "zero"} => sawEmpty[c]
    PROVE  WalkInv'
<1>1. TypeInv'
  <2>1. 0 \in 0 .. MaxStreams /\ 0 \in 0 .. MaxSize BY TryDequeueAssumption
  <2>2. /\ ptr' \in [Consumers -> 0 .. MaxStreams]
        /\ nonEmptyCount' \in [Consumers -> 0 .. 3]
        /\ best' \in [Consumers -> 0 .. MaxStreams]
        /\ bestSize' \in [Consumers -> 0 .. MaxSize]
        /\ total' \in [Consumers -> Nat]
    BY <2>1 DEF WalkInv, TypeInv, Returns
  <2>3. /\ pc' \in [Consumers -> {"idle", "score", "best", "rest", "sum"}]
        /\ answer' \in [Consumers -> {"none", "true", "false", "some", "zero"}]
    BY DEF WalkInv, TypeInv, Returns, Goes
  <2>4. QED BY <2>2, <2>3 DEF WalkInv, TypeInv
<1>2. UnmadeEmpty' BY DEF WalkInv, UnmadeEmpty
<1>3. \A d \in Consumers \ {c} : LeavesTo(d)
  BY DEF WalkInv, TypeInv, Returns, Goes, LeavesTo
<1>4. /\ pc'[c] = "idle" /\ answer'[c] = r /\ nonEmptyCount'[c] = 0
      /\ best'[c] = 0 /\ bestSize'[c] = 0 /\ total'[c] = 0
  BY DEF WalkInv, TypeInv, Returns, Goes
<1>5. LocalsInv(c)' BY <1>4 DEF LocalsInv
<1>6. LoneInv(c)' BY <1>4 DEF LoneInv
<1>7. AnswerInv(c)' BY <1>4 DEF AnswerInv
<1>8. QED BY <1>1, <1>2, <1>3, <1>5, <1>6, <1>7, StepInCall DEF CallInv

(* A walk that has come to its end with nothing counted has nothing ahead. *)
LEMMA SeesNothingKeeps ==
    ASSUME WalkInv, NEW c \in Consumers, SeesNothing(c) PROVE WalkInv'
<1>1. /\ TypeInv /\ pc[c] = "score" /\ Returns(c, "false")
      /\ UNCHANGED <<made, size, alone, sawEmpty>>
  BY DEF WalkInv, SeesNothing, queueVars, history
<1>2. alone[c] => sawEmpty[c]
  BY DEF WalkInv, TypeInv, SeesNothing, CallInv, LoneInv, SomeAhead
<1>3. QED BY <1>1, <1>2, ReturnsKeeps DEF TypeInv

LEMMA SumReturnsKeeps ==
    ASSUME WalkInv, NEW c \in Consumers, SumReturns(c) PROVE WalkInv'
<1> DEFINE r == IF total[c] > 0 THEN "some" ELSE "zero"
<1>1. /\ TypeInv /\ pc[c] = "sum" /\ Returns(c, r)
      /\ UNCHANGED <<made, size, alone, sawEmpty>>
  BY DEF WalkInv, SumReturns, queueVars, history
<1>2. alone[c] /\ r = "zero" => sawEmpty[c]
  BY DEF WalkInv, TypeInv, SumReturns, CallInv, LoneInv, SomeAhead
<1>3. r \in {"true", "false", "some", "zero"} /\ r # "false" OBVIOUS
<1> HIDE DEF r
<1>4. QED BY <1>1, <1>2, <1>3, ReturnsKeeps DEF TypeInv

(* A call that has come to try the rest was not alone. *)
LEMMA AllRefuseKeeps ==
    ASSUME WalkInv, NEW c \in Consumers, AllRefuse(c) PROVE WalkInv'
<1>1. /\ TypeInv /\ pc[c] = "rest" /\ Returns(c, "false")
      /\ UNCHANGED <<made, size, alone, sawEmpty>>
  BY DEF WalkInv, AllRefuse, queueVars, history
<1>2. ~alone[c] BY <1>1 DEF WalkInv, CallInv, LoneInv
<1>3. QED BY <1>1, <1>2, ReturnsKeeps DEF TypeInv

(* An element is taken from a stream that has one. *)
LEMMA TookKeeps ==
    ASSUME WalkInv, NEW c \in Consumers, pc[c] # "idle",
           NEW s \in Streams, size[s] > 0, Took(s), Returns(c, "true"),
           UNCHANGED <<made, alone>>
    PROVE  WalkInv'
<1>1. TypeInv BY DEF WalkInv
<1>2. /\ size' \in [Streams -> 0 .. MaxSize]
      /\ \A r \in Streams : size[r] = 0 => size'[r] = 0
  BY <1>1, TryDequeueAssumption DEF TypeInv, Took
<1>3. /\ sawEmpty' \in [Consumers -> BOOLEAN]
      /\ \A d \in Consumers : sawEmpty[d] => sawEmpty'[d]
  BY <1>1 DEF TypeInv, Took
<1>4. QED BY <1>2, <1>3, ReturnsKeeps

LEMMA DequeuesBestKeeps ==
    ASSUME WalkInv, NEW c \in Consumers, DequeuesBest(c) PROVE WalkInv'
<1>1. best[c] \in Streams
  BY DEF WalkInv, TypeInv, DequeuesBest, CallInv, LocalsInv
<1>2. QED BY <1>1, TookKeeps DEF DequeuesBest

LEMMA DequeuesOtherKeeps ==
    ASSUME WalkInv, NEW c \in Consumers, DequeuesOther(c) PROVE WalkInv'
<1>1. ptr[c] \in Streams
  BY TryDequeueAssumption DEF WalkInv, TypeInv, DequeuesOther, Streams
<1>2. QED BY <1>1, TookKeeps DEF DequeuesOther

(* The best stream of a lone call does not refuse. *)
LEMMA LoneIsServed ==
    ASSUME WalkInv, NEW c \in Consumers, alone[c], pc[c] = "best"
    PROVE  ~Refuses(best[c], c)
<1>1. bestSize[c] > 0 /\ best[c] \in Streams
  BY DEF WalkInv, TypeInv, CallInv, LocalsInv
<1>2. size[best[c]] # 0
  BY <1>1 DEF WalkInv, TypeInv, CallInv, LoneInv
<1>3. \A d \in Consumers \ {c} : pc[d] = "idle"
  BY DEF WalkInv, CallInv, LoneInv
<1>4. QED BY <1>2, <1>3 DEF Refuses

LEMMA BestRefusesKeeps ==
    ASSUME WalkInv, NEW c \in Consumers, BestRefuses(c) PROVE WalkInv'
<1>1. /\ TypeInv /\ CallInv(c) /\ pc[c] = "best" /\ pc'[c] = "rest"
      /\ \A d \in Consumers \ {c} : pc'[d] = pc[d]
      /\ UNCHANGED <<made, size, nonEmptyCount, best, bestSize, total, answer,
                     alone, sawEmpty>>
  BY DEF WalkInv, TypeInv, BestRefuses, Goes, queueVars, history
<1>2. TypeInv' BY <1>1 DEF BestRefuses, Goes, TypeInv
<1>3. UnmadeEmpty' BY <1>1 DEF WalkInv, UnmadeEmpty
<1>4. \A d \in Consumers \ {c} : LeavesTo(d) BY <1>1 DEF LeavesTo
<1>5. ~alone[c] BY <1>1, LoneIsServed DEF BestRefuses
<1>6. CallInv(c)'
  BY <1>1, <1>5 DEF CallInv, LocalsInv, LoneInv, AnswerInv
<1>7. QED BY <1>1, <1>2, <1>3, <1>4, <1>6, StepInCall

LEMMA PassesKeeps ==
    ASSUME WalkInv, NEW c \in Consumers, Passes(c) PROVE WalkInv'
<1>1. /\ TypeInv /\ CallInv(c) /\ pc[c] = "rest"
      /\ UNCHANGED <<made, size, pc, nonEmptyCount, best, bestSize, total, answer,
                     alone, sawEmpty>>
  BY DEF WalkInv, Passes, queueVars, history
<1>2. ptr' \in [Consumers -> 0 .. MaxStreams]
  BY <1>1, TryDequeueAssumption DEF Passes, TypeInv
<1>3. TypeInv' BY <1>1, <1>2 DEF TypeInv
<1>4. UnmadeEmpty' BY <1>1 DEF WalkInv, UnmadeEmpty
<1>5. \A d \in Consumers \ {c} : LeavesTo(d) BY <1>1 DEF LeavesTo
<1>6. CallInv(c)'
  BY <1>1 DEF CallInv, LocalsInv, LoneInv, AnswerInv
<1>7. QED BY <1>1, <1>3, <1>4, <1>5, <1>6, StepInCall

(* size_approx goes on to the next stream. *)
LEMMA SumsKeeps ==
    ASSUME WalkInv, NEW c \in Consumers, Sums(c) PROVE WalkInv'
<1> DEFINE s == ptr[c]
<1>1. /\ TypeInv /\ CallInv(c)
      /\ pc[c] = "sum" /\ s \in Streams /\ size[s] \in 0 .. MaxSize
      /\ total[c] \in Nat
  BY TryDequeueAssumption DEF WalkInv, TypeInv, Sums, Streams
<1>2. /\ UNCHANGED <<made, size, pc, nonEmptyCount, best, bestSize, answer, alone,
                     sawEmpty>>
      /\ ptr'[c] = s - 1 /\ total'[c] = total[c] + size[s]
  BY <1>1 DEF Sums, TypeInv, queueVars, history
<1>3. TypeInv'
  <2>1. s - 1 \in 0 .. MaxStreams /\ total[c] + size[s] \in Nat
    BY <1>1, TryDequeueAssumption DEF Streams
  <2>2. /\ ptr' \in [Consumers -> 0 .. MaxStreams]
        /\ total' \in [Consumers -> Nat]
    BY <1>1, <2>1 DEF Sums, TypeInv
  <2>3. QED BY <1>1, <1>2, <2>2 DEF TypeInv
<1>4. UnmadeEmpty' BY <1>2 DEF WalkInv, UnmadeEmpty
<1>5. \A d \in Consumers \ {c} : LeavesTo(d)
  BY <1>1, <1>2 DEF Sums, TypeInv, LeavesTo
<1>6. LocalsInv(c)' BY <1>1, <1>2 DEF CallInv, LocalsInv
<1>7. LoneInv(c)'
  <2> SUFFICES ASSUME alone[c], ~sawEmpty[c], total'[c] = 0 PROVE SomeAhead(c)'
    BY <1>1, <1>2 DEF CallInv, LoneInv
  <2>1. total[c] = 0 /\ size[s] = 0 BY <1>1, <1>2
  <2>2. PICK r \in 1 .. s : size[r] > 0
    BY <1>1, <2>1 DEF CallInv, LoneInv, SomeAhead
  <2>3. r \in 1 .. ptr'[c] BY <1>1, <1>2, <2>1, <2>2 DEF Streams
  <2>4. QED BY <1>2, <2>2, <2>3 DEF SomeAhead
<1>8. AnswerInv(c)' BY <1>1, <1>2 DEF CallInv, AnswerInv
<1>9. QED
  BY <1>1, <1>2, <1>3, <1>4, <1>5, <1>6, <1>7, <1>8, StepInCall DEF CallInv

-----------------------------------------------------------------------------

(* Every step of producers and consumers keeps the inductive invariant. *)
LEMMA NextWalk == WalkInv /\ [Next]_vars => WalkInv'
<1> SUFFICES ASSUME WalkInv, [Next]_vars PROVE WalkInv'
  OBVIOUS
<1>1. CASE AddProducer BY <1>1, AddProducerKeeps
<1>2. ASSUME NEW s \in Streams, Put(s) PROVE WalkInv' BY <1>2, PutKeeps
<1>3. ASSUME NEW c \in Consumers, Consumer(c) PROVE WalkInv'
  BY <1>3, BeginsKeeps, ScoresKeeps, ScoresEndKeeps, SeesNothingKeeps,
     DequeuesBestKeeps, BestRefusesKeeps, DequeuesOtherKeeps, PassesKeeps,
     AllRefuseKeeps, SumsKeeps, SumReturnsKeeps
  DEF Consumer, TryDequeueCall, SizeApproxCall
<1>4. CASE UNCHANGED vars
  BY <1>4 DEF vars, queueVars, locals, history, WalkInv, TypeInv, UnmadeEmpty,
              CallInv, LocalsInv, LoneInv, AnswerInv, SomeAhead
<1>5. QED BY <1>1, <1>2, <1>3, <1>4 DEF Next

(* A lone consumer is told that there is nothing only if there was nothing *)
(* at one moment of its call, however many streams producers add and fill  *)
(* while it walks.                                                         *)
THEOREM WalkNothingMeansEmpty == Spec => []NothingMeansEmpty
<1>1. WalkInv => NothingMeansEmpty
  BY DEF WalkInv, CallInv, AnswerInv, NothingMeansEmpty
<1>2. QED BY InitWalk, NextWalk, <1>1, PTL DEF Spec

(* A lone consumer is served by the stream it has chosen, and never comes  *)
(* to the second loop of try_dequeue.                                      *)
THEOREM WalkSeenIsServed == Spec => []SeenIsServed
<1>1. WalkInv => SeenIsServed
  <2> SUFFICES ASSUME WalkInv PROVE SeenIsServed
    OBVIOUS
  <2>1. \A c \in Consumers : alone[c] => pc[c] # "rest"
    BY DEF WalkInv, CallInv, LoneInv
  <2>2. QED BY <2>1, LoneIsServed DEF SeenIsServed
<1>2. QED BY InitWalk, NextWalk, <1>1, PTL DEF Spec
=============================================================================
