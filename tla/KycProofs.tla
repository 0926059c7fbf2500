------------------------------- MODULE KycProofs -------------------------------
(***************************************************************************)
(* Proofs about KycVerification, for any number of workers, applicants and *)
(* requests, any profiles, and any mix of failing commits and crashes.     *)
(*                                                                         *)
(* What a run stores is its own because a run writes every channel it      *)
(* reads before it reads it, whatever the thread held before (StageGood);  *)
(* and a case is settled once because a run has one handler (OneHandler)   *)
(* and stores its check with its last commit (NoCheckYet).                 *)
(***************************************************************************)
EXTENDS KycVerification, SequenceTheorems, TLAPS

Active(w) == ~At(w, "idle")
InRun == DOMAIN requests

(* Records are described by their fields, whose values are of no one type. *)
IsChannels(c) ==
    /\ c \in [input : {c.input}, checks : {c.checks}, decision : {c.decision},
              explanation : {c.explanation}, tasks : {c.tasks}]
    /\ c.tasks \in [TrackedNodes -> Nat]
IsHandler(h) ==
    /\ h \in [pc : {h.pc}, run : {h.run}, channels : {h.channels}, seen : {h.seen}, broken : {h.broken}]
    /\ IsChannels(h.channels)

(* What the graph has written by the time a handler is at a place.         *)
Verified == {"aggregate", "explain", "forget", "settle"}
Aggregated == {"explain", "forget", "settle"}
Explained == {"forget", "settle"}
StageGood(h, logs) ==
    /\ h.pc \in {"normalize", "verify"} \cup Verified => h.channels.input = h.run
    /\ h.pc \in Verified =>
         /\ h.channels.checks = h.run
         /\ \A n \in VendorNodes \cup {"contact"} : h.channels.tasks[n] > 0
         /\ {h.run} \X VendorNodes \subseteq logs
    /\ h.pc \in Aggregated =>
         /\ h.channels.decision.run = h.run
         /\ h.channels.tasks["risk_aggregation_engine"] > 0
    /\ h.pc \in Explained => h.channels.tasks["explanation"] > 0

StateGood ==
    /\ requests \in Seq(Requests)
    /\ checkpoint = [a \in Applicants |-> checkpoint[a]]
    /\ \A a \in Applicants : IsChannels(checkpoint[a])
    /\ handler = [w \in Workers |-> handler[w]]
    /\ \A w \in Workers : IsHandler(handler[w])
RunsKnown ==
    /\ \A w \in Workers : Active(w) => RunOf(w) \in InRun
    /\ \A c \in checks : c.run \in InRun
OneHandler == \A v, w \in Workers : Active(v) /\ Active(w) /\ RunOf(v) = RunOf(w) => v = w
NoCheckYet == \A w \in Workers : Active(w) => \A c \in checks : c.run # RunOf(w)
StagesGood == \A w \in Workers : StageGood(handler[w], nodeLogs)

VerifyInv == /\ StateGood /\ RunsKnown /\ OneHandler /\ NoCheckYet /\ StagesGood
             /\ CaseMatchesCheck /\ CheckIsOwn /\ CheckIsAudited /\ AnswerIsRecorded

-----------------------------------------------------------------------------
(* A thread as a handler may find it, and a handler that has just arrived. *)
LEMMA NoChannelsGood == IsChannels(NoChannels)
  BY DEF IsChannels, NoChannels

LEMMA IdleGood ==
    ASSUME NEW logs
    PROVE  IsHandler(Idle) /\ Idle.pc = "idle" /\ StageGood(Idle, logs)
  <1>1. Idle = [pc |-> "idle", run |-> 0, channels |-> NoChannels, seen |-> None, broken |-> FALSE]
    BY DEF Idle
  <1>2. IsHandler(Idle) /\ Idle.pc = "idle"
    BY <1>1, NoChannelsGood DEF IsHandler
  <1>3. QED
    BY <1>2 DEF StageGood, Verified, Aggregated, Explained

(* What a handler's own step has to show: the others keep what they have,  *)
(* for the audit log only grows and the checks gained are of this run.     *)
LEMMA HandlerStep ==
    ASSUME VerifyInv, NEW w \in Workers, Active(w), NEW h, IsHandler(h), Become(w, h),
           h.pc # "idle" => h.run = RunOf(w),
           StageGood(h, nodeLogs'),
           UNCHANGED requests, nodeLogs \subseteq nodeLogs',
           \A c \in checks' : c \in checks \/ (c.run = RunOf(w) /\ h.pc = "idle")
    PROVE  /\ (RunsKnown /\ OneHandler /\ NoCheckYet /\ StagesGood)'
           /\ handler' = [v \in Workers |-> handler'[v]]
           /\ \A v \in Workers : IsHandler(handler'[v])
  <1> USE DEF VerifyInv
  <1>1. /\ handler'[w] = h
        /\ \A v \in Workers : v # w => handler'[v] = handler[v]
        /\ handler' = [v \in Workers |-> handler'[v]]
    BY DEF StateGood, Become
  <1>2. \A v \in Workers : IsHandler(handler'[v])
    BY <1>1 DEF StateGood
  <1>3. \A v \in Workers : Active(v)' => Active(v) /\ RunOf(v)' = RunOf(v)
    BY <1>1 DEF Active, At, RunOf
  <1>4. RunsKnown'
    <2>1. \A v \in Workers : Active(v)' => RunOf(v)' \in InRun'
      BY <1>3 DEF RunsKnown, InRun
    <2>2. \A c \in checks' : c.run \in InRun'
      BY DEF RunsKnown, InRun
    <2>3. QED
      BY <2>1, <2>2 DEF RunsKnown
  <1>5. OneHandler'
    BY <1>3 DEF OneHandler
  <1>6. NoCheckYet'
    <2>1. ASSUME NEW v \in Workers, Active(v)', NEW c \in checks'
          PROVE  c.run # RunOf(v)'
      <3>1. CASE c \in checks
        BY <1>3, <2>1, <3>1 DEF NoCheckYet
      <3>2. CASE c.run = RunOf(w) /\ h.pc = "idle"
        <4>1. v # w
          BY <1>1, <2>1, <3>2 DEF Active, At
        <4>2. QED
          BY <1>3, <2>1, <3>2, <4>1 DEF OneHandler
      <3>3. QED
        BY <3>1, <3>2
    <2>2. QED
      BY <2>1 DEF NoCheckYet
  <1>7. StagesGood'
    <2>1. ASSUME NEW v \in Workers, v # w
          PROVE  StageGood(handler'[v], nodeLogs')
      <3>1. StageGood(handler[v], nodeLogs)
        BY DEF StagesGood
      <3>2. QED
        BY <1>1, <2>1, <3>1 DEF StageGood
    <2>2. QED
      BY <1>1, <2>1 DEF StagesGood
  <1>8. QED
    BY <1>1, <1>2, <1>4, <1>5, <1>6, <1>7

(* A step that stores no check: it may publish the case of its run, or end *)
(* with an error, and every stored check is as good as it was.             *)
LEMMA NothingSettled ==
    ASSUME VerifyInv, NEW w \in Workers, Active(w),
           UNCHANGED <<requests, checks>>, nodeLogs \subseteq nodeLogs',
           cases' = cases \/ cases' = WithCase(w, "PENDING"),
           answers' = answers \/ answers' = With(answers, RunOf(w), None)
    PROVE  (CaseMatchesCheck /\ CheckIsOwn /\ CheckIsAudited /\ AnswerIsRecorded)'
  <1> USE DEF VerifyInv
  <1>1. \A c \in checks : c.run # RunOf(w)
    BY DEF NoCheckYet
  <1>2. /\ DOMAIN cases \subseteq DOMAIN cases'
        /\ \A r \in DOMAIN cases' : r # RunOf(w) => r \in DOMAIN cases /\ cases'[r] = cases[r]
        /\ RunOf(w) \in DOMAIN cases' =>
             cases'[RunOf(w)] = "PENDING" \/ (RunOf(w) \in DOMAIN cases /\ cases' = cases)
    <2>1. CASE cases' = cases
      BY <2>1
    <2>2. CASE cases' = With(cases, RunOf(w), "PENDING")
      BY <2>2 DEF With
    <2>3. QED
      BY <2>1, <2>2 DEF WithCase
  <1>3. CaseMatchesCheck'
    <2>1. \A c \in checks' : c.run \in DOMAIN cases'
      BY <1>2 DEF CaseMatchesCheck
    <2>2. ASSUME NEW r \in DOMAIN cases'
          PROVE  LET own == {c \in checks' : c.run = r}
                 IN  IF own = {} THEN cases'[r] = "PENDING"
                     ELSE \A c \in own : cases'[r] = StatusOf(c.decision.final_status)
      BY <1>1, <1>2, <2>2 DEF CaseMatchesCheck
    <2>3. QED
      BY <2>1, <2>2 DEF CaseMatchesCheck
  <1>4. CheckIsOwn'
    BY DEF CheckIsOwn
  <1>5. CheckIsAudited'
    BY DEF CheckIsAudited
  <1>6. AnswerIsRecorded'
    <2>1. ASSUME NEW r \in DOMAIN answers', answers'[r] # None
          PROVE  r \in DOMAIN answers /\ answers'[r] = answers[r]
      BY <2>1 DEF With
    <2>2. ASSUME NEW r \in DOMAIN answers', answers'[r] # None
          PROVE  \E c \in checks' : /\ c.run = r /\ c.decision = answers'[r].decision
                                     /\ cases'[r] = StatusOf(answers'[r].status)
      <3>1. PICK c \in checks : /\ c.run = r /\ c.decision = answers[r].decision
                                /\ cases[r] = StatusOf(answers[r].status)
        BY <2>1, <2>2 DEF AnswerIsRecorded
      <3>2. r # RunOf(w) /\ r \in DOMAIN cases
        BY <1>1, <3>1 DEF CaseMatchesCheck
      <3>3. cases'[r] = cases[r]
        BY <1>2, <3>2
      <3>4. QED
        BY <2>1, <2>2, <3>1, <3>3
    <2>3. QED
      BY <2>2 DEF AnswerIsRecorded
  <1>7. QED
    BY <1>3, <1>4, <1>5, <1>6

(* Both together: every step but the arrival of a request and the storing  *)
(* of a check.                                                             *)
LEMMA OrdinaryStep ==
    ASSUME VerifyInv, NEW w \in Workers, Active(w), NEW h, IsHandler(h), Become(w, h),
           h.pc # "idle" => h.run = RunOf(w),
           StageGood(h, nodeLogs'),
           UNCHANGED <<requests, checks>>, nodeLogs \subseteq nodeLogs',
           \/ checkpoint' = checkpoint
           \/ \E a, c : IsChannels(c) /\ checkpoint' = [checkpoint EXCEPT ![a] = c],
           cases' = cases \/ cases' = WithCase(w, "PENDING"),
           answers' = answers \/ answers' = With(answers, RunOf(w), None)
    PROVE  VerifyInv'
  <1>1. /\ (RunsKnown /\ OneHandler /\ NoCheckYet /\ StagesGood)'
        /\ handler' = [v \in Workers |-> handler'[v]]
        /\ \A v \in Workers : IsHandler(handler'[v])
    BY HandlerStep
  <1>2. (CaseMatchesCheck /\ CheckIsOwn /\ CheckIsAudited /\ AnswerIsRecorded)'
    BY NothingSettled
  <1>3. /\ checkpoint' = [a \in Applicants |-> checkpoint'[a]]
        /\ \A a \in Applicants : IsChannels(checkpoint'[a])
    <2>1. /\ checkpoint = [a \in Applicants |-> checkpoint[a]]
          /\ \A a \in Applicants : IsChannels(checkpoint[a])
      BY DEF VerifyInv, StateGood
    <2>2. CASE checkpoint' = checkpoint
      BY <2>1, <2>2
    <2>3. ASSUME NEW a, NEW c, IsChannels(c), checkpoint' = [checkpoint EXCEPT ![a] = c]
          PROVE  <1>3
      BY <2>1, <2>3
    <2>4. QED
      BY <2>2, <2>3
  <1>4. StateGood'
    BY <1>1, <1>3 DEF StateGood, VerifyInv
  <1>5. QED
    BY <1>1, <1>2, <1>4 DEF VerifyInv

LEMMA ActiveHandler ==
    ASSUME VerifyInv, NEW w \in Workers
    PROVE  /\ IsHandler(handler[w]) /\ IsChannels(ChannelsOf(w)) /\ StageGood(handler[w], nodeLogs)
           /\ \A a \in Applicants : IsChannels(checkpoint[a])
           /\ Active(w) => ApplicantOf(w) \in Applicants
  <1>1. Active(w) => requests[RunOf(w)] \in Requests
    BY DEF VerifyInv, StateGood, RunsKnown, InRun
  <1>2. QED
    BY <1>1 DEF VerifyInv, StateGood, IsHandler, StagesGood, ChannelsOf, ApplicantOf, Requests

(* A handler that moves within its run.                                    *)
To(h, pc, channels) == [h EXCEPT !.pc = pc, !.channels = channels]

LEMMA Moved ==
    ASSUME NEW h, IsHandler(h), NEW pc, NEW channels, IsChannels(channels)
    PROVE  /\ IsHandler(To(h, pc, channels))
           /\ To(h, pc, channels).pc = pc /\ To(h, pc, channels).run = h.run
           /\ To(h, pc, channels).channels = channels
  <1> DEFINE moved == To(h, pc, channels)
  <1>1. moved \in [pc : {pc}, run : {h.run}, channels : {channels}, seen : {h.seen}, broken : {h.broken}]
    BY DEF IsHandler, To
  <1> HIDE DEF moved
  <1>2. QED
    BY <1>1 DEF IsHandler, moved

(* Handlers that have failed rely on nothing.                              *)
LEMMA FailedGood ==
    ASSUME NEW logs, NEW run, NEW channels, IsChannels(channels), NEW seen, NEW broken,
           NEW h \in [pc : {"failed", "record"}, run : {run}, channels : {channels},
                      seen : {seen}, broken : {broken}]
    PROVE  IsHandler(h) /\ h.run = run /\ StageGood(h, logs)
  BY DEF IsHandler, StageGood, Verified, Aggregated, Explained

LEMMA ActsWhenAt ==
    ASSUME NEW w, NEW pc, handler[w].pc = pc, pc # "idle"
    PROVE  Active(w)
  BY DEF Active, At

LEMMA Ended ==
    ASSUME VerifyInv, NEW w \in Workers, Active(w), Answer(w, None),
           UNCHANGED <<requests, checks, checkpoint>>, nodeLogs \subseteq nodeLogs',
           cases' = cases \/ cases' = WithCase(w, "PENDING")
    PROVE  VerifyInv'
  <1>1. Become(w, Idle) /\ answers' = With(answers, RunOf(w), None)
    BY DEF Answer
  <1>2. IsHandler(Idle) /\ Idle.pc = "idle" /\ StageGood(Idle, nodeLogs')
    BY IdleGood
  <1>3. QED
    BY <1>1, <1>2, OrdinaryStep

(* The writes of a superstep, with the tasks counted.                      *)
Counted(writes, nodes) ==
    [writes EXCEPT !.tasks = [n \in TrackedNodes |-> @[n] + (IF n \in nodes THEN 1 ELSE 0)]]

LEMMA CountedGood ==
    ASSUME NEW writes, IsChannels(writes), NEW nodes
    PROVE  LET done == Counted(writes, nodes)
           IN  /\ IsChannels(done)
               /\ done.input = writes.input /\ done.checks = writes.checks
               /\ done.decision = writes.decision
               /\ \A n \in TrackedNodes : writes.tasks[n] > 0 \/ n \in nodes => done.tasks[n] > 0
  <1> DEFINE done == Counted(writes, nodes)
             count == [n \in TrackedNodes |-> writes.tasks[n] + (IF n \in nodes THEN 1 ELSE 0)]
  <1>1. /\ count \in [TrackedNodes -> Nat]
        /\ \A n \in TrackedNodes : writes.tasks[n] > 0 \/ n \in nodes => count[n] > 0
    BY DEF IsChannels
  <1> HIDE DEF count
  <1>2. done \in [input : {writes.input}, checks : {writes.checks}, decision : {writes.decision},
                  explanation : {writes.explanation}, tasks : {count}]
    BY DEF IsChannels, Counted, count
  <1> HIDE DEF done
  <1>3. QED
    BY <1>1, <1>2 DEF IsChannels, done

LEMMA SuperstepGood ==
    ASSUME VerifyInv, NEW w \in Workers, Active(w), NEW nodes, NEW writes, IsChannels(writes),
           NEW next, next # "idle", Superstep(w, nodes, writes, next),
           nodeLogs \subseteq nodeLogs',
           \A h : /\ h.pc = next /\ h.run = RunOf(w) /\ h.channels = Counted(writes, nodes)
                 => StageGood(h, nodeLogs')
    PROVE  VerifyInv'
  <1> DEFINE done == Counted(writes, nodes)
             h == To(handler[w], next, done)
  <1>1. /\ checkpoint' = [checkpoint EXCEPT ![ApplicantOf(w)] = done]
        /\ Become(w, h)
        /\ UNCHANGED <<requests, tables, answers>>
    BY DEF Superstep, Counted, To
  <1>2. IsChannels(done)
    BY CountedGood
  <1> HIDE DEF done
  <1>3. IsHandler(h) /\ h.pc = next /\ h.run = RunOf(w) /\ h.channels = done
    <2>1. IsHandler(handler[w])
      BY ActiveHandler
    <2>2. QED
      BY <1>2, <2>1, Moved DEF RunOf
  <1> HIDE DEF h
  <1>4. StageGood(h, nodeLogs')
    BY <1>3 DEF done
  <1>5. UNCHANGED <<requests, checks, cases, answers>>
    BY <1>1 DEF tables
  <1>6. QED
    BY <1>1, <1>2, <1>3, <1>4, <1>5, OrdinaryStep

-----------------------------------------------------------------------------
(* The actions, in the order of a run. *)

LEMMA ReceiveGood ==
    ASSUME VerifyInv, NEW w \in Workers, Receive(w)
    PROVE  VerifyInv'
  <1> DEFINE h == [Idle EXCEPT !.pc = "open", !.run = Len(requests) + 1]
  <1>1. PICK r \in Requests : requests' = Append(requests, r)
    BY DEF Receive
  <1>2. /\ requests \in Seq(Requests) /\ requests' \in Seq(Requests)
        /\ InRun = 1..Len(requests) /\ InRun' = 1..(Len(requests) + 1)
        /\ \A i \in InRun : requests'[i] = requests[i]
    BY <1>1 DEF VerifyInv, StateGood, InRun
  <1>3. h \in [pc : {"open"}, run : {Len(requests) + 1}, channels : {NoChannels},
               seen : {None}, broken : {FALSE}]
    BY DEF Idle
  <1>4. /\ UNCHANGED <<checkpoint, checks, cases, nodeLogs, answers>>
        /\ Become(w, h) /\ ~Active(w)
    BY DEF Receive, tables, Active
  <1> HIDE DEF h
  <1>5. /\ IsHandler(h) /\ StageGood(h, nodeLogs') /\ h.pc = "open" /\ h.run = Len(requests) + 1
    BY <1>3, NoChannelsGood DEF IsHandler, StageGood, Verified, Aggregated, Explained
  <1>6. /\ handler'[w] = h
        /\ \A v \in Workers : v # w => handler'[v] = handler[v]
        /\ handler' = [v \in Workers |-> handler'[v]]
    BY <1>4 DEF VerifyInv, StateGood, Become
  <1>7. StateGood'
    BY <1>2, <1>4, <1>5, <1>6 DEF VerifyInv, StateGood
  <1>8. RunsKnown'
    <2>1. Len(requests) \in Nat
      BY <1>2
    <2>2. \A v \in Workers : Active(v)' => RunOf(v)' \in InRun'
      BY <1>2, <1>5, <1>6, <2>1 DEF VerifyInv, RunsKnown, Active, At, RunOf
    <2>3. \A c \in checks' : c.run \in InRun'
      BY <1>2, <1>4, <2>1 DEF VerifyInv, RunsKnown
    <2>4. QED
      BY <2>2, <2>3 DEF RunsKnown
  <1>9. Len(requests) + 1 \notin InRun
    BY <1>2
  <1>10. OneHandler'
    BY <1>5, <1>6, <1>9 DEF VerifyInv, OneHandler, RunsKnown, Active, At, RunOf
  <1>11. NoCheckYet'
    BY <1>4, <1>5, <1>6, <1>9 DEF VerifyInv, NoCheckYet, RunsKnown, Active, At, RunOf
  <1>12. StagesGood'
    BY <1>4, <1>5, <1>6 DEF VerifyInv, StagesGood
  <1>13. CaseMatchesCheck' /\ CheckIsAudited' /\ AnswerIsRecorded'
    BY <1>4 DEF VerifyInv, CaseMatchesCheck, CheckIsAudited, AnswerIsRecorded
  <1>14. CheckIsOwn'
    BY <1>2, <1>4 DEF VerifyInv, RunsKnown, CheckIsOwn
  <1>15. QED
    BY <1>7, <1>8, <1>10, <1>11, <1>12, <1>13, <1>14 DEF VerifyInv

LEMMA OpenCaseGood ==
    ASSUME VerifyInv, NEW w \in Workers, OpenCase(w)
    PROVE  VerifyInv'
  <1>1. Active(w)
    BY ActsWhenAt DEF OpenCase, At
  <1>2. UNCHANGED <<requests, checks, cases, nodeLogs>>
    BY DEF OpenCase, tables
  <1>3. CASE StartWith(w, [checkpoint[ApplicantOf(w)] EXCEPT !.input = RunOf(w)])
    <2> DEFINE left == checkpoint[ApplicantOf(w)]
               c == [left EXCEPT !.input = RunOf(w)]
               h == To(handler[w], "normalize", c)
    <2>1. /\ checkpoint' = [checkpoint EXCEPT ![ApplicantOf(w)] = c]
          /\ Become(w, h) /\ UNCHANGED answers
      BY <1>3 DEF StartWith, To
    <2>2. IsChannels(left) /\ IsHandler(handler[w])
      BY <1>1, ActiveHandler
    <2> HIDE DEF left
    <2>3. c \in [input : {RunOf(w)}, checks : {left.checks}, decision : {left.decision},
                 explanation : {left.explanation}, tasks : {left.tasks}]
      BY <2>2 DEF IsChannels
    <2> HIDE DEF c
    <2>4. IsChannels(c) /\ c.input = RunOf(w)
      BY <2>2, <2>3 DEF IsChannels
    <2>5. IsHandler(h) /\ h.pc = "normalize" /\ h.run = RunOf(w) /\ h.channels = c
      BY <2>2, <2>4, Moved DEF RunOf
    <2> HIDE DEF h
    <2>6. StageGood(h, nodeLogs')
      BY <2>4, <2>5 DEF StageGood, Verified, Aggregated, Explained
    <2>7. QED
      BY <1>1, <1>2, <2>1, <2>4, <2>5, <2>6, OrdinaryStep
  <1>4. CASE Answer(w, None) /\ UNCHANGED checkpoint
    BY <1>1, <1>2, <1>4, Ended
  <1>5. QED
    BY <1>3, <1>4 DEF OpenCase

LEMMA NormalizeGood ==
    ASSUME VerifyInv, NEW w \in Workers, Normalize(w)
    PROVE  VerifyInv'
  <1> DEFINE c == ChannelsOf(w)
             writes == [c EXCEPT !.tasks = [n \in TrackedNodes |-> 2 * @[n]]]
             doubled == [n \in TrackedNodes |-> 2 * c.tasks[n]]
  <1>1. Active(w) /\ UNCHANGED nodeLogs /\ Superstep(w, {}, writes, "verify")
    BY ActsWhenAt DEF Normalize, At
  <1>2. IsChannels(c) /\ c.input = RunOf(w)
    BY ActiveHandler DEF Normalize, At, StageGood, ChannelsOf, RunOf
  <1> HIDE DEF c
  <1>3. doubled \in [TrackedNodes -> Nat]
    BY <1>2 DEF IsChannels
  <1>4. writes \in [input : {c.input}, checks : {c.checks}, decision : {c.decision},
                    explanation : {c.explanation}, tasks : {doubled}]
    BY <1>2 DEF IsChannels
  <1> HIDE DEF writes, doubled
  <1>5. IsChannels(writes) /\ writes.input = RunOf(w)
    BY <1>2, <1>3, <1>4 DEF IsChannels
  <1>6. Counted(writes, {}).input = RunOf(w)
    BY <1>5, CountedGood
  <1>7. ASSUME NEW h, h.pc = "verify", h.run = RunOf(w), h.channels = Counted(writes, {})
        PROVE  StageGood(h, nodeLogs')
    BY <1>6, <1>7 DEF StageGood, Verified, Aggregated, Explained
  <1>8. QED
    BY <1>1, <1>5, <1>7, SuperstepGood

LEMMA VerifyGood ==
    ASSUME VerifyInv, NEW w \in Workers, Verify(w)
    PROVE  VerifyInv'
  <1> DEFINE c == ChannelsOf(w)
             writes == [c EXCEPT !.checks = c.input]
             nodes == VendorNodes \cup {"contact"}
  <1>1. /\ Active(w) /\ Superstep(w, nodes, writes, "aggregate")
        /\ nodeLogs' = nodeLogs \cup ({RunOf(w)} \X VendorNodes)
    BY ActsWhenAt DEF Verify, At
  <1>2. IsChannels(c) /\ c.input = RunOf(w)
    BY ActiveHandler DEF Verify, At, StageGood, ChannelsOf, RunOf
  <1> HIDE DEF c
  <1>3. writes \in [input : {c.input}, checks : {c.input}, decision : {c.decision},
                    explanation : {c.explanation}, tasks : {c.tasks}]
    BY <1>2 DEF IsChannels
  <1> HIDE DEF writes
  <1>4. IsChannels(writes) /\ writes.input = RunOf(w) /\ writes.checks = RunOf(w)
    BY <1>2, <1>3 DEF IsChannels
  <1>5. /\ Counted(writes, nodes).input = RunOf(w) /\ Counted(writes, nodes).checks = RunOf(w)
        /\ \A n \in nodes : Counted(writes, nodes).tasks[n] > 0
    BY <1>4, CountedGood DEF TrackedNodes
  <1>6. ASSUME NEW h, h.pc = "aggregate", h.run = RunOf(w), h.channels = Counted(writes, nodes)
        PROVE  StageGood(h, nodeLogs')
    BY <1>1, <1>5, <1>6 DEF StageGood, Aggregated, Explained
  <1>7. QED
    BY <1>1, <1>4, <1>6, SuperstepGood

LEMMA TaggedRun ==
    ASSUME NEW record, NEW run
    PROVE  Tagged(record, run).run = run
  BY DEF Tagged, With

LEMMA AggregateGood ==
    ASSUME VerifyInv, NEW w \in Workers, Aggregate(w)
    PROVE  VerifyInv'
  <1> DEFINE c == ChannelsOf(w)
             decision == Tagged(RiskAggregator(RuleSet, SignalsIn(c)), c.checks)
             writes == [c EXCEPT !.decision = decision]
             nodes == {"risk_aggregation_engine"}
  <1>1. /\ Active(w) /\ Superstep(w, nodes, writes, "explain")
        /\ UNCHANGED nodeLogs
    BY ActsWhenAt DEF Aggregate, At
  <1>2. /\ IsChannels(c) /\ c.input = RunOf(w) /\ c.checks = RunOf(w)
        /\ \A n \in VendorNodes \cup {"contact"} : c.tasks[n] > 0
        /\ {RunOf(w)} \X VendorNodes \subseteq nodeLogs
    BY ActiveHandler DEF Aggregate, At, StageGood, ChannelsOf, RunOf, Verified
  <1>3. decision.run = RunOf(w)
    BY <1>2, TaggedRun
  <1> HIDE DEF c, decision
  <1>4. writes \in [input : {c.input}, checks : {c.checks}, decision : {decision},
                    explanation : {c.explanation}, tasks : {c.tasks}]
    BY <1>2 DEF IsChannels
  <1> HIDE DEF writes
  <1>5. /\ IsChannels(writes) /\ writes.input = RunOf(w) /\ writes.checks = RunOf(w)
        /\ writes.decision.run = RunOf(w) /\ writes.tasks = c.tasks
    BY <1>2, <1>3, <1>4 DEF IsChannels
  <1> DEFINE done == Counted(writes, nodes)
  <1>6. /\ done.input = RunOf(w) /\ done.checks = RunOf(w) /\ done.decision.run = RunOf(w)
        /\ \A n \in TrackedNodes : writes.tasks[n] > 0 \/ n \in nodes => done.tasks[n] > 0
    BY <1>5, CountedGood
  <1>7. \A n \in VendorNodes \cup {"contact", "risk_aggregation_engine"} : done.tasks[n] > 0
    BY <1>2, <1>5, <1>6 DEF TrackedNodes
  <1> HIDE DEF done
  <1>8. ASSUME NEW h, h.pc = "explain", h.run = RunOf(w), h.channels = done
        PROVE  StageGood(h, nodeLogs')
    BY <1>1, <1>2, <1>6, <1>7, <1>8 DEF StageGood, Explained
  <1>9. QED
    BY <1>1, <1>5, <1>8, SuperstepGood DEF done

LEMMA ExplainGood ==
    ASSUME VerifyInv, NEW w \in Workers, Explain(w)
    PROVE  VerifyInv'
  <1> DEFINE c == ChannelsOf(w)
             writes == [c EXCEPT !.explanation = Explanation(c.decision)]
             nodes == {"explanation"}
  <1>1. /\ Active(w) /\ Superstep(w, nodes, writes, "forget")
        /\ UNCHANGED nodeLogs
    BY ActsWhenAt DEF Explain, At
  <1>2. /\ IsChannels(c) /\ c.input = RunOf(w) /\ c.checks = RunOf(w)
        /\ c.decision.run = RunOf(w)
        /\ \A n \in VendorNodes \cup {"contact", "risk_aggregation_engine"} : c.tasks[n] > 0
        /\ {RunOf(w)} \X VendorNodes \subseteq nodeLogs
    BY ActiveHandler DEF Explain, At, StageGood, ChannelsOf, RunOf, Verified, Aggregated
  <1> HIDE DEF c
  <1>3. writes \in [input : {c.input}, checks : {c.checks}, decision : {c.decision},
                    explanation : {Explanation(c.decision)}, tasks : {c.tasks}]
    BY <1>2 DEF IsChannels
  <1> HIDE DEF writes
  <1>4. /\ IsChannels(writes) /\ writes.input = RunOf(w) /\ writes.checks = RunOf(w)
        /\ writes.decision.run = RunOf(w) /\ writes.tasks = c.tasks
    BY <1>2, <1>3 DEF IsChannels
  <1> DEFINE done == Counted(writes, nodes)
  <1>5. /\ done.input = RunOf(w) /\ done.checks = RunOf(w) /\ done.decision.run = RunOf(w)
        /\ \A n \in TrackedNodes : writes.tasks[n] > 0 \/ n \in nodes => done.tasks[n] > 0
    BY <1>4, CountedGood
  <1>6. \A n \in TrackedNodes : done.tasks[n] > 0
    BY <1>2, <1>4, <1>5 DEF TrackedNodes
  <1> HIDE DEF done
  <1>7. ASSUME NEW h, h.pc = "forget", h.run = RunOf(w), h.channels = done
        PROVE  StageGood(h, nodeLogs')
    BY <1>1, <1>2, <1>5, <1>6, <1>7 DEF StageGood, TrackedNodes
  <1>8. QED
    BY <1>1, <1>4, <1>7, SuperstepGood DEF done

LEMMA GraphFailsGood ==
    ASSUME VerifyInv, NEW w \in Workers, GraphFails(w)
    PROVE  VerifyInv'
  <1> DEFINE h == [handler[w] EXCEPT !.pc = "failed"]
  <1>1. /\ Active(w) /\ Become(w, h) /\ nodeLogs \subseteq nodeLogs'
        /\ UNCHANGED <<requests, checkpoint, checks, cases, answers>>
    BY DEF GraphFails, Active, At, tables
  <1>2. IsHandler(handler[w]) /\ IsChannels(ChannelsOf(w))
    BY ActiveHandler
  <1>3. h \in [pc : {"failed", "record"}, run : {RunOf(w)}, channels : {ChannelsOf(w)},
               seen : {handler[w].seen}, broken : {handler[w].broken}]
    BY <1>2 DEF IsHandler, RunOf, ChannelsOf
  <1> HIDE DEF h
  <1>4. IsHandler(h) /\ h.run = RunOf(w) /\ StageGood(h, nodeLogs')
    BY <1>2, <1>3, FailedGood
  <1>5. QED
    BY <1>1, <1>4, OrdinaryStep

LEMMA ForgetFailureGood ==
    ASSUME VerifyInv, NEW w \in Workers, ForgetFailure(w)
    PROVE  VerifyInv'
  <1>1. Active(w) /\ handler[w].pc = "forget"
    BY ActsWhenAt DEF ForgetFailure, At
  <1>2. /\ UNCHANGED <<requests, checkpoint, checks, nodeLogs, answers>>
        /\ cases' = cases \/ cases' = WithCase(w, "PENDING")
    BY DEF ForgetFailure
  <1>3. IsHandler(handler[w]) /\ IsChannels(ChannelsOf(w)) /\ StageGood(handler[w], nodeLogs)
    BY ActiveHandler
  <1>4. CASE Become(w, [handler[w] EXCEPT !.pc = "settle"])
    <2> DEFINE h == [handler[w] EXCEPT !.pc = "settle"]
    <2>1. h \in [pc : {"settle"}, run : {RunOf(w)}, channels : {ChannelsOf(w)},
                 seen : {handler[w].seen}, broken : {handler[w].broken}]
      BY <1>3 DEF IsHandler, RunOf, ChannelsOf
    <2>2. Become(w, h)
      BY <1>4
    <2> HIDE DEF h
    <2>3. IsHandler(h) /\ h.pc = "settle" /\ h.run = RunOf(w) /\ h.channels = handler[w].channels
      BY <1>3, <2>1 DEF IsHandler, ChannelsOf
    <2>4. StageGood(h, nodeLogs')
      BY <1>1, <1>2, <1>3, <2>3 DEF StageGood, Verified, Aggregated, Explained, RunOf
    <2>5. QED
      BY <1>1, <1>2, <2>2, <2>3, <2>4, OrdinaryStep
  <1>5. CASE Become(w, Broken(w))
    <2>1. Broken(w) \in [pc : {"failed", "record"}, run : {RunOf(w)}, channels : {ChannelsOf(w)},
                         seen : {handler[w].seen}, broken : {TRUE}]
      BY <1>3 DEF IsHandler, RunOf, ChannelsOf, Broken
    <2>2. IsHandler(Broken(w)) /\ Broken(w).run = RunOf(w) /\ StageGood(Broken(w), nodeLogs')
      BY <1>3, <2>1, FailedGood
    <2>3. QED
      BY <1>1, <1>2, <1>5, <2>2, OrdinaryStep
  <1>6. QED
    BY <1>4, <1>5 DEF ForgetFailure

LEMMA ReadFailureGood ==
    ASSUME VerifyInv, NEW w \in Workers, ReadFailure(w)
    PROVE  VerifyInv'
  <1> DEFINE h == [handler[w] EXCEPT !.pc = "record", !.seen = failures[ApplicantOf(w)]]
  <1>1. /\ Active(w)
        /\ UNCHANGED <<requests, checkpoint, checks, cases, nodeLogs>>
    BY ActsWhenAt DEF ReadFailure, At, tables
  <1>2. IsHandler(handler[w]) /\ IsChannels(ChannelsOf(w))
    BY ActiveHandler
  <1>3. CASE Become(w, h) /\ UNCHANGED answers
    <2>1. h \in [pc : {"failed", "record"}, run : {RunOf(w)}, channels : {ChannelsOf(w)},
                 seen : {failures[ApplicantOf(w)]}, broken : {handler[w].broken}]
      BY <1>2 DEF IsHandler, RunOf, ChannelsOf
    <2> HIDE DEF h
    <2>2. IsHandler(h) /\ h.run = RunOf(w) /\ StageGood(h, nodeLogs')
      BY <1>2, <2>1, FailedGood
    <2>3. QED
      BY <1>1, <1>3, <2>2, OrdinaryStep
  <1>4. CASE Answer(w, None)
    BY <1>1, <1>4, Ended
  <1>5. QED
    BY <1>3, <1>4 DEF ReadFailure

LEMMA RecordFailureGood ==
    ASSUME VerifyInv, NEW w \in Workers, RecordFailure(w)
    PROVE  VerifyInv'
  <1>1. Active(w)
    BY ActsWhenAt DEF RecordFailure, At
  <1>2. /\ Answer(w, None)
        /\ UNCHANGED <<requests, checkpoint, checks, nodeLogs>>
        /\ cases' = cases \/ cases' = WithCase(w, "PENDING")
    BY DEF RecordFailure
  <1>3. QED
    BY <1>1, <1>2, Ended

LEMMA CrashGood ==
    ASSUME VerifyInv, NEW w \in Workers, Crash(w)
    PROVE  VerifyInv'
  <1>1. /\ Active(w) /\ Become(w, Idle)
        /\ UNCHANGED <<requests, checkpoint, checks, cases, nodeLogs, answers>>
    BY DEF Crash, Active, tables
  <1>2. IsHandler(Idle) /\ Idle.pc = "idle" /\ StageGood(Idle, nodeLogs')
    BY IdleGood
  <1>3. QED
    BY <1>1, <1>2, OrdinaryStep

(* What a handler that settles its case has in hand.                       *)
LEMMA OwnCheck ==
    ASSUME VerifyInv, NEW w \in Workers, At(w, "settle")
    PROVE  LET own == IdentityCheck(w)
           IN  /\ own.run = RunOf(w) /\ own.decision = ChannelsOf(w).decision
               /\ own.decision.run = own.run
               /\ own.ssn = SignalsOf[requests[own.run].profile].ssn
               /\ \A n \in TrackedNodes : own.tasks[n] > 0
               /\ {own.run} \X VendorNodes \subseteq nodeLogs
  <1> DEFINE c == ChannelsOf(w)
  <1>1. /\ c.checks = RunOf(w) /\ c.decision.run = RunOf(w)
        /\ \A n \in TrackedNodes : c.tasks[n] > 0
        /\ {RunOf(w)} \X VendorNodes \subseteq nodeLogs
    BY ActiveHandler DEF At, StageGood, ChannelsOf, RunOf, Verified, Aggregated, Explained, TrackedNodes
  <1> HIDE DEF c
  <1>2. IdentityCheck(w) = [run |-> RunOf(w), decision |-> c.decision, ssn |-> SignalsIn(c).ssn, tasks |-> c.tasks]
    BY DEF IdentityCheck, c
  <1>3. SignalsIn(c) = SignalsOf[requests[RunOf(w)].profile]
    BY <1>1 DEF SignalsIn
  <1>4. QED
    BY <1>1, <1>2, <1>3 DEF c

LEMMA SettleCaseGood ==
    ASSUME VerifyInv, NEW w \in Workers, SettleCase(w)
    PROVE  VerifyInv'
  <1> DEFINE own == IdentityCheck(w)
             status == StatusOf(ChannelsOf(w).decision.final_status)
  <1>1. /\ At(w, "settle") /\ Active(w)
        /\ UNCHANGED <<requests, checkpoint, failures, nodeLogs>>
    BY ActsWhenAt DEF SettleCase, At
  <1>2. PICK outcome \in CommitOutcomes :
          /\ IF Stored(outcome)
             THEN checks' = checks \cup {own} /\ cases' = WithCase(w, status)
             ELSE UNCHANGED <<checks, cases>>
          /\ Answer(w, IF outcome = "done" THEN Response(w) ELSE None)
    BY DEF SettleCase
  <1>3. CASE ~Stored(outcome)
    <2>1. Answer(w, None) /\ UNCHANGED <<checks, cases>>
      BY <1>2, <1>3 DEF Stored
    <2>2. QED
      BY <1>1, <2>1, Ended
  <1>4. CASE Stored(outcome)
    <2>1. /\ checks' = checks \cup {own}
          /\ DOMAIN cases' = DOMAIN cases \cup {RunOf(w)}
          /\ cases'[RunOf(w)] = status
          /\ \A r \in DOMAIN cases : r # RunOf(w) => cases'[r] = cases[r]
      BY <1>2, <1>4 DEF WithCase, With
    <2>2. /\ own.run = RunOf(w) /\ own.decision = ChannelsOf(w).decision
          /\ own.decision.run = own.run
          /\ own.ssn = SignalsOf[requests[own.run].profile].ssn
          /\ \A n \in TrackedNodes : own.tasks[n] > 0
          /\ {own.run} \X VendorNodes \subseteq nodeLogs
      BY <1>1, OwnCheck
    <2>3. Become(w, Idle) /\ IsHandler(Idle) /\ Idle.pc = "idle" /\ StageGood(Idle, nodeLogs')
      BY <1>2, IdleGood DEF Answer
    <2>4. \A r \in DOMAIN answers' : answers'[r] # None =>
             \/ r = RunOf(w) /\ answers'[r] = Response(w)
             \/ r \in DOMAIN answers /\ answers'[r] = answers[r]
      BY <1>2 DEF Answer, With
    <2>5. Response(w).decision = own.decision /\ StatusOf(Response(w).status) = status
      BY <2>2 DEF Response
    <2> HIDE DEF own, status
    <2>6. \A c \in checks : c.run # RunOf(w)
      BY <1>1 DEF VerifyInv, NoCheckYet
    <2>7. /\ (RunsKnown /\ OneHandler /\ NoCheckYet /\ StagesGood)'
          /\ handler' = [v \in Workers |-> handler'[v]]
          /\ \A v \in Workers : IsHandler(handler'[v])
      BY <1>1, <2>1, <2>2, <2>3, HandlerStep
    <2>8. StateGood'
      BY <1>1, <2>7 DEF VerifyInv, StateGood
    <2>9. CaseMatchesCheck'
      <3>1. \A c \in checks' : c.run \in DOMAIN cases'
        BY <2>1, <2>2 DEF VerifyInv, CaseMatchesCheck
      <3>2. ASSUME NEW r \in DOMAIN cases'
            PROVE  LET theirs == {c \in checks' : c.run = r}
                   IN  IF theirs = {} THEN cases'[r] = "PENDING"
                       ELSE \A c \in theirs : cases'[r] = StatusOf(c.decision.final_status)
        <4>1. CASE r = RunOf(w)
          <5>1. {c \in checks' : c.run = r} = {own}
            BY <2>1, <2>2, <2>6, <4>1
          <5>2. cases'[r] = StatusOf(own.decision.final_status)
            BY <2>1, <2>2, <4>1 DEF status
          <5>3. QED
            BY <5>1, <5>2
        <4>2. CASE r # RunOf(w)
          <5>1. {c \in checks' : c.run = r} = {c \in checks : c.run = r}
            BY <2>1, <2>2, <4>2
          <5>2. r \in DOMAIN cases /\ cases'[r] = cases[r]
            BY <2>1, <3>2, <4>2
          <5>3. QED
            BY <5>1, <5>2 DEF VerifyInv, CaseMatchesCheck
        <4>3. QED
          BY <4>1, <4>2
      <3>3. QED
        BY <3>1, <3>2 DEF CaseMatchesCheck
    <2>10. CheckIsOwn'
      BY <1>1, <2>1, <2>2 DEF VerifyInv, CheckIsOwn
    <2>11. CheckIsAudited'
      BY <1>1, <2>1, <2>2 DEF VerifyInv, CheckIsAudited
    <2>12. AnswerIsRecorded'
      <3>1. ASSUME NEW r \in DOMAIN answers', answers'[r] # None
            PROVE  \E c \in checks' : /\ c.run = r /\ c.decision = answers'[r].decision
                                       /\ cases'[r] = StatusOf(answers'[r].status)
        <4>1. CASE r = RunOf(w) /\ answers'[r] = Response(w)
          BY <2>1, <2>2, <2>5, <4>1
        <4>2. CASE r \in DOMAIN answers /\ answers'[r] = answers[r]
          <5>1. PICK c \in checks : /\ c.run = r /\ c.decision = answers[r].decision
                                    /\ cases[r] = StatusOf(answers[r].status)
            BY <3>1, <4>2 DEF VerifyInv, AnswerIsRecorded
          <5>2. r # RunOf(w) /\ r \in DOMAIN cases
            BY <2>6, <5>1 DEF VerifyInv, CaseMatchesCheck
          <5>3. QED
            BY <2>1, <4>2, <5>1, <5>2
        <4>3. QED
          BY <2>4, <3>1, <4>1, <4>2
      <3>2. QED
        BY <3>1 DEF AnswerIsRecorded
    <2>13. QED
      BY <2>7, <2>8, <2>9, <2>10, <2>11, <2>12 DEF VerifyInv
  <1>5. QED
    BY <1>3, <1>4

-----------------------------------------------------------------------------
LEMMA InitGood == Init => VerifyInv
  <1> SUFFICES ASSUME Init PROVE VerifyInv
    OBVIOUS
  <1>1. \A w \in Workers : handler[w] = Idle
    BY DEF Init
  <1>2. IsHandler(Idle) /\ Idle.pc = "idle" /\ StageGood(Idle, nodeLogs)
    BY IdleGood
  <1>3. StateGood
    <2>1. requests \in Seq(Requests)
      BY DEF Init
    <2>2. \A a \in Applicants : IsChannels(checkpoint[a])
      BY NoChannelsGood DEF Init
    <2>3. QED
      BY <1>1, <1>2, <2>1, <2>2 DEF Init, StateGood
  <1>4. \A w \in Workers : ~Active(w)
    BY <1>1, <1>2 DEF Active, At
  <1>5. RunsKnown /\ OneHandler /\ NoCheckYet
    BY <1>4 DEF Init, RunsKnown, OneHandler, NoCheckYet
  <1>6. StagesGood
    BY <1>1, <1>2 DEF StagesGood
  <1>7. DOMAIN cases = {} /\ DOMAIN answers = {} /\ checks = {}
    BY DEF Init
  <1>8. CaseMatchesCheck /\ CheckIsOwn /\ CheckIsAudited /\ AnswerIsRecorded
    BY <1>7 DEF CaseMatchesCheck, CheckIsOwn, CheckIsAudited, AnswerIsRecorded
  <1>9. QED
    BY <1>3, <1>5, <1>6, <1>8 DEF VerifyInv

LEMMA NextGood == VerifyInv /\ [Next]_vars => VerifyInv'
  <1> SUFFICES ASSUME VerifyInv, [Next]_vars PROVE VerifyInv'
    OBVIOUS
  <1>1. CASE Next
    <2>1. PICK w \in Workers :
            \/ Receive(w) \/ OpenCase(w)
            \/ Normalize(w) \/ Verify(w) \/ Aggregate(w) \/ Explain(w) \/ GraphFails(w)
            \/ ForgetFailure(w) \/ ReadFailure(w) \/ RecordFailure(w) \/ SettleCase(w)
            \/ Crash(w)
      BY <1>1 DEF Next
    <2>2. QED
      BY <2>1, ReceiveGood, OpenCaseGood, NormalizeGood, VerifyGood, AggregateGood, ExplainGood,
         GraphFailsGood, ForgetFailureGood, ReadFailureGood, RecordFailureGood, SettleCaseGood,
         CrashGood
  <1>2. CASE UNCHANGED vars
    BY <1>2 DEF vars, VerifyInv, StateGood, RunsKnown, InRun, OneHandler, NoCheckYet, StagesGood,
                Active, At, RunOf, CaseMatchesCheck, CheckIsOwn, CheckIsAudited, AnswerIsRecorded
  <1>3. QED
    BY <1>1, <1>2

(* The inductive invariant of the verification service: whatever the       *)
(* requests, the failing commits and the crashes, every run has at most    *)
(* one handler, which has written the channels the next node reads and has *)
(* stored no check before its last commit.                                 *)
THEOREM VerifyInvariant == Spec => []VerifyInv
  BY InitGood, NextGood, PTL DEF Spec

(* A case that is published stays PENDING until its identity check is      *)
(* stored, and then has the status of that check: process_kyc settles both *)
(* in one commit.                                                          *)
THEOREM CaseSettled == Spec => []CaseMatchesCheck
  <1>1. VerifyInv => CaseMatchesCheck
    BY DEF VerifyInv
  <1>2. QED
    BY <1>1, VerifyInvariant, PTL

(* Runs of one applicant share a checkpoint thread, also at once, and yet  *)
(* every stored check is made of the request of its own run, by every node *)
(* of the graph.                                                           *)
THEOREM CheckOwn == Spec => []CheckIsOwn
  <1>1. VerifyInv => CheckIsOwn
    BY DEF VerifyInv
  <1>2. QED
    BY <1>1, VerifyInvariant, PTL

(* No check is stored before the nodes that asked the vendor have logged   *)
(* it: they await their audit log.                                         *)
THEOREM CheckAudited == Spec => []CheckIsAudited
  <1>1. VerifyInv => CheckIsAudited
    BY DEF VerifyInv
  <1>2. QED
    BY <1>1, VerifyInvariant, PTL

(* No caller is told of a verification that is not stored, and the case    *)
(* has the status the caller was told.                                     *)
THEOREM AnswerRecorded == Spec => []AnswerIsRecorded
  <1>1. VerifyInv => AnswerIsRecorded
    BY DEF VerifyInv
  <1>2. QED
    BY <1>1, VerifyInvariant, PTL

-----------------------------------------------------------------------------
(***************************************************************************)
(* The verification service passes nobody whom the vendor reports as dead  *)
(* or as a known fraud, for any profiles: the hard rules are looked at     *)
(* first, and by VerifyInvariant the decision a case is settled by is made *)
(* of the report on its own applicant.                                     *)
(***************************************************************************)

Sanctioned(req) == LET report == CreditReport(req) IN report.deceased \/ report.code = "12"

(* The rules. *)

LEMMA ReportFields ==
    ASSUME NEW req
    PROVE  CreditReport(req).deceased \in BOOLEAN
  BY DEF CreditReport, OnFile

LEMMA SanctionSignals ==
    ASSUME NEW p \in DOMAIN Profiles, Sanctioned(Profiles[p])
    PROVE  LET s == SignalsOf[p]
           IN  \/ "ofac_match" \in DOMAIN s.aml /\ s.aml.ofac_match = TRUE
               \/ "deceased_flag" \in DOMAIN s.ssn /\ s.ssn.deceased_flag = TRUE
  <1> DEFINE report == CreditReport(Profiles[p])
  <1>1. report.deceased = TRUE \/ report.code = "12"
    BY ReportFields DEF Sanctioned
  <1>2. /\ SignalsOf[p].ssn = SsnVerification(Profiles[p], report)
        /\ SignalsOf[p].aml = AmlCheck(report)
    BY DEF SignalsOf
  <1> HIDE DEF report
  <1>3. /\ "deceased_flag" \in DOMAIN SsnVerification(Profiles[p], report)
        /\ SsnVerification(Profiles[p], report).deceased_flag = report.deceased
    BY DEF SsnVerification
  <1>4. /\ "ofac_match" \in DOMAIN AmlCheck(report)
        /\ AmlCheck(report).ofac_match = (report.code = "12")
    BY DEF AmlCheck
  <1>5. QED
    BY <1>1, <1>2, <1>3, <1>4

LEMMA HardRules ==
    LET rules == RuleSet.hard_fail_rules
    IN  /\ DOMAIN rules = {1, 2}
        /\ <<"aml", "ofac_match">> \in rules[1].condition
        /\ <<"ssn", "deceased_flag">> \in rules[2].condition
  BY DEF RuleSet, Rule

LEMMA SanctionFails ==
    ASSUME NEW p \in DOMAIN Profiles, Sanctioned(Profiles[p])
    PROVE  /\ "final_status" \in DOMAIN RiskAggregator(RuleSet, SignalsOf[p])
           /\ RiskAggregator(RuleSet, SignalsOf[p]).final_status = "FAIL"
  <1> DEFINE rules == RuleSet.hard_fail_rules
             s == SignalsOf[p]
  <1>1. \/ "ofac_match" \in DOMAIN s.aml /\ s.aml.ofac_match = TRUE
        \/ "deceased_flag" \in DOMAIN s.ssn /\ s.ssn.deceased_flag = TRUE
    BY SanctionSignals
  <1> HIDE DEF s
  <1>2. Holds(rules[1], s) \/ Holds(rules[2], s)
    <2>1. CASE "ofac_match" \in DOMAIN s.aml /\ s.aml.ofac_match = TRUE
      <3> DEFINE path == <<"aml", "ofac_match">>
      <3>1. path \in rules[1].condition /\ path[1] = "aml" /\ path[2] = "ofac_match"
        BY HardRules
      <3>2. QED
        BY <2>1, <3>1 DEF Holds
    <2>2. CASE "deceased_flag" \in DOMAIN s.ssn /\ s.ssn.deceased_flag = TRUE
      <3> DEFINE path == <<"ssn", "deceased_flag">>
      <3>1. path \in rules[2].condition /\ path[1] = "ssn" /\ path[2] = "deceased_flag"
        BY HardRules
      <3>2. QED
        BY <2>2, <3>1 DEF Holds
    <2>3. QED
      BY <1>1, <2>1, <2>2
  <1>3. {i \in DOMAIN rules : Holds(rules[i], s)} # {}
    BY <1>2, HardRules
  <1> HIDE DEF rules
  <1>4. ExecuteRules(RuleSet, s).final_status = "FAIL"
    BY <1>3 DEF ExecuteRules, Verdict, rules
  <1>5. QED
    BY <1>4 DEF RiskAggregator, s

-----------------------------------------------------------------------------
FailsFor(run, decision) == Sanctioned(ProfileOf(run)) => decision.final_status = "FAIL"
SanctionStage(h) == h.pc \in Aggregated => FailsFor(h.run, h.channels.decision)
SanctionStages == \A w \in Workers : SanctionStage(handler[w])
SanctionChecks == \A c \in checks : FailsFor(c.run, c.decision)
SanctionInv == VerifyInv /\ SanctionStages /\ SanctionChecks

(* A step of a handler within its run, of which VerifyInv is known.        *)
LEMMA SanctionStep ==
    ASSUME SanctionInv, NEW w \in Workers, NEW h, Become(w, h), SanctionStage(h),
           UNCHANGED requests,
           \A c \in checks' : c \in checks \/ FailsFor(c.run, c.decision)
    PROVE  (SanctionStages /\ SanctionChecks)'
  <1>1. handler'[w] = h /\ \A v \in Workers : v # w => handler'[v] = handler[v]
    BY DEF SanctionInv, VerifyInv, StateGood, Become
  <1>2. \A run, decision : FailsFor(run, decision)' <=> FailsFor(run, decision)
    BY DEF FailsFor, ProfileOf
  <1>3. \A v \in Workers : SanctionStage(handler'[v])
    BY <1>1 DEF SanctionInv, SanctionStages
  <1>4. SanctionStages'
    BY <1>2, <1>3 DEF SanctionStages, SanctionStage
  <1>5. SanctionChecks'
    BY <1>2 DEF SanctionInv, SanctionChecks
  <1>6. QED
    BY <1>4, <1>5

LEMMA NotDecided ==
    ASSUME NEW h, h.pc \notin Aggregated
    PROVE  SanctionStage(h)
  BY DEF SanctionStage

LEMMA SanctionSuperstep ==
    ASSUME SanctionInv, NEW w \in Workers, NEW nodes, NEW writes, IsChannels(writes),
           NEW next, Superstep(w, nodes, writes, next),
           next \in Aggregated => FailsFor(RunOf(w), writes.decision)
    PROVE  (SanctionStages /\ SanctionChecks)'
  <1> DEFINE done == Counted(writes, nodes)
             h == To(handler[w], next, done)
  <1>1. Become(w, h) /\ UNCHANGED <<requests, checks>>
    BY DEF Superstep, Counted, To, tables
  <1>2. IsHandler(handler[w])
    BY DEF SanctionInv, VerifyInv, StateGood
  <1>3. IsChannels(done) /\ done.decision = writes.decision
    BY CountedGood
  <1> HIDE DEF done
  <1>4. h.pc = next /\ h.run = RunOf(w) /\ h.channels = done
    BY <1>2, <1>3, Moved DEF RunOf
  <1> HIDE DEF h
  <1>5. SanctionStage(h)
    BY <1>3, <1>4 DEF SanctionStage
  <1>6. QED
    BY <1>1, <1>5, SanctionStep

LEMMA AggregateSanction ==
    ASSUME SanctionInv, NEW w \in Workers, Aggregate(w)
    PROVE  (SanctionStages /\ SanctionChecks)'
  <1> DEFINE c == ChannelsOf(w)
             verdict == RiskAggregator(RuleSet, SignalsIn(c))
             decision == Tagged(verdict, c.checks)
             writes == [c EXCEPT !.decision = decision]
  <1>1. Superstep(w, {"risk_aggregation_engine"}, writes, "explain")
    BY DEF Aggregate
  <1>2. /\ Active(w) /\ IsChannels(c) /\ c.checks = RunOf(w)
    BY ActiveHandler, ActsWhenAt DEF SanctionInv, Aggregate, At, StageGood, ChannelsOf, RunOf, Verified
  <1>3. requests[RunOf(w)].profile \in DOMAIN Profiles
    <2>1. requests[RunOf(w)] \in Requests
      BY <1>2 DEF SanctionInv, VerifyInv, StateGood, RunsKnown, InRun
    <2>2. QED
      BY <2>1 DEF Requests
  <1>4. SignalsIn(c) = SignalsOf[requests[RunOf(w)].profile]
    BY <1>2 DEF SignalsIn
  <1>5. ASSUME Sanctioned(ProfileOf(RunOf(w)))
        PROVE  "final_status" \in DOMAIN verdict /\ verdict.final_status = "FAIL"
    BY <1>3, <1>4, <1>5, SanctionFails DEF ProfileOf
  <1> HIDE DEF verdict
  <1>6. FailsFor(RunOf(w), decision)
    BY <1>5 DEF FailsFor, Tagged, With
  <1> HIDE DEF c, decision
  <1>7. writes \in [input : {c.input}, checks : {c.checks}, decision : {decision},
                    explanation : {c.explanation}, tasks : {c.tasks}]
    BY <1>2 DEF IsChannels
  <1> HIDE DEF writes
  <1>8. IsChannels(writes) /\ writes.decision = decision
    BY <1>2, <1>7 DEF IsChannels
  <1>9. QED
    BY <1>1, <1>6, <1>8, SanctionSuperstep

LEMMA ExplainSanction ==
    ASSUME SanctionInv, NEW w \in Workers, Explain(w)
    PROVE  (SanctionStages /\ SanctionChecks)'
  <1> DEFINE c == ChannelsOf(w)
             writes == [c EXCEPT !.explanation = Explanation(c.decision)]
  <1>1. Superstep(w, {"explanation"}, writes, "forget")
    BY DEF Explain
  <1>2. IsChannels(c)
    BY ActiveHandler DEF SanctionInv
  <1>3. FailsFor(RunOf(w), c.decision)
    BY DEF SanctionInv, SanctionStages, SanctionStage, Explain, At, RunOf, ChannelsOf, Aggregated
  <1> HIDE DEF c
  <1>4. writes \in [input : {c.input}, checks : {c.checks}, decision : {c.decision},
                    explanation : {Explanation(c.decision)}, tasks : {c.tasks}]
    BY <1>2 DEF IsChannels
  <1> HIDE DEF writes
  <1>5. IsChannels(writes) /\ writes.decision = c.decision
    BY <1>2, <1>4 DEF IsChannels
  <1>6. QED
    BY <1>1, <1>3, <1>5, SanctionSuperstep

LEMMA ForgetFailureSanction ==
    ASSUME SanctionInv, NEW w \in Workers, ForgetFailure(w)
    PROVE  (SanctionStages /\ SanctionChecks)'
  <1> DEFINE h == [handler[w] EXCEPT !.pc = "settle"]
  <1>1. IsHandler(handler[w])
    BY DEF SanctionInv, VerifyInv, StateGood
  <1>2. FailsFor(RunOf(w), handler[w].channels.decision)
    BY DEF SanctionInv, SanctionStages, SanctionStage, ForgetFailure, At, RunOf, Aggregated
  <1>3. UNCHANGED <<requests, checks>> /\ (Become(w, h) \/ Become(w, Broken(w)))
    BY DEF ForgetFailure
  <1>4. h.run = RunOf(w) /\ h.channels = handler[w].channels /\ Broken(w).pc = "failed"
    <2> DEFINE g == handler[w]
    <2>1. g \in [pc : {g.pc}, run : {g.run}, channels : {g.channels}, seen : {g.seen}, broken : {g.broken}]
      BY <1>1 DEF IsHandler
    <2>2. QED
      BY <2>1 DEF RunOf, Broken
  <1> HIDE DEF h
  <1>5. SanctionStage(h) /\ SanctionStage(Broken(w))
    BY <1>2, <1>4 DEF SanctionStage, Aggregated
  <1>6. QED
    BY <1>3, <1>5, SanctionStep

LEMMA SettleCaseSanction ==
    ASSUME SanctionInv, NEW w \in Workers, SettleCase(w)
    PROVE  (SanctionStages /\ SanctionChecks)'
  <1>1. FailsFor(RunOf(w), ChannelsOf(w).decision)
    BY DEF SanctionInv, SanctionStages, SanctionStage, SettleCase, At, RunOf, ChannelsOf, Aggregated
  <1>2. UNCHANGED requests /\ Become(w, Idle) /\ SanctionStage(Idle)
    BY NotDecided DEF SettleCase, Answer, Idle, Aggregated
  <1>3. \A c \in checks' : c \in checks \/ c = IdentityCheck(w)
    BY DEF SettleCase
  <1>4. IdentityCheck(w).run = RunOf(w) /\ IdentityCheck(w).decision = ChannelsOf(w).decision
    BY DEF IdentityCheck
  <1>5. QED
    BY <1>1, <1>2, <1>3, <1>4, SanctionStep

(* The others: a handler moves to a place before the decision, or leaves.  *)
LEMMA OtherSanction ==
    ASSUME SanctionInv, NEW w \in Workers,
           \/ OpenCase(w) \/ Normalize(w) \/ Verify(w) \/ GraphFails(w)
           \/ ReadFailure(w) \/ RecordFailure(w) \/ Crash(w)
    PROVE  (SanctionStages /\ SanctionChecks)'
  <1>1. IsHandler(handler[w])
    BY DEF SanctionInv, VerifyInv, StateGood
  <1>2. UNCHANGED <<requests, checks>>
    BY DEF OpenCase, Normalize, Verify, Superstep, GraphFails, ReadFailure, RecordFailure, Crash, tables
  <1> DEFINE Going(pc, channels, seen) ==
               {Idle, To(handler[w], pc, channels), [handler[w] EXCEPT !.pc = pc],
                [handler[w] EXCEPT !.pc = pc, !.seen = seen]}
             Places == {"normalize", "verify", "aggregate", "failed", "record"}
  <1>3. \E pc \in Places : \E channels, seen : \E h \in Going(pc, channels, seen) : Become(w, h)
    <2>1. CASE OpenCase(w)
      BY <2>1 DEF OpenCase, StartWith, Answer, To
    <2>2. CASE Normalize(w)
      BY <2>2 DEF Normalize, Superstep, To
    <2>3. CASE Verify(w)
      BY <2>3 DEF Verify, Superstep, To
    <2>4. CASE GraphFails(w)
      BY <2>4 DEF GraphFails
    <2>5. CASE ReadFailure(w)
      BY <2>5 DEF ReadFailure, Answer
    <2>6. CASE RecordFailure(w) \/ Crash(w)
      BY <2>6 DEF RecordFailure, Crash, Answer
    <2>7. QED
      BY <2>1, <2>2, <2>3, <2>4, <2>5, <2>6
  <1>4. ASSUME NEW pc \in Places, NEW channels, NEW seen, NEW h \in Going(pc, channels, seen)
        PROVE  h.pc \in Places \cup {"idle"}
    <2> DEFINE g == handler[w]
    <2>1. g \in [pc : {g.pc}, run : {g.run}, channels : {g.channels}, seen : {g.seen}, broken : {g.broken}]
      BY <1>1 DEF IsHandler
    <2>2. Idle.pc = "idle"
      BY DEF Idle
    <2>3. To(g, pc, channels).pc = pc
      BY <2>1 DEF To
    <2>4. [g EXCEPT !.pc = pc].pc = pc /\ [g EXCEPT !.pc = pc, !.seen = seen].pc = pc
      BY <2>1
    <2>5. QED
      BY <1>4, <2>2, <2>3, <2>4
  <1>5. PICK h : Become(w, h) /\ h.pc \in Places \cup {"idle"}
    BY <1>3, <1>4
  <1>6. SanctionStage(h)
    BY <1>5, NotDecided DEF Aggregated
  <1>7. QED
    BY <1>2, <1>5, <1>6, SanctionStep

LEMMA ReceiveSanction ==
    ASSUME SanctionInv, NEW w \in Workers, Receive(w)
    PROVE  (SanctionStages /\ SanctionChecks)'
  <1> DEFINE h == [Idle EXCEPT !.pc = "open", !.run = Len(requests) + 1]
  <1>1. PICK r \in Requests : requests' = Append(requests, r)
    BY DEF Receive
  <1>2. \A i \in InRun : requests'[i] = requests[i]
    BY <1>1 DEF SanctionInv, VerifyInv, StateGood, InRun
  <1>3. \A run \in InRun : \A decision : FailsFor(run, decision)' <=> FailsFor(run, decision)
    BY <1>2 DEF FailsFor, ProfileOf
  <1>4. Become(w, h) /\ UNCHANGED checks /\ h.pc = "open"
    BY DEF Receive, tables, Idle
  <1> HIDE DEF h
  <1>5. handler'[w] = h /\ \A v \in Workers : v # w => handler'[v] = handler[v]
    BY <1>4 DEF SanctionInv, VerifyInv, StateGood, Become
  <1>6. ASSUME NEW v \in Workers, handler[v].pc \in Aggregated
        PROVE  handler[v].run \in InRun /\ FailsFor(handler[v].run, handler[v].channels.decision)
    BY <1>6 DEF SanctionInv, VerifyInv, RunsKnown, SanctionStages, SanctionStage, Active, At, RunOf, Aggregated
  <1>7. SanctionStages'
    BY <1>3, <1>4, <1>5, <1>6 DEF SanctionStages, SanctionStage, Aggregated
  <1>8. SanctionChecks'
    BY <1>3, <1>4 DEF SanctionInv, VerifyInv, RunsKnown, SanctionChecks
  <1>9. QED
    BY <1>7, <1>8

-----------------------------------------------------------------------------
LEMMA InitSanction == Init => SanctionInv
  <1> SUFFICES ASSUME Init PROVE SanctionInv
    OBVIOUS
  <1>1. \A w \in Workers : handler[w].pc = "idle"
    BY DEF Init, Idle
  <1>2. SanctionStages /\ SanctionChecks
    BY <1>1 DEF Init, SanctionStages, SanctionStage, SanctionChecks, Aggregated
  <1>3. QED
    BY <1>2, InitGood DEF SanctionInv

LEMMA NextSanction == SanctionInv /\ [Next]_vars => SanctionInv'
  <1> SUFFICES ASSUME SanctionInv, [Next]_vars PROVE SanctionInv'
    OBVIOUS
  <1>1. VerifyInv'
    BY NextGood DEF SanctionInv
  <1>2. CASE Next
    <2>1. PICK w \in Workers :
            \/ Receive(w) \/ OpenCase(w)
            \/ Normalize(w) \/ Verify(w) \/ Aggregate(w) \/ Explain(w) \/ GraphFails(w)
            \/ ForgetFailure(w) \/ ReadFailure(w) \/ RecordFailure(w) \/ SettleCase(w)
            \/ Crash(w)
      BY <1>2 DEF Next
    <2>2. (SanctionStages /\ SanctionChecks)'
      BY <2>1, ReceiveSanction, AggregateSanction, ExplainSanction, ForgetFailureSanction,
         SettleCaseSanction, OtherSanction
    <2>3. QED
      BY <1>1, <2>2 DEF SanctionInv
  <1>3. CASE UNCHANGED vars
    <2>1. (SanctionStages /\ SanctionChecks)'
      BY <1>3 DEF vars, SanctionInv, SanctionStages, SanctionStage, SanctionChecks, FailsFor, ProfileOf
    <2>2. QED
      BY <1>1, <2>1 DEF SanctionInv
  <1>4. QED
    BY <1>2, <1>3

(* A case is PENDING or has the status of a stored check.                  *)
LEMMA SanctionedCases == SanctionInv => SanctionedIsFailed
  <1> SUFFICES ASSUME SanctionInv, NEW r \in DOMAIN cases, Sanctioned(ProfileOf(r))
               PROVE  cases[r] # "PASSED"
    BY DEF SanctionedIsFailed, Sanctioned
  <1>1. CASE \E c \in checks : c.run = r
    <2>1. PICK c \in checks : c.run = r
      BY <1>1
    <2>2. cases[r] = StatusOf(c.decision.final_status)
      BY <2>1 DEF SanctionInv, VerifyInv, CaseMatchesCheck
    <2>3. c.decision.final_status = "FAIL"
      BY <2>1 DEF SanctionInv, SanctionChecks, FailsFor
    <2>4. QED
      BY <2>2, <2>3 DEF StatusOf
  <1>2. CASE ~\E c \in checks : c.run = r
    <2>1. {c \in checks : c.run = r} = {}
      BY <1>2
    <2>2. cases[r] = "PENDING"
      BY <2>1 DEF SanctionInv, VerifyInv, CaseMatchesCheck
    <2>3. QED
      BY <2>2
  <1>3. QED
    BY <1>1, <1>2

(* The inductive invariant behind the failure: from the rule engine on, a  *)
(* run whose report names its applicant dead or a fraud carries FAIL.      *)
THEOREM SanctionInvariant == Spec => []SanctionInv
  BY InitSanction, NextSanction, PTL DEF Spec

(* Nobody the vendor reports as dead or as a known fraud passes, whatever  *)
(* the other signals are and whatever earlier runs of the applicant left   *)
(* behind: execute_rules settles the hard rules first.                     *)
THEOREM SanctionedFailed == Spec => []SanctionedIsFailed
  BY SanctionInvariant, SanctionedCases, PTL
-----------------------------------------------------------------------------
(* Failures are counted, and what is stored or answered is of a request    *)
(* that was received.                                                      *)
IsCount(n) == n = None \/ n \in Nat
Statuses == {"PENDING", "PASSED", "FAILED"}
TypeFits ==
    /\ DOMAIN cases \subseteq InRun /\ \A r \in DOMAIN cases : cases[r] \in Statuses
    /\ DOMAIN failures = Applicants /\ \A a \in Applicants : IsCount(failures[a])
    /\ \A w \in Workers : At(w, "record") => IsCount(handler[w].seen)
    /\ nodeLogs \subseteq InRun \X VendorNodes
    /\ DOMAIN answers \subseteq InRun

LEMMA TypesKept ==
    ASSUME TypeFits, NEW w \in Workers, NEW run \in InRun', NEW h, handler'[w] = h,
           h.pc = "record" => IsCount(h.seen),
           \A v \in Workers \ {w} : handler'[v] = handler[v],
           InRun \subseteq InRun',
           cases' = cases \/ \E status \in Statuses : cases' = With(cases, run, status),
           \/ failures' = failures
           \/ \E a, n : IsCount(n) /\ failures' = [failures EXCEPT ![a] = n],
           nodeLogs' \subseteq nodeLogs \cup ({run} \X VendorNodes),
           answers' = answers \/ \E answer : answers' = With(answers, run, answer)
    PROVE  TypeFits'
  <1>1. DOMAIN cases' \subseteq InRun' /\ \A r \in DOMAIN cases' : cases'[r] \in Statuses
    BY DEF TypeFits, With
  <1>2. DOMAIN failures' = Applicants /\ \A a \in Applicants : IsCount(failures'[a])
    BY DEF TypeFits
  <1>3. \A v \in Workers : At(v, "record")' => IsCount(handler'[v].seen)
    BY DEF TypeFits, At
  <1>4. nodeLogs' \subseteq InRun' \X VendorNodes
    BY DEF TypeFits
  <1>5. DOMAIN answers' \subseteq InRun'
    BY DEF TypeFits, With
  <1>6. QED
    BY <1>1, <1>2, <1>3, <1>4, <1>5 DEF TypeFits, IsCount

(* A step of a handler that serves a run.                                  *)
LEMMA HandlerTypes ==
    ASSUME VerifyInv, TypeFits, NEW w \in Workers, Active(w), UNCHANGED requests,
           NEW h, Become(w, h), h.pc = "record" => IsCount(h.seen),
           cases' = cases \/ \E status \in Statuses : cases' = With(cases, RunOf(w), status),
           \/ failures' = failures
           \/ \E a, n : IsCount(n) /\ failures' = [failures EXCEPT ![a] = n],
           nodeLogs' \subseteq nodeLogs \cup ({RunOf(w)} \X VendorNodes),
           answers' = answers \/ \E answer : answers' = With(answers, RunOf(w), answer)
    PROVE  TypeFits'
  <1>1. handler'[w] = h /\ \A v \in Workers \ {w} : handler'[v] = handler[v]
    BY DEF VerifyInv, StateGood, Become
  <1>2. RunOf(w) \in InRun' /\ InRun' = InRun
    BY DEF VerifyInv, RunsKnown, InRun
  <1>3. QED
    BY <1>1, <1>2, TypesKept

LEMMA AnswerTypes ==
    ASSUME VerifyInv, TypeFits, NEW w \in Workers, Active(w), NEW answer, Answer(w, answer),
           UNCHANGED <<requests, nodeLogs>>,
           cases' = cases \/ \E status \in Statuses : cases' = With(cases, RunOf(w), status),
           \/ failures' = failures
           \/ \E a, n : IsCount(n) /\ failures' = [failures EXCEPT ![a] = n]
    PROVE  TypeFits'
  <1>1. Become(w, Idle) /\ answers' = With(answers, RunOf(w), answer) /\ Idle.pc = "idle"
    BY IdleGood DEF Answer
  <1>2. QED
    BY <1>1, HandlerTypes

LEMMA ReceiveTypes ==
    ASSUME VerifyInv, TypeFits, NEW w \in Workers, Receive(w)
    PROVE  TypeFits'
  <1> DEFINE h == [Idle EXCEPT !.pc = "open", !.run = Len(requests) + 1]
  <1>1. h.pc = "open"
    BY DEF Idle
  <1>2. Become(w, h) /\ UNCHANGED <<cases, failures, nodeLogs, answers>>
    BY DEF Receive, tables
  <1> HIDE DEF h
  <1>3. handler'[w] = h /\ \A v \in Workers \ {w} : handler'[v] = handler[v]
    BY <1>2 DEF VerifyInv, StateGood, Become
  <1>4. PICK r \in Requests : requests' = Append(requests, r)
    BY DEF Receive
  <1>5. requests \in Seq(Requests) /\ Len(requests) \in Nat
    BY LenProperties DEF VerifyInv, StateGood
  <1>6. InRun = 1..Len(requests) /\ InRun' = 1..(Len(requests) + 1)
    BY <1>4, <1>5, AppendProperties DEF InRun
  <1>7. Len(requests) + 1 \in InRun' /\ InRun \subseteq InRun'
    BY <1>5, <1>6
  <1>8. QED
    BY <1>1, <1>2, <1>3, <1>7, TypesKept

(* The steps that leave the tables alone.                                  *)
LEMMA GraphTypes ==
    ASSUME VerifyInv, TypeFits, NEW w \in Workers,
           OpenCase(w) \/ Normalize(w) \/ Verify(w) \/ Aggregate(w) \/ Explain(w) \/ GraphFails(w)
    PROVE  TypeFits'
  <1>1. Active(w) /\ UNCHANGED <<requests, failures, cases>>
    BY DEF OpenCase, Normalize, Verify, Aggregate, Explain, GraphFails, Superstep, tables, Active, At
  <1>2. nodeLogs' \subseteq nodeLogs \cup ({RunOf(w)} \X VendorNodes)
    BY DEF OpenCase, Normalize, Verify, Aggregate, Explain, GraphFails
  <1>3. IsHandler(handler[w])
    BY ActiveHandler
  <1>4. ASSUME NEW pc, NEW channels, pc # "record", UNCHANGED answers,
               Become(w, [handler[w] EXCEPT !.pc = pc, !.channels = channels])
        PROVE  TypeFits'
    <2> DEFINE h == [handler[w] EXCEPT !.pc = pc, !.channels = channels]
    <2>1. h.pc = pc
      BY <1>3 DEF IsHandler
    <2>2. Become(w, h)
      BY <1>4
    <2> HIDE DEF h
    <2>3. QED
      BY <1>1, <1>2, <1>4, <2>1, <2>2, HandlerTypes
  <1>5. CASE OpenCase(w)
    <2>1. CASE Answer(w, None)
      BY <1>1, <1>5, <2>1, AnswerTypes DEF OpenCase
    <2>2. CASE StartWith(w, [checkpoint[ApplicantOf(w)] EXCEPT !.input = RunOf(w)])
      BY <1>4, <2>2 DEF StartWith
    <2>3. QED
      BY <1>5, <2>1, <2>2 DEF OpenCase
  <1>6. ASSUME NEW nodes, NEW writes, NEW next, next # "record", Superstep(w, nodes, writes, next)
        PROVE  TypeFits'
    BY <1>4, <1>6 DEF Superstep
  <1>7. CASE Normalize(w)
    BY <1>6, <1>7 DEF Normalize
  <1>8. CASE Verify(w)
    BY <1>6, <1>8 DEF Verify
  <1>9. CASE Aggregate(w)
    BY <1>6, <1>9 DEF Aggregate
  <1>10. CASE Explain(w)
    BY <1>6, <1>10 DEF Explain
  <1>11. CASE GraphFails(w)
    <2> DEFINE h == [handler[w] EXCEPT !.pc = "failed"]
    <2>1. h.pc = "failed"
      BY <1>3 DEF IsHandler
    <2>2. Become(w, h) /\ UNCHANGED answers
      BY <1>11 DEF GraphFails
    <2> HIDE DEF h
    <2>3. QED
      BY <1>1, <1>2, <2>1, <2>2, HandlerTypes
  <1>12. QED
    BY <1>5, <1>7, <1>8, <1>9, <1>10, <1>11

(* A count is read before it is written back, and another handler may have *)
(* written the record between the two.                                     *)
LEMMA FailureTypes ==
    ASSUME VerifyInv, TypeFits, NEW w \in Workers, ReadFailure(w) \/ RecordFailure(w) \/ ForgetFailure(w)
    PROVE  TypeFits'
  <1>1. Active(w) /\ UNCHANGED <<requests, nodeLogs>>
    BY DEF ReadFailure, RecordFailure, ForgetFailure, Active, At
  <1>2. IsHandler(handler[w]) /\ ApplicantOf(w) \in Applicants
    BY <1>1, ActiveHandler
  <1>3. CASE ReadFailure(w)
    <2> DEFINE h == [handler[w] EXCEPT !.pc = "record", !.seen = failures[ApplicantOf(w)]]
    <2>1. UNCHANGED <<failures, cases>>
      BY <1>3 DEF ReadFailure, tables
    <2>2. CASE Answer(w, None)
      BY <1>1, <2>1, <2>2, AnswerTypes
    <2>3. CASE Become(w, h) /\ UNCHANGED answers
      <3>1. h.seen = failures[ApplicantOf(w)]
        BY <1>2 DEF IsHandler
      <3> HIDE DEF h
      <3>2. IsCount(h.seen)
        BY <1>2, <3>1 DEF TypeFits
      <3>3. QED
        BY <1>1, <2>1, <2>3, <3>2, HandlerTypes
    <2>4. QED
      BY <1>3, <2>2, <2>3 DEF ReadFailure
  <1>4. CASE RecordFailure(w)
    <2>1. IsCount(handler[w].seen)
      BY <1>4 DEF RecordFailure, TypeFits
    <2>2. IsCount(IF handler[w].seen = None THEN 0 ELSE handler[w].seen + 1)
      BY <2>1 DEF IsCount
    <2>3. /\ \/ failures' = failures
             \/ \E a, n : IsCount(n) /\ failures' = [failures EXCEPT ![a] = n]
          /\ cases' = cases \/ cases' = With(cases, RunOf(w), "PENDING")
      BY <1>4, <2>2 DEF RecordFailure, WithCase
    <2>4. Answer(w, None) /\ "PENDING" \in Statuses
      BY <1>4 DEF RecordFailure, Statuses
    <2>5. QED
      BY <1>1, <2>3, <2>4, AnswerTypes
  <1>5. CASE ForgetFailure(w)
    <2>1. IsCount(None) /\ "PENDING" \in Statuses
      BY DEF IsCount, Statuses
    <2>2. /\ \/ failures' = failures
             \/ failures' = [failures EXCEPT ![ApplicantOf(w)] = None]
          /\ cases' = cases \/ cases' = With(cases, RunOf(w), "PENDING")
          /\ UNCHANGED answers
      BY <1>5 DEF ForgetFailure, WithCase
    <2>3. PICK h \in {[handler[w] EXCEPT !.pc = "settle"], Broken(w)} : Become(w, h)
      BY <1>5 DEF ForgetFailure
    <2>4. h.pc \in {"settle", "failed"}
      BY <1>2, <2>3 DEF IsHandler, Broken
    <2>5. QED
      BY <1>1, <2>1, <2>2, <2>3, <2>4, HandlerTypes
  <1>6. QED
    BY <1>3, <1>4, <1>5

LEMMA SettleCaseTypes ==
    ASSUME VerifyInv, TypeFits, NEW w \in Workers, SettleCase(w)
    PROVE  TypeFits'
  <1> DEFINE status == StatusOf(ChannelsOf(w).decision.final_status)
  <1>1. Active(w) /\ UNCHANGED <<requests, nodeLogs, failures>>
    BY DEF SettleCase, Active, At
  <1>2. status \in Statuses
    BY DEF StatusOf, Statuses
  <1>3. cases' = cases \/ cases' = With(cases, RunOf(w), status)
    BY DEF SettleCase, WithCase
  <1> HIDE DEF status
  <1>4. PICK answer : Answer(w, answer)
    BY DEF SettleCase
  <1>5. QED
    BY <1>1, <1>2, <1>3, <1>4, AnswerTypes

LEMMA TypeStep ==
    ASSUME VerifyInv, TypeFits, [Next]_vars
    PROVE  TypeFits'
  <1>1. CASE UNCHANGED vars
    BY <1>1 DEF vars, TypeFits, At, InRun
  <1>2. ASSUME NEW w \in Workers, Crash(w)
        PROVE  TypeFits'
    <2>1. /\ Active(w) /\ Become(w, Idle)
          /\ UNCHANGED <<requests, cases, failures, nodeLogs, answers>>
      BY <1>2 DEF Crash, Active, tables
    <2>2. Idle.pc = "idle"
      BY IdleGood
    <2>3. QED
      BY <2>1, <2>2, HandlerTypes
  <1>3. QED
    BY <1>1, <1>2, ReceiveTypes, GraphTypes, FailureTypes, SettleCaseTypes DEF Next

(* The cases, failure records, node logs and answers keep their types: a   *)
(* case has one of three statuses, a failure record counts, and everything *)
(* stored or answered belongs to a request that was received.              *)
THEOREM KycTypeCorrect == Spec => []TypeOK
  <1>1. Init => TypeFits
    BY DEF Init, TypeFits, IsCount, At, Idle
  <1>2. VerifyInv /\ TypeFits /\ [Next]_vars => TypeFits'
    BY TypeStep
  <1>3. VerifyInv /\ TypeFits => TypeOK
    BY DEF VerifyInv, StateGood, TypeFits, IsCount, InRun, Statuses, TypeOK
  <1>4. QED
    BY <1>1, <1>2, <1>3, VerifyInvariant, PTL DEF Spec
=============================================================================
