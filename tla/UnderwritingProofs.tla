--------------------------- MODULE UnderwritingProofs ---------------------------
(***************************************************************************)
(* Proofs about Underwriting, for any number of workers, applications and  *)
(* requests, any credit reports and terms, and any mix of failing database *)
(* calls and crashes.                                                      *)
(*                                                                         *)
(* Runs of an application share a checkpoint thread and start from what it *)
(* holds.  A decision is all the same its own, because on every path to it *)
(* the run has written each channel that it is composed of (StageGood).    *)
(***************************************************************************)
EXTENDS Underwriting, SequenceTheorems, FiniteSetTheorems, TLAPS

Active(w) == ~At(w, "idle")

(* Records are described by their fields, whose values are of no one type. *)
IsChannels(c) == c \in [input : {c.input}, signals : {c.signals}, risk : {c.risk},
                        decision : {c.decision}, offer : {c.offer}, tasks : {c.tasks}]
IsHandler(h) ==
    /\ h \in [pc : {h.pc}, run : {h.run}, channels : {h.channels}, seen : {h.seen}, broken : {h.broken}]
    /\ IsChannels(h.channels)

(* What the graph has written by the time a handler is at a place.         *)
Saving == {"save", "forget"}
Composed == {"respond"} \cup Saving
Decided == {"counter"} \cup Composed
Scored == {"decide"} \cup Decided
InGraph == {"mask", "evaluate", "aggregate"} \cup Scored
OfferGood(c, run) == c.decision.decision = "COUNTER_OFFER" => c.offer # None /\ c.offer.run = run
Did(h, nodes) == {h.run} \X nodes \subseteq h.channels.tasks
StageGood(h) ==
    /\ h.pc \in InGraph => h.channels.input = h.run
    /\ h.pc \in InGraph \ {"mask"} => Did(h, {"pi_deletion"})
    /\ h.pc \in {"aggregate"} \cup Scored => h.channels.signals = h.run /\ Did(h, DOMAIN Weights)
    /\ h.pc \in Scored => h.channels.risk.run = h.run /\ Did(h, {"aggregate"})
    /\ h.pc \in Decided => h.channels.decision.run = h.run /\ Did(h, {"decision"})
    /\ h.pc \in Composed => OfferGood(h.channels, h.run)
    /\ h.pc \in Saving => Did(h, {"final_response"})

StateGood ==
    /\ requests \in Seq(Requests) /\ Len(requests) <= MaxRuns
    /\ checkpoint = [a \in Apps |-> checkpoint[a]]
    /\ \A a \in Apps : IsChannels(checkpoint[a])
    /\ handler = [w \in Workers |-> handler[w]]
    /\ \A w \in Workers : IsHandler(handler[w]) /\ (Active(w) => RunOf(w) \in Runs)
StagesGood == \A w \in Workers : StageGood(handler[w])

(* The decision a handler is about to answer with.                         *)
SavedFor(h, rows) == h.pc = "forget" => \E d \in rows : d.run = h.run /\ d.payload = Payload(h.channels)
AnswersSaved == \A w \in Workers : SavedFor(handler[w], decisions)

DecideInv == StateGood /\ StagesGood /\ AnswersSaved /\ DecisionIsOwn /\ AnswerIsRecorded

-----------------------------------------------------------------------------
LEMMA NoChannelsGood == IsChannels(NoChannels)
  BY DEF IsChannels, NoChannels

LEMMA IdleGood ==
    ASSUME NEW rows
    PROVE  IsHandler(Idle) /\ Idle.pc = "idle" /\ StageGood(Idle) /\ SavedFor(Idle, rows)
  <1>1. Idle = [pc |-> "idle", run |-> 0, channels |-> NoChannels, seen |-> None, broken |-> FALSE]
    BY DEF Idle
  <1>2. IsHandler(Idle) /\ Idle.pc = "idle"
    BY <1>1, NoChannelsGood DEF IsHandler
  <1>3. QED
    BY <1>2 DEF StageGood, SavedFor, InGraph, Scored, Decided, Composed, Saving

(* One stored decision of DecisionIsOwn.                                   *)
OwnDecision(d) ==
    LET decision == d.payload.decision
        offer == d.payload.offer
    IN  /\ d.risk.run = d.run /\ decision.run = d.run
        /\ IF decision.decision = "COUNTER_OFFER" THEN offer # None /\ offer.run = d.run
           ELSE offer = None
        /\ {d.run} \X (DOMAIN Weights \cup {"pi_deletion", "aggregate", "decision", "final_response"})
             \subseteq d.tasks

LEMMA OwnDecisions == DecisionIsOwn <=> \A d \in decisions : OwnDecision(d)
  BY DEF DecisionIsOwn, OwnDecision

(* A step of a handler within its run: nothing the others rely on goes,    *)
(* and what it stores and answers is in order.                             *)
LEMMA HandlerStep ==
    ASSUME DecideInv, NEW w \in Workers, Active(w), NEW h, IsHandler(h), Become(w, h),
           h.pc # "idle" => h.run = RunOf(w),
           StageGood(h), SavedFor(h, decisions'),
           UNCHANGED requests, decisions \subseteq decisions',
           \/ checkpoint' = checkpoint
           \/ \E a, c : IsChannels(c) /\ checkpoint' = [checkpoint EXCEPT ![a] = c],
           \A d \in decisions' : d \in decisions \/ OwnDecision(d),
           \A r \in DOMAIN answers' : answers'[r] # None =>
               \/ r \in DOMAIN answers /\ answers'[r] = answers[r]
               \/ \E d \in decisions' : d.run = r /\ d.payload = answers'[r]
    PROVE  DecideInv'
  <1>1. /\ handler'[w] = h
        /\ \A v \in Workers : v # w => handler'[v] = handler[v]
        /\ handler' = [v \in Workers |-> handler'[v]]
    BY DEF DecideInv, StateGood, Become
  <1>2. \A v \in Workers : Active(v)' => Active(v) /\ RunOf(v)' = RunOf(v)
    BY <1>1 DEF Active, At, RunOf
  <1>3. \A v \in Workers : IsHandler(handler'[v]) /\ (Active(v)' => RunOf(v)' \in Runs')
    BY <1>1, <1>2 DEF DecideInv, StateGood, Runs
  <1>4. /\ checkpoint' = [a \in Apps |-> checkpoint'[a]]
        /\ \A a \in Apps : IsChannels(checkpoint'[a])
    <2>1. /\ checkpoint = [a \in Apps |-> checkpoint[a]]
          /\ \A a \in Apps : IsChannels(checkpoint[a])
      BY DEF DecideInv, StateGood
    <2>2. CASE checkpoint' = checkpoint
      BY <2>1, <2>2
    <2>3. ASSUME NEW a, NEW c, IsChannels(c), checkpoint' = [checkpoint EXCEPT ![a] = c]
          PROVE  <1>4
      BY <2>1, <2>3
    <2>4. QED
      BY <2>2, <2>3
  <1>5. StateGood'
    BY <1>1, <1>3, <1>4 DEF DecideInv, StateGood
  <1>6. StagesGood'
    BY <1>1 DEF DecideInv, StagesGood
  <1>7. AnswersSaved'
    BY <1>1 DEF DecideInv, AnswersSaved, SavedFor
  <1>8. DecisionIsOwn'
    <2>1. \A d \in decisions : OwnDecision(d)
      BY OwnDecisions DEF DecideInv
    <2>2. \A d \in decisions' : OwnDecision(d)
      BY <2>1
    <2>3. QED
      BY <2>2 DEF DecisionIsOwn, OwnDecision
  <1>9. AnswerIsRecorded'
    BY DEF DecideInv, AnswerIsRecorded
  <1>10. QED
    BY <1>5, <1>6, <1>7, <1>8, <1>9 DEF DecideInv

LEMMA ActiveHandler ==
    ASSUME DecideInv, NEW w \in Workers, NEW pc, handler[w].pc = pc, pc # "idle"
    PROVE  /\ Active(w) /\ IsHandler(handler[w]) /\ IsChannels(ChannelsOf(w))
           /\ StageGood(handler[w]) /\ SavedFor(handler[w], decisions)
           /\ AppOf(w) \in Apps /\ IsChannels(checkpoint[AppOf(w)])
           /\ requests[RunOf(w)] \in Requests /\ RunOf(w) \in 1..MaxRuns
  <1>1. Active(w) /\ RunOf(w) \in DOMAIN requests
    BY DEF DecideInv, StateGood, Active, At, Runs
  <1>2. requests[RunOf(w)] \in Requests /\ RunOf(w) \in 1..MaxRuns
    BY <1>1, UnderwritingAssumption DEF DecideInv, StateGood
  <1>3. QED
    BY <1>1, <1>2 DEF DecideInv, StateGood, IsHandler, StagesGood, AnswersSaved, ChannelsOf, AppOf, Requests

(* A handler that moves within its run.                                    *)
To(h, pc, channels) == [h EXCEPT !.pc = pc, !.channels = channels]

LEMMA Moved ==
    ASSUME NEW h, IsHandler(h), NEW pc, NEW channels, IsChannels(channels)
    PROVE  /\ IsHandler(To(h, pc, channels))
           /\ To(h, pc, channels).pc = pc /\ To(h, pc, channels).run = h.run
           /\ To(h, pc, channels).channels = channels
  <1> DEFINE moved == To(h, pc, channels)
  <1>1. moved \in [pc : {pc}, run : {h.run}, channels : {channels}, seen : {h.seen}, broken : {h.broken}]
    BY DEF IsHandler, To
  <1> HIDE DEF moved
  <1>2. QED
    BY <1>1 DEF IsHandler, moved

(* Handlers that have failed rely on nothing.                              *)
LEMMA FailedGood ==
    ASSUME NEW rows, NEW run, NEW channels, IsChannels(channels), NEW seen, NEW broken,
           NEW h \in [pc : {"failed", "record"}, run : {run}, channels : {channels},
                      seen : {seen}, broken : {broken}]
    PROVE  IsHandler(h) /\ h.run = run /\ StageGood(h) /\ SavedFor(h, rows)
  BY DEF IsHandler, StageGood, SavedFor, InGraph, Scored, Decided, Composed, Saving

LEMMA Ended ==
    ASSUME DecideInv, NEW w \in Workers, Active(w), Answer(w, None),
           UNCHANGED <<requests, checkpoint, decisions>>
    PROVE  DecideInv'
  <1>1. Become(w, Idle) /\ answers' = With(answers, RunOf(w), None)
    BY DEF Answer
  <1>2. IsHandler(Idle) /\ Idle.pc = "idle" /\ StageGood(Idle) /\ SavedFor(Idle, decisions')
    BY IdleGood
  <1>3. \A r \in DOMAIN answers' : answers'[r] # None => r \in DOMAIN answers /\ answers'[r] = answers[r]
    BY <1>1 DEF With
  <1>4. QED
    BY <1>1, <1>2, <1>3, HandlerStep

(* The writes of a superstep, with its nodes in the list of tasks.         *)
Executed(writes, run, nodes) == [writes EXCEPT !.tasks = @ \cup ({run} \X nodes)]

LEMMA ExecutedGood ==
    ASSUME NEW writes, IsChannels(writes), NEW run, NEW nodes
    PROVE  LET done == Executed(writes, run, nodes)
           IN  /\ IsChannels(done)
               /\ done.input = writes.input /\ done.signals = writes.signals
               /\ done.risk = writes.risk /\ done.decision = writes.decision
               /\ done.offer = writes.offer
               /\ done.tasks = writes.tasks \cup ({run} \X nodes)
  <1> DEFINE done == Executed(writes, run, nodes)
             tasks == writes.tasks \cup ({run} \X nodes)
  <1>1. done \in [input : {writes.input}, signals : {writes.signals}, risk : {writes.risk},
                  decision : {writes.decision}, offer : {writes.offer}, tasks : {tasks}]
    BY DEF IsChannels, Executed
  <1> HIDE DEF done, tasks
  <1>2. QED
    BY <1>1 DEF IsChannels, done, tasks

LEMMA SuperstepGood ==
    ASSUME DecideInv, NEW w \in Workers, Active(w), NEW nodes, NEW writes, IsChannels(writes),
           NEW next, next \notin {"idle", "forget"}, Superstep(w, nodes, writes, next),
           \A h : /\ h.pc = next /\ h.run = RunOf(w)
                  /\ h.channels = Executed(writes, RunOf(w), nodes)
                 => StageGood(h)
    PROVE  DecideInv'
  <1> DEFINE done == Executed(writes, RunOf(w), nodes)
             h == To(handler[w], next, done)
  <1>1. /\ checkpoint' = [checkpoint EXCEPT ![AppOf(w)] = done]
        /\ Become(w, h)
        /\ UNCHANGED <<requests, failures, decisions, answers>>
    BY DEF Superstep, Executed, To
  <1>2. IsChannels(done)
    BY ExecutedGood
  <1> HIDE DEF done
  <1>3. IsHandler(handler[w])
    BY DEF DecideInv, StateGood
  <1>4. IsHandler(h) /\ h.pc = next /\ h.run = RunOf(w) /\ h.channels = done
    BY <1>2, <1>3, Moved DEF RunOf
  <1> HIDE DEF h
  <1>5. StageGood(h) /\ SavedFor(h, decisions')
    BY <1>4 DEF done, SavedFor
  <1>6. QED
    BY <1>1, <1>2, <1>4, <1>5, HandlerStep

-----------------------------------------------------------------------------
(* The actions, in the order of a run. *)

LEMMA ReceiveGood ==
    ASSUME DecideInv, NEW w \in Workers, Receive(w)
    PROVE  DecideInv'
  <1> DEFINE h == [Idle EXCEPT !.pc = "lookup", !.run = Len(requests) + 1]
  <1>1. PICK r \in Requests : requests' = Append(requests, r)
    BY DEF Receive
  <1>2. /\ requests \in Seq(Requests) /\ requests' \in Seq(Requests)
        /\ Len(requests) < MaxRuns /\ MaxRuns \in Nat
        /\ Runs = 1..Len(requests) /\ Runs' = 1..(Len(requests) + 1)
        /\ Len(requests') = Len(requests) + 1 /\ Len(requests) \in Nat
    BY <1>1, UnderwritingAssumption DEF DecideInv, StateGood, Runs, Receive
  <1>3. h \in [pc : {"lookup"}, run : {Len(requests) + 1}, channels : {NoChannels},
               seen : {None}, broken : {FALSE}]
    BY DEF Idle
  <1>4. UNCHANGED <<checkpoint, decisions, answers>> /\ Become(w, h)
    BY DEF Receive
  <1> HIDE DEF h
  <1>5. /\ IsHandler(h) /\ StageGood(h) /\ SavedFor(h, decisions) /\ h.run = Len(requests) + 1
    BY <1>3, NoChannelsGood DEF IsHandler, StageGood, SavedFor, InGraph, Scored, Decided, Composed, Saving
  <1>6. /\ handler'[w] = h
        /\ \A v \in Workers : v # w => handler'[v] = handler[v]
        /\ handler' = [v \in Workers |-> handler'[v]]
    BY <1>4 DEF DecideInv, StateGood, Become
  <1>7. \A v \in Workers : IsHandler(handler'[v]) /\ (Active(v)' => RunOf(v)' \in Runs')
    BY <1>2, <1>5, <1>6 DEF DecideInv, StateGood, Active, At, RunOf
  <1>8. Len(requests') <= MaxRuns
    BY <1>2
  <1>9. StateGood'
    BY <1>2, <1>4, <1>6, <1>7, <1>8 DEF DecideInv, StateGood
  <1>10. StagesGood' /\ AnswersSaved'
    BY <1>4, <1>5, <1>6 DEF DecideInv, StagesGood, AnswersSaved
  <1>11. DecisionIsOwn' /\ AnswerIsRecorded'
    BY <1>4 DEF DecideInv, DecisionIsOwn, AnswerIsRecorded
  <1>12. QED
    BY <1>9, <1>10, <1>11 DEF DecideInv

LEMMA LookupGood ==
    ASSUME DecideInv, NEW w \in Workers, Lookup(w)
    PROVE  DecideInv'
  <1> DEFINE left == checkpoint[AppOf(w)]
             c == [left EXCEPT !.input = RunOf(w)]
             h == To(handler[w], "mask", c)
  <1>1. Active(w) /\ IsHandler(handler[w]) /\ IsChannels(left)
    BY ActiveHandler DEF Lookup, At
  <1>2. CASE /\ checkpoint' = [checkpoint EXCEPT ![AppOf(w)] = c]
             /\ Become(w, h) /\ UNCHANGED <<requests, decisions, answers>>
    <2> HIDE DEF left
    <2>1. c \in [input : {RunOf(w)}, signals : {left.signals}, risk : {left.risk},
                 decision : {left.decision}, offer : {left.offer}, tasks : {left.tasks}]
      BY <1>1 DEF IsChannels
    <2> HIDE DEF c
    <2>2. IsChannels(c) /\ c.input = RunOf(w)
      BY <2>1 DEF IsChannels
    <2>3. IsHandler(h) /\ h.pc = "mask" /\ h.run = RunOf(w) /\ h.channels = c
      BY <1>1, <2>2, Moved DEF RunOf
    <2> HIDE DEF h
    <2>4. StageGood(h) /\ SavedFor(h, decisions')
      BY <2>2, <2>3 DEF StageGood, SavedFor, Scored, Decided, Composed, Saving
    <2>5. QED
      BY <1>1, <1>2, <2>2, <2>3, <2>4, HandlerStep
  <1>3. CASE Answer(w, None) /\ UNCHANGED <<requests, checkpoint, decisions>>
    BY <1>1, <1>3, Ended
  <1>4. QED
    BY <1>2, <1>3 DEF Lookup, To

LEMMA MaskReportGood ==
    ASSUME DecideInv, NEW w \in Workers, MaskReport(w)
    PROVE  DecideInv'
  <1> DEFINE c == ChannelsOf(w)
             done == Executed(c, RunOf(w), {"pi_deletion"})
  <1>1. Active(w) /\ IsChannels(c) /\ c.input = RunOf(w)
    BY ActiveHandler DEF MaskReport, At, StageGood, ChannelsOf, RunOf, InGraph
  <1>2. done.input = RunOf(w) /\ {RunOf(w)} \X {"pi_deletion"} \subseteq done.tasks
    BY <1>1, ExecutedGood
  <1> HIDE DEF done
  <1>3. ASSUME NEW h, h.pc = "evaluate", h.run = RunOf(w), h.channels = done
        PROVE  StageGood(h)
    BY <1>2, <1>3 DEF StageGood, Did, Scored, Decided, Composed, Saving
  <1>4. QED
    BY <1>1, <1>3, SuperstepGood DEF MaskReport, done

LEMMA EvaluateGood ==
    ASSUME DecideInv, NEW w \in Workers, Evaluate(w)
    PROVE  DecideInv'
  <1> DEFINE c == ChannelsOf(w)
             writes == [c EXCEPT !.signals = c.input]
             nodes == DOMAIN Weights
             done == Executed(writes, RunOf(w), nodes)
  <1>1. /\ Active(w) /\ IsChannels(c) /\ c.input = RunOf(w)
        /\ {RunOf(w)} \X {"pi_deletion"} \subseteq c.tasks
    BY ActiveHandler DEF Evaluate, At, StageGood, ChannelsOf, RunOf, InGraph, Did
  <1>2. Superstep(w, nodes, writes, "aggregate")
    BY DEF Evaluate
  <1> HIDE DEF c
  <1>3. writes \in [input : {c.input}, signals : {c.input}, risk : {c.risk},
                    decision : {c.decision}, offer : {c.offer}, tasks : {c.tasks}]
    BY <1>1 DEF IsChannels
  <1> HIDE DEF writes, nodes
  <1>4. IsChannels(writes) /\ writes.input = RunOf(w) /\ writes.signals = RunOf(w) /\ writes.tasks = c.tasks
    BY <1>1, <1>3 DEF IsChannels
  <1>5. /\ done.input = RunOf(w) /\ done.signals = RunOf(w)
        /\ done.tasks = c.tasks \cup ({RunOf(w)} \X nodes)
    BY <1>4, ExecutedGood
  <1> HIDE DEF done
  <1>6. ASSUME NEW h, h.pc = "aggregate", h.run = RunOf(w), h.channels = done
        PROVE  StageGood(h)
    BY <1>1, <1>5, <1>6 DEF StageGood, Did, Scored, Decided, Composed, Saving, nodes
  <1>7. QED
    BY <1>1, <1>2, <1>4, <1>6, SuperstepGood DEF done

LEMMA TaggedRun ==
    ASSUME NEW record, NEW run
    PROVE  /\ Tagged(record, run).run = run
           /\ \A k \in DOMAIN record : k # "run" => Tagged(record, run)[k] = record[k]
  BY DEF Tagged, With

LEMMA AggregateGood ==
    ASSUME DecideInv, NEW w \in Workers, Aggregate(w)
    PROVE  DecideInv'
  <1> DEFINE c == ChannelsOf(w)
             risk == Tagged(RiskAggregator(SignalsIn(c)), c.signals)
             writes == [c EXCEPT !.risk = risk]
             done == Executed(writes, RunOf(w), {"aggregate"})
  <1>1. /\ Active(w) /\ IsChannels(c) /\ c.input = RunOf(w) /\ c.signals = RunOf(w)
        /\ {RunOf(w)} \X ({"pi_deletion"} \cup DOMAIN Weights) \subseteq c.tasks
    BY ActiveHandler DEF Aggregate, At, StageGood, ChannelsOf, RunOf, InGraph, Did
  <1>2. Superstep(w, {"aggregate"}, writes, "decide")
    BY DEF Aggregate
  <1>3. risk.run = RunOf(w)
    BY <1>1, TaggedRun
  <1> HIDE DEF c, risk
  <1>4. writes \in [input : {c.input}, signals : {c.signals}, risk : {risk},
                    decision : {c.decision}, offer : {c.offer}, tasks : {c.tasks}]
    BY <1>1 DEF IsChannels
  <1> HIDE DEF writes
  <1>5. /\ IsChannels(writes) /\ writes.input = RunOf(w) /\ writes.signals = RunOf(w)
        /\ writes.risk = risk /\ writes.tasks = c.tasks
    BY <1>1, <1>4 DEF IsChannels
  <1>6. /\ done.input = RunOf(w) /\ done.signals = RunOf(w) /\ done.risk.run = RunOf(w)
        /\ done.tasks = c.tasks \cup ({RunOf(w)} \X {"aggregate"})
    BY <1>3, <1>5, ExecutedGood
  <1> HIDE DEF done
  <1>7. ASSUME NEW h, h.pc = "decide", h.run = RunOf(w), h.channels = done
        PROVE  StageGood(h)
    BY <1>1, <1>6, <1>7 DEF StageGood, Did, Scored, Decided, Composed, Saving
  <1>8. QED
    BY <1>1, <1>2, <1>5, <1>7, SuperstepGood DEF done

(* One attempt: the reply, or the fallback for a reply that is missing.    *)
LEMMA ExecuteOnce ==
    ASSUME NEW reply, NEW fallback
    PROVE  ExecuteLlm(<<reply>>, fallback) = IF reply = None THEN fallback ELSE reply
  <1> DEFINE replies == <<reply>>
             useful == {i \in DOMAIN replies : replies[i] # None}
  <1>1. CASE reply = None
    <2>1. useful = {}
      BY <1>1
    <2>2. QED
      BY <1>1, <2>1 DEF ExecuteLlm
  <1>2. CASE reply # None
    <2>1. useful = {1}
      BY <1>2
    <2>2. Min({1}) = 1
      BY DEF Min
    <2>3. QED
      BY <1>2, <2>1, <2>2 DEF ExecuteLlm
  <1>3. QED
    BY <1>1, <1>2

LEMMA DecisionsDecide ==
    ASSUME NEW s, NEW risk, NEW terms
    PROVE  /\ "decision" \in DOMAIN FallbackDecision(risk, terms)
           /\ "decision" \in DOMAIN PolicyDecision(s, risk, terms)
  <1>1. ASSUME NEW kind, NEW cents, NEW tenure, NEW rate
        PROVE  "decision" \in DOMAIN Decision(kind, cents, tenure, rate)
    BY DEF Decision
  <1>2. "decision" \in DOMAIN Decline
    BY <1>1 DEF Decline
  <1>3. QED
    BY <1>1, <1>2 DEF FallbackDecision, PolicyDecision

(* What is decided: the policy's, the fallback's or what the model made.   *)
LEMMA Decides ==
    ASSUME NEW policy, NEW fallback, NEW reply \in {None, policy} \cup ComposedDecisions,
           "decision" \in DOMAIN policy, "decision" \in DOMAIN fallback
    PROVE  LET decision == ExecuteLlm(<<reply>>, fallback)
           IN  /\ "decision" \in DOMAIN decision
               /\ decision \in {fallback, policy} \/ "terms" \in DOMAIN decision
  <1> DEFINE decision == ExecuteLlm(<<reply>>, fallback)
  <1>1. decision = IF reply = None THEN fallback ELSE reply
    BY ExecuteOnce
  <1> HIDE DEF decision
  <1>2. \A made \in ComposedDecisions : {"decision", "terms"} \subseteq DOMAIN made
    BY DEF ComposedDecisions
  <1>3. QED
    BY <1>1, <1>2 DEF decision

LEMMA DecideGood ==
    ASSUME DecideInv, NEW w \in Workers, Decide(w)
    PROVE  DecideInv'
  <1> DEFINE c == ChannelsOf(w)
             fallback == FallbackDecision(c.risk, TermsIn(c))
             policy == PolicyDecision(SignalsIn(c), c.risk, TermsIn(c))
  <1>1. /\ Active(w) /\ IsChannels(c) /\ c.input = RunOf(w) /\ c.signals = RunOf(w)
        /\ c.risk.run = RunOf(w)
        /\ {RunOf(w)} \X ({"pi_deletion", "aggregate"} \cup DOMAIN Weights) \subseteq c.tasks
    BY ActiveHandler DEF Decide, At, StageGood, ChannelsOf, RunOf, InGraph, Scored, Did
  <1>2. PICK reply \in {None, policy} \cup ComposedDecisions :
          LET decision == ExecuteLlm(<<reply>>, fallback)
          IN  Superstep(w, {"decision"}, [c EXCEPT !.decision = Tagged(decision, c.input)],
                        IF decision.decision = "COUNTER_OFFER" THEN "counter" ELSE "respond")
    BY DEF Decide
  <1> DEFINE decision == ExecuteLlm(<<reply>>, fallback)
             tagged == Tagged(decision, c.input)
             next == IF decision.decision = "COUNTER_OFFER" THEN "counter" ELSE "respond"
             writes == [c EXCEPT !.decision = tagged]
             done == Executed(writes, RunOf(w), {"decision"})
  <1>3. "decision" \in DOMAIN decision
    BY Decides, DecisionsDecide
  <1>4. Superstep(w, {"decision"}, writes, next)
    BY <1>2
  <1> HIDE DEF c, decision
  <1>5. tagged.run = RunOf(w) /\ tagged.decision = decision.decision
    BY <1>1, <1>3, TaggedRun
  <1> HIDE DEF tagged
  <1>6. writes \in [input : {c.input}, signals : {c.signals}, risk : {c.risk},
                    decision : {tagged}, offer : {c.offer}, tasks : {c.tasks}]
    BY <1>1 DEF IsChannels
  <1> HIDE DEF writes
  <1>7. /\ IsChannels(writes) /\ writes.input = RunOf(w) /\ writes.signals = RunOf(w)
        /\ writes.risk = c.risk /\ writes.decision = tagged /\ writes.tasks = c.tasks
    BY <1>1, <1>6 DEF IsChannels
  <1>8. /\ done.input = RunOf(w) /\ done.signals = RunOf(w) /\ done.risk.run = RunOf(w)
        /\ done.decision = tagged
        /\ done.tasks = c.tasks \cup ({RunOf(w)} \X {"decision"})
    BY <1>1, <1>7, ExecutedGood
  <1>9. next \notin {"idle", "forget"}
    OBVIOUS
  <1>10. ASSUME NEW h, h.pc = next, h.run = RunOf(w), h.channels = done
         PROVE  StageGood(h)
    <2>1. h.pc \in {"counter", "respond"} /\ (h.pc = "respond" => tagged.decision # "COUNTER_OFFER")
      BY <1>5, <1>10
    <2> HIDE DEF done, next
    <2>2. QED
      BY <1>1, <1>5, <1>8, <1>10, <2>1 DEF StageGood, Did, OfferGood, Scored, Decided, Composed, Saving
  <1> HIDE DEF next
  <1>11. QED
    BY <1>1, <1>4, <1>7, <1>9, <1>10, SuperstepGood DEF done

LEMMA CounterOfferGood ==
    ASSUME DecideInv, NEW w \in Workers, CounterOffer(w)
    PROVE  DecideInv'
  <1> DEFINE c == ChannelsOf(w)
             fallback == FallbackCounterOffer(MonthlyIncome, TermsIn(c))
  <1>1. /\ Active(w) /\ IsChannels(c) /\ c.input = RunOf(w) /\ c.signals = RunOf(w)
        /\ c.risk.run = RunOf(w) /\ c.decision.run = RunOf(w)
        /\ {RunOf(w)} \X ({"pi_deletion", "aggregate", "decision"} \cup DOMAIN Weights) \subseteq c.tasks
    BY ActiveHandler DEF CounterOffer, At, StageGood, ChannelsOf, RunOf, InGraph, Scored, Decided, Did
  <1>2. PICK reply \in {None, ComposedOffer} :
          Superstep(w, {"counter_offer"},
                    [c EXCEPT !.offer = Tagged(ExecuteLlm(<<reply>>, fallback), c.input)], "respond")
    BY DEF CounterOffer
  <1> DEFINE offer == ExecuteLlm(<<reply>>, fallback)
             tagged == Tagged(offer, c.input)
             writes == [c EXCEPT !.offer = tagged]
             done == Executed(writes, RunOf(w), {"counter_offer"})
  <1>3. Superstep(w, {"counter_offer"}, writes, "respond")
    BY <1>2
  <1>4. TermsIn(c) \in TermsAsked /\ RunOf(w) \in 1..MaxRuns
    BY <1>1, ActiveHandler DEF CounterOffer, At, TermsIn, Requests
  <1>5. offer \in {ComposedOffer} \cup {FallbackCounterOffer(MonthlyIncome, terms) : terms \in TermsAsked}
    BY <1>4, ExecuteOnce
  <1> HIDE DEF c, offer
  <1>6. tagged.run = RunOf(w) /\ tagged # None
    BY <1>1, <1>4, <1>5, TaggedRun, NoneAssumption
  <1> HIDE DEF tagged
  <1>7. writes \in [input : {c.input}, signals : {c.signals}, risk : {c.risk},
                    decision : {c.decision}, offer : {tagged}, tasks : {c.tasks}]
    BY <1>1 DEF IsChannels
  <1> HIDE DEF writes
  <1>8. /\ IsChannels(writes) /\ writes.input = RunOf(w) /\ writes.signals = RunOf(w)
        /\ writes.risk = c.risk /\ writes.decision = c.decision /\ writes.offer = tagged
        /\ writes.tasks = c.tasks
    BY <1>1, <1>7 DEF IsChannels
  <1>9. /\ done.input = RunOf(w) /\ done.signals = RunOf(w) /\ done.risk.run = RunOf(w)
        /\ done.decision.run = RunOf(w) /\ done.offer = tagged
        /\ done.tasks = c.tasks \cup ({RunOf(w)} \X {"counter_offer"})
    BY <1>1, <1>8, ExecutedGood
  <1> HIDE DEF done
  <1>10. ASSUME NEW h, h.pc = "respond", h.run = RunOf(w), h.channels = done
         PROVE  StageGood(h)
    BY <1>1, <1>6, <1>9, <1>10 DEF StageGood, Did, OfferGood, Scored, Decided, Composed, Saving
  <1>11. QED
    BY <1>1, <1>3, <1>8, <1>10, SuperstepGood DEF done

LEMMA FinalResponseGood ==
    ASSUME DecideInv, NEW w \in Workers, FinalResponse(w)
    PROVE  DecideInv'
  <1> DEFINE c == ChannelsOf(w)
             done == Executed(c, RunOf(w), {"final_response"})
  <1>1. /\ Active(w) /\ IsChannels(c) /\ c.input = RunOf(w) /\ c.signals = RunOf(w)
        /\ c.risk.run = RunOf(w) /\ c.decision.run = RunOf(w) /\ OfferGood(c, RunOf(w))
        /\ {RunOf(w)} \X ({"pi_deletion", "aggregate", "decision"} \cup DOMAIN Weights) \subseteq c.tasks
    BY ActiveHandler DEF FinalResponse, At, StageGood, ChannelsOf, RunOf, InGraph, Scored, Decided, Composed, Did
  <1>2. Superstep(w, {"final_response"}, c, "save")
    BY DEF FinalResponse
  <1> HIDE DEF c
  <1>3. /\ done.input = RunOf(w) /\ done.signals = RunOf(w) /\ done.risk = c.risk
        /\ done.decision = c.decision /\ done.offer = c.offer
        /\ done.tasks = c.tasks \cup ({RunOf(w)} \X {"final_response"})
    BY <1>1, ExecutedGood
  <1> HIDE DEF done
  <1>4. ASSUME NEW h, h.pc = "save", h.run = RunOf(w), h.channels = done
        PROVE  StageGood(h)
    BY <1>1, <1>3, <1>4 DEF StageGood, Did, OfferGood, Composed, Saving
  <1>5. QED
    BY <1>1, <1>2, <1>4, SuperstepGood DEF done

LEMMA GraphFailsGood ==
    ASSUME DecideInv, NEW w \in Workers, GraphFails(w)
    PROVE  DecideInv'
  <1> DEFINE h == [handler[w] EXCEPT !.pc = "failed"]
  <1>1. Become(w, h) /\ UNCHANGED <<requests, checkpoint, decisions, answers>>
    BY DEF GraphFails
  <1>2. Active(w) /\ IsHandler(handler[w]) /\ IsChannels(ChannelsOf(w))
    BY ActiveHandler DEF GraphFails
  <1>3. h \in [pc : {"failed", "record"}, run : {RunOf(w)}, channels : {ChannelsOf(w)},
               seen : {handler[w].seen}, broken : {handler[w].broken}]
    BY <1>2 DEF IsHandler, RunOf, ChannelsOf
  <1> HIDE DEF h
  <1>4. IsHandler(h) /\ h.run = RunOf(w) /\ StageGood(h) /\ SavedFor(h, decisions')
    BY <1>2, <1>3, FailedGood
  <1>5. QED
    BY <1>1, <1>2, <1>4, HandlerStep

LEMMA BrokenGood ==
    ASSUME NEW w, IsHandler(handler[w]), NEW rows
    PROVE  /\ IsHandler(Broken(w)) /\ Broken(w).run = RunOf(w)
           /\ StageGood(Broken(w)) /\ SavedFor(Broken(w), rows)
  <1>1. Broken(w) \in [pc : {"failed", "record"}, run : {RunOf(w)}, channels : {ChannelsOf(w)},
                       seen : {handler[w].seen}, broken : {TRUE}]
    BY DEF IsHandler, RunOf, ChannelsOf, Broken
  <1>2. QED
    BY <1>1, FailedGood DEF IsHandler, ChannelsOf

(* What a run stores when its graph has ended.                             *)
LEMMA OwnRow ==
    ASSUME DecideInv, NEW w \in Workers, At(w, "save")
    PROVE  LET row == DecisionRow(w)
           IN  OwnDecision(row) /\ row.run = RunOf(w) /\ row.payload = Payload(ChannelsOf(w))
  <1> DEFINE c == ChannelsOf(w)
             row == DecisionRow(w)
  <1>1. /\ c.risk.run = RunOf(w) /\ c.decision.run = RunOf(w) /\ OfferGood(c, RunOf(w))
        /\ {RunOf(w)} \X ({"pi_deletion", "aggregate", "decision", "final_response"} \cup DOMAIN Weights)
             \subseteq c.tasks
    BY ActiveHandler
    DEF At, StageGood, ChannelsOf, RunOf, InGraph, Scored, Decided, Composed, Saving, Did
  <1> HIDE DEF c
  <1>2. row = [app |-> AppOf(w), run |-> RunOf(w), payload |-> Payload(c), risk |-> c.risk, tasks |-> c.tasks]
    BY DEF DecisionRow, c
  <1> HIDE DEF row
  <1>3. Payload(c).decision = c.decision /\ Payload(c).offer = OfferIn(c)
    BY DEF Payload
  <1>4. OwnDecision(row)
    BY <1>1, <1>2, <1>3 DEF OwnDecision, OfferIn, OfferGood
  <1>5. QED
    BY <1>2, <1>4 DEF c, row

LEMMA SaveDecisionGood ==
    ASSUME DecideInv, NEW w \in Workers, SaveDecision(w)
    PROVE  DecideInv'
  <1> DEFINE row == DecisionRow(w)
             h == [handler[w] EXCEPT !.pc = "forget"]
  <1>1. /\ Active(w) /\ IsHandler(handler[w]) /\ StageGood(handler[w]) /\ handler[w].pc = "save"
    BY ActiveHandler DEF SaveDecision, At
  <1>2. OwnDecision(row) /\ row.run = RunOf(w) /\ row.payload = Payload(ChannelsOf(w))
    BY OwnRow DEF SaveDecision
  <1> HIDE DEF row
  <1>3. PICK outcome \in WriteOutcomes :
          /\ decisions' = IF Stored(outcome) THEN decisions \cup {row} ELSE decisions
          /\ Become(w, IF outcome = "done" THEN h ELSE Broken(w))
    BY DEF SaveDecision, row
  <1>4. /\ UNCHANGED <<requests, checkpoint, answers>>
        /\ decisions \subseteq decisions'
        /\ \A d \in decisions' : d \in decisions \/ OwnDecision(d)
    BY <1>2, <1>3 DEF SaveDecision
  <1>5. CASE outcome = "done"
    <2>1. row \in decisions' /\ Become(w, h)
      BY <1>3, <1>5 DEF Stored
    <2>2. h \in [pc : {"forget"}, run : {RunOf(w)}, channels : {ChannelsOf(w)},
                 seen : {handler[w].seen}, broken : {handler[w].broken}]
      BY <1>1 DEF IsHandler, RunOf, ChannelsOf
    <2> HIDE DEF h
    <2>3. /\ IsHandler(h) /\ h.pc = "forget" /\ h.run = RunOf(w) /\ h.channels = ChannelsOf(w)
      BY <1>1, <2>2 DEF IsHandler, ChannelsOf
    <2>4. StageGood(h)
      BY <1>1, <2>3 DEF StageGood, Did, InGraph, Scored, Decided, Composed, Saving, RunOf, ChannelsOf
    <2>5. SavedFor(h, decisions')
      BY <1>2, <2>1, <2>3 DEF SavedFor
    <2>6. QED
      BY <1>1, <1>4, <2>1, <2>3, <2>4, <2>5, HandlerStep
  <1>6. CASE outcome # "done"
    <2>1. Become(w, Broken(w))
      BY <1>3, <1>6
    <2>2. /\ IsHandler(Broken(w)) /\ Broken(w).run = RunOf(w)
          /\ StageGood(Broken(w)) /\ SavedFor(Broken(w), decisions')
      BY <1>1, BrokenGood
    <2>3. QED
      BY <1>1, <1>4, <2>1, <2>2, HandlerStep
  <1>7. QED
    BY <1>5, <1>6

LEMMA ForgetFailureGood ==
    ASSUME DecideInv, NEW w \in Workers, ForgetFailure(w)
    PROVE  DecideInv'
  <1>1. /\ Active(w) /\ IsHandler(handler[w]) /\ SavedFor(handler[w], decisions)
        /\ handler[w].pc = "forget"
    BY ActiveHandler DEF ForgetFailure, At
  <1>2. UNCHANGED <<requests, checkpoint, decisions>>
    BY DEF ForgetFailure
  <1>3. CASE Answer(w, Payload(ChannelsOf(w)))
    <2>1. Become(w, Idle) /\ answers' = With(answers, RunOf(w), Payload(ChannelsOf(w)))
      BY <1>3 DEF Answer
    <2>2. PICK d \in decisions : d.run = RunOf(w) /\ d.payload = Payload(ChannelsOf(w))
      BY <1>1 DEF SavedFor, RunOf, ChannelsOf
    <2>3. \A r \in DOMAIN answers' :
             \/ r \in DOMAIN answers /\ answers'[r] = answers[r]
             \/ r = RunOf(w) /\ answers'[r] = Payload(ChannelsOf(w))
      BY <2>1 DEF With
    <2>4. \A r \in DOMAIN answers' : answers'[r] # None =>
             \/ r \in DOMAIN answers /\ answers'[r] = answers[r]
             \/ \E e \in decisions' : e.run = r /\ e.payload = answers'[r]
      BY <1>2, <2>2, <2>3
    <2>5. IsHandler(Idle) /\ Idle.pc = "idle" /\ StageGood(Idle) /\ SavedFor(Idle, decisions')
      BY IdleGood
    <2>6. QED
      BY <1>1, <1>2, <2>1, <2>4, <2>5, HandlerStep
  <1>4. CASE Become(w, Broken(w)) /\ UNCHANGED answers
    <2>1. /\ IsHandler(Broken(w)) /\ Broken(w).run = RunOf(w)
          /\ StageGood(Broken(w)) /\ SavedFor(Broken(w), decisions')
      BY <1>1, BrokenGood
    <2>2. QED
      BY <1>1, <1>2, <1>4, <2>1, HandlerStep
  <1>5. CASE Become(w, [handler[w] EXCEPT !.pc = "failed"]) /\ UNCHANGED answers
    <2> DEFINE h == [handler[w] EXCEPT !.pc = "failed"]
    <2>1. h \in [pc : {"failed", "record"}, run : {RunOf(w)}, channels : {ChannelsOf(w)},
                 seen : {handler[w].seen}, broken : {handler[w].broken}]
      BY <1>1 DEF IsHandler, RunOf, ChannelsOf
    <2> HIDE DEF h
    <2>2. IsHandler(h) /\ h.run = RunOf(w) /\ StageGood(h) /\ SavedFor(h, decisions')
      BY <1>1, <2>1, FailedGood DEF IsHandler, ChannelsOf
    <2>3. QED
      BY <1>1, <1>2, <1>5, <2>2, HandlerStep DEF h
  <1>6. QED
    BY <1>3, <1>4, <1>5 DEF ForgetFailure

LEMMA ReadFailureGood ==
    ASSUME DecideInv, NEW w \in Workers, ReadFailure(w)
    PROVE  DecideInv'
  <1> DEFINE h == [handler[w] EXCEPT !.pc = "record", !.seen = failures[AppOf(w)]]
  <1>1. Active(w) /\ IsHandler(handler[w]) /\ IsChannels(ChannelsOf(w))
    BY ActiveHandler DEF ReadFailure, At
  <1>2. UNCHANGED <<requests, checkpoint, decisions>>
    BY DEF ReadFailure
  <1>3. CASE Become(w, h) /\ UNCHANGED answers
    <2>1. h \in [pc : {"failed", "record"}, run : {RunOf(w)}, channels : {ChannelsOf(w)},
                 seen : {failures[AppOf(w)]}, broken : {handler[w].broken}]
      BY <1>1 DEF IsHandler, RunOf, ChannelsOf
    <2> HIDE DEF h
    <2>2. IsHandler(h) /\ h.run = RunOf(w) /\ StageGood(h) /\ SavedFor(h, decisions')
      BY <1>1, <2>1, FailedGood
    <2>3. QED
      BY <1>1, <1>2, <1>3, <2>2, HandlerStep
  <1>4. CASE Answer(w, None)
    BY <1>1, <1>2, <1>4, Ended
  <1>5. QED
    BY <1>3, <1>4 DEF ReadFailure

LEMMA RecordFailureGood ==
    ASSUME DecideInv, NEW w \in Workers, RecordFailure(w)
    PROVE  DecideInv'
  <1>1. Active(w)
    BY ActiveHandler DEF RecordFailure, At
  <1>2. Answer(w, None) /\ UNCHANGED <<requests, checkpoint, decisions>>
    BY DEF RecordFailure
  <1>3. QED
    BY <1>1, <1>2, Ended

LEMMA CrashGood ==
    ASSUME DecideInv, NEW w \in Workers, Crash(w)
    PROVE  DecideInv'
  <1>1. Active(w) /\ Become(w, Idle) /\ UNCHANGED <<requests, checkpoint, decisions, answers>>
    BY DEF Crash, Active
  <1>2. IsHandler(Idle) /\ Idle.pc = "idle" /\ StageGood(Idle) /\ SavedFor(Idle, decisions')
    BY IdleGood
  <1>3. QED
    BY <1>1, <1>2, HandlerStep

-----------------------------------------------------------------------------
LEMMA InitGood == Init => DecideInv
  <1> SUFFICES ASSUME Init PROVE DecideInv
    OBVIOUS
  <1>1. \A w \in Workers : handler[w] = Idle
    BY DEF Init
  <1>2. IsHandler(Idle) /\ Idle.pc = "idle" /\ StageGood(Idle) /\ SavedFor(Idle, decisions)
    BY IdleGood
  <1>3. requests = <<>> /\ Len(requests) <= MaxRuns
    BY UnderwritingAssumption DEF Init
  <1>4. \A a \in Apps : IsChannels(checkpoint[a])
    BY NoChannelsGood DEF Init
  <1>5. StateGood
    BY <1>1, <1>2, <1>3, <1>4 DEF Init, StateGood, Active, At
  <1>6. StagesGood /\ AnswersSaved
    BY <1>1, <1>2 DEF StagesGood, AnswersSaved
  <1>7. DOMAIN answers = {} /\ decisions = {}
    BY DEF Init
  <1>8. QED
    BY <1>5, <1>6, <1>7 DEF DecideInv, DecisionIsOwn, AnswerIsRecorded

LEMMA NextGood == DecideInv /\ [Next]_vars => DecideInv'
  <1> SUFFICES ASSUME DecideInv, [Next]_vars PROVE DecideInv'
    OBVIOUS
  <1>1. CASE Next
    <2>1. PICK w \in Workers :
            \/ Receive(w) \/ Lookup(w)
            \/ MaskReport(w) \/ Evaluate(w) \/ Aggregate(w) \/ Decide(w) \/ CounterOffer(w)
            \/ FinalResponse(w) \/ GraphFails(w)
            \/ SaveDecision(w) \/ ForgetFailure(w) \/ ReadFailure(w) \/ RecordFailure(w)
            \/ Crash(w)
      BY <1>1 DEF Next
    <2>2. QED
      BY <2>1, ReceiveGood, LookupGood, MaskReportGood, EvaluateGood, AggregateGood, DecideGood,
         CounterOfferGood, FinalResponseGood, GraphFailsGood, SaveDecisionGood, ForgetFailureGood,
         ReadFailureGood, RecordFailureGood, CrashGood
  <1>2. CASE UNCHANGED vars
    BY <1>2 DEF vars, DecideInv, StateGood, StagesGood, AnswersSaved, DecisionIsOwn,
                AnswerIsRecorded, Active, At, RunOf, Runs
  <1>3. QED
    BY <1>1, <1>2

(* The inductive invariant of underwriting: whatever the requests, the     *)
(* failing calls and the crashes, a run has written itself every channel   *)
(* the rest of its graph reads, and has stored its decision before it      *)
(* answers with it.                                                        *)
THEOREM DecideInvariant == Spec => []DecideInv
  BY InitGood, NextGood, PTL DEF Spec

(* Runs of one application share a checkpoint thread, also at once, and    *)
(* yet a stored decision, its score and its offer are those of its own     *)
(* request.                                                                *)
THEOREM DecisionOwn == Spec => []DecisionIsOwn
  <1>1. DecideInv => DecisionIsOwn
    BY DEF DecideInv
  <1>2. QED
    BY <1>1, DecideInvariant, PTL

(* No caller is told of a decision that is not stored for the request:     *)
(* save_decision has committed before the answer is composed.              *)
THEOREM AnswerRecorded == Spec => []AnswerIsRecorded
  <1>1. DecideInv => AnswerIsRecorded
    BY DEF DecideInv
  <1>2. QED
    BY <1>1, DecideInvariant, PTL

(* Failures are counted, and decisions and answers are those of requests.  *)
IsCount(n) == n = None \/ n \in Nat
TypeFits ==
    /\ DOMAIN failures = Apps /\ \A a \in Apps : IsCount(failures[a])
    /\ \A w \in Workers : At(w, "record") => IsCount(handler[w].seen)
    /\ \A d \in decisions : d.run \in Runs
    /\ DOMAIN answers \subseteq Runs

LEMMA TypesKept ==
    ASSUME TypeFits, NEW w \in Workers, NEW run \in Runs', NEW pc, NEW seen,
           handler'[w].pc = pc, handler'[w].seen = seen, pc = "record" => IsCount(seen),
           \A v \in Workers \ {w} : handler'[v] = handler[v],
           Runs \subseteq Runs',
           \/ failures' = failures
           \/ \E a, n : IsCount(n) /\ failures' = [failures EXCEPT ![a] = n],
           \A d \in decisions' : d \in decisions \/ d.run = run,
           answers' = answers \/ \E answer : answers' = With(answers, run, answer)
    PROVE  TypeFits'
  <1>1. DOMAIN failures' = Apps /\ \A a \in Apps : IsCount(failures'[a])
    BY DEF TypeFits
  <1>2. \A v \in Workers : At(v, "record")' => IsCount(handler'[v].seen)
    BY DEF TypeFits, At
  <1>3. \A d \in decisions' : d.run \in Runs'
    BY DEF TypeFits
  <1>4. DOMAIN answers' \subseteq Runs'
    BY DEF TypeFits, With
  <1>5. QED
    BY <1>1, <1>2, <1>3, <1>4 DEF TypeFits, IsCount

(* Where a handler goes, it knows a count only when it goes to "record".   *)
LEMMA Went ==
    ASSUME DecideInv, NEW w \in Workers, NEW h, IsHandler(h), Become(w, h)
    PROVE  /\ handler'[w].pc = h.pc /\ handler'[w].seen = h.seen
           /\ \A v \in Workers \ {w} : handler'[v] = handler[v]
  BY DEF DecideInv, StateGood, Become

LEMMA ChangedHandler ==
    ASSUME NEW h, IsHandler(h), NEW pc, NEW channels, IsChannels(channels), NEW seen, NEW broken
    PROVE  /\ LET to == [h EXCEPT !.pc = pc, !.channels = channels]
              IN  IsHandler(to) /\ to.pc = pc
           /\ LET to == [h EXCEPT !.pc = pc, !.seen = seen]
              IN  IsHandler(to) /\ to.pc = pc /\ to.seen = seen
           /\ LET to == [h EXCEPT !.pc = pc, !.broken = broken]
              IN  IsHandler(to) /\ to.pc = pc
           /\ LET to == [h EXCEPT !.pc = pc]
              IN  IsHandler(to) /\ to.pc = pc
  <1> DEFINE moved == [h EXCEPT !.pc = pc, !.channels = channels]
             found == [h EXCEPT !.pc = pc, !.seen = seen]
             left == [h EXCEPT !.pc = pc, !.broken = broken]
             gone == [h EXCEPT !.pc = pc]
  <1>1. /\ moved \in [pc : {pc}, run : {h.run}, channels : {channels}, seen : {h.seen}, broken : {h.broken}]
        /\ found \in [pc : {pc}, run : {h.run}, channels : {h.channels}, seen : {seen}, broken : {h.broken}]
        /\ left \in [pc : {pc}, run : {h.run}, channels : {h.channels}, seen : {h.seen}, broken : {broken}]
        /\ gone \in [pc : {pc}, run : {h.run}, channels : {h.channels}, seen : {h.seen}, broken : {h.broken}]
        /\ IsChannels(h.channels)
    BY DEF IsHandler
  <1> HIDE DEF moved, found, left, gone
  <1>2. /\ IsHandler(moved) /\ moved.pc = pc
        /\ IsHandler(found) /\ found.pc = pc /\ found.seen = seen
        /\ IsHandler(left) /\ left.pc = pc
        /\ IsHandler(gone) /\ gone.pc = pc
    BY <1>1 DEF IsHandler
  <1>3. QED
    BY <1>2 DEF moved, found, left, gone

LEMMA SuperstepTypes ==
    ASSUME DecideInv, TypeFits, NEW w \in Workers, Active(w), NEW nodes, NEW writes, IsChannels(writes),
           NEW next, next # "record", Superstep(w, nodes, writes, next)
    PROVE  TypeFits'
  <1> DEFINE done == Executed(writes, RunOf(w), nodes)
             h == To(handler[w], next, done)
  <1>1. Become(w, h) /\ UNCHANGED <<requests, failures, decisions, answers>>
    BY DEF Superstep, Executed, To
  <1>2. IsHandler(h) /\ h.pc = next
    BY ExecutedGood, Moved DEF DecideInv, StateGood
  <1> HIDE DEF h
  <1>3. /\ handler'[w].pc = next /\ handler'[w].seen = h.seen
        /\ \A v \in Workers \ {w} : handler'[v] = handler[v]
    BY <1>1, <1>2, Went
  <1>4. RunOf(w) \in Runs' /\ Runs' = Runs
    BY <1>1 DEF DecideInv, StateGood, Runs
  <1>5. QED
    BY <1>1, <1>3, <1>4, TypesKept

LEMMA TypeStep ==
    ASSUME DecideInv, TypeFits, [Next]_vars
    PROVE  TypeFits'
  <1>1. CASE UNCHANGED vars
    BY <1>1 DEF vars, TypeFits, At, Runs
  <1>2. ASSUME NEW w \in Workers, Receive(w)
        PROVE  TypeFits'
    <2> DEFINE h == [Idle EXCEPT !.pc = "lookup", !.run = Len(requests) + 1]
    <2>1. h \in [pc : {"lookup"}, run : {Len(requests) + 1}, channels : {NoChannels},
                 seen : {None}, broken : {FALSE}]
      BY DEF Idle
    <2>2. Become(w, h) /\ UNCHANGED <<failures, decisions, answers>>
      BY <1>2 DEF Receive
    <2> HIDE DEF h
    <2>3. IsHandler(h) /\ h.pc = "lookup"
      BY <2>1, NoChannelsGood DEF IsHandler
    <2>4. /\ handler'[w].pc = "lookup" /\ handler'[w].seen = h.seen
          /\ \A v \in Workers \ {w} : handler'[v] = handler[v]
      BY <2>2, <2>3, Went
    <2>5. Len(requests) + 1 \in Runs' /\ Runs \subseteq Runs'
      <3>1. PICK r \in Requests : requests' = Append(requests, r)
        BY <1>2 DEF Receive
      <3>2. requests \in Seq(Requests) /\ Len(requests) \in Nat
        BY LenProperties DEF DecideInv, StateGood
      <3>3. Runs = 1..Len(requests) /\ Runs' = 1..(Len(requests) + 1)
        BY <3>1, <3>2, AppendProperties DEF Runs
      <3>4. QED
        BY <3>2, <3>3
    <2>6. QED
      BY <2>2, <2>4, <2>5, TypesKept
  <1>3. ASSUME NEW w \in Workers, Active(w), UNCHANGED requests,
               NEW h, IsHandler(h), Become(w, h), h.pc = "record" => IsCount(h.seen),
               \/ failures' = failures
               \/ \E a, n : IsCount(n) /\ failures' = [failures EXCEPT ![a] = n],
               \A d \in decisions' : d \in decisions \/ d.run = RunOf(w),
               answers' = answers \/ \E answer : answers' = With(answers, RunOf(w), answer)
        PROVE  TypeFits'
    <2>1. RunOf(w) \in Runs' /\ Runs' = Runs
      BY <1>3 DEF DecideInv, StateGood, Runs
    <2>2. /\ handler'[w].pc = h.pc /\ handler'[w].seen = h.seen
          /\ \A v \in Workers \ {w} : handler'[v] = handler[v]
      BY <1>3, Went
    <2>3. QED
      BY <1>3, <2>1, <2>2, TypesKept
  <1>4. IsHandler(Idle) /\ Idle.pc # "record"
    BY IdleGood
  <1>5. ASSUME NEW w \in Workers, NEW answer, Active(w), Answer(w, answer),
               UNCHANGED <<requests, decisions>>,
               \/ failures' = failures
               \/ \E a, n : IsCount(n) /\ failures' = [failures EXCEPT ![a] = n]
        PROVE  TypeFits'
    BY <1>3, <1>4, <1>5 DEF Answer
  <1>6. ASSUME NEW w \in Workers, Lookup(w)
        PROVE  TypeFits'
    <2>1. /\ Active(w) /\ IsHandler(handler[w]) /\ IsChannels(checkpoint[AppOf(w)])
          /\ UNCHANGED <<requests, failures, decisions>>
      BY <1>6, ActiveHandler DEF Lookup, At
    <2>2. CASE Answer(w, None)
      BY <1>5, <2>1, <2>2
    <2>3. CASE ~Answer(w, None)
      <3> DEFINE started == [checkpoint[AppOf(w)] EXCEPT !.input = RunOf(w)]
                 h == [handler[w] EXCEPT !.pc = "mask", !.channels = started]
      <3>1. Become(w, h) /\ UNCHANGED answers
        BY <1>6, <2>3 DEF Lookup
      <3>2. IsChannels(started)
        BY <2>1 DEF IsChannels
      <3> HIDE DEF started
      <3>3. IsHandler(h) /\ h.pc = "mask"
        <4>1. h \in [pc : {"mask"}, run : {handler[w].run}, channels : {started},
                     seen : {handler[w].seen}, broken : {handler[w].broken}]
          BY <2>1 DEF IsHandler
        <4> HIDE DEF h
        <4>2. QED
          BY <3>2, <4>1 DEF IsHandler
      <3> HIDE DEF h
      <3>4. QED
        BY <1>3, <2>1, <3>1, <3>3
    <2>4. QED
      BY <2>2, <2>3
  <1>7. ASSUME NEW w \in Workers, MaskReport(w) \/ Evaluate(w) \/ Aggregate(w) \/ Decide(w)
                                    \/ CounterOffer(w) \/ FinalResponse(w)
        PROVE  TypeFits'
    <2>1. \A channels : IsChannels(channels) =>
             /\ \A x : IsChannels([channels EXCEPT !.signals = x])
             /\ \A x : IsChannels([channels EXCEPT !.risk = x])
             /\ \A x : IsChannels([channels EXCEPT !.decision = x])
             /\ \A x : IsChannels([channels EXCEPT !.offer = x])
      BY DEF IsChannels
    <2>2. Active(w) /\ IsChannels(ChannelsOf(w))
      BY <1>7, ActiveHandler
         DEF MaskReport, Evaluate, Aggregate, Decide, CounterOffer, FinalResponse, At
    <2>3. \E nodes, writes, next : /\ IsChannels(writes) /\ next # "record"
                                   /\ Superstep(w, nodes, writes, next)
      <3>1. CASE MaskReport(w)
        BY <2>2, <3>1 DEF MaskReport
      <3>2. CASE Evaluate(w)
        BY <2>1, <2>2, <3>2 DEF Evaluate
      <3>3. CASE Aggregate(w)
        BY <2>1, <2>2, <3>3 DEF Aggregate
      <3>4. CASE Decide(w)
        BY <2>1, <2>2, <3>4 DEF Decide
      <3>5. CASE CounterOffer(w)
        BY <2>1, <2>2, <3>5 DEF CounterOffer
      <3>6. CASE FinalResponse(w)
        BY <2>2, <3>6 DEF FinalResponse
      <3>7. QED
        BY <1>7, <3>1, <3>2, <3>3, <3>4, <3>5, <3>6
    <2>4. QED
      BY <2>2, <2>3, SuperstepTypes
  <1>8. ASSUME NEW w \in Workers, Active(w), IsHandler(handler[w]),
               GraphFails(w) \/ SaveDecision(w) \/ ForgetFailure(w)
        PROVE  TypeFits'
    <2>1. /\ \A pc : LET to == [handler[w] EXCEPT !.pc = pc]
                     IN  IsHandler(to) /\ to.pc = pc
          /\ IsHandler(Broken(w)) /\ Broken(w).pc = "failed"
      BY <1>8, ChangedHandler DEF Broken, IsHandler
    <2>2. CASE GraphFails(w)
      BY <1>3, <1>8, <2>1, <2>2 DEF GraphFails
    <2>3. CASE SaveDecision(w)
      <3>1. PICK h : /\ Become(w, h) /\ IsHandler(h) /\ h.pc # "record"
        BY <2>1, <2>3 DEF SaveDecision
      <3>2. \A d \in decisions' : d \in decisions \/ d.run = RunOf(w)
        BY <2>3 DEF SaveDecision, DecisionRow
      <3>3. QED
        BY <1>3, <1>8, <2>3, <3>1, <3>2 DEF SaveDecision
    <2>4. CASE ForgetFailure(w)
      <3>1. /\ UNCHANGED <<requests, decisions>>
            /\ \/ failures' = failures
               \/ \E a, n : IsCount(n) /\ failures' = [failures EXCEPT ![a] = n]
        BY <2>4 DEF ForgetFailure, IsCount
      <3>2. \/ Answer(w, Payload(ChannelsOf(w)))
            \/ Become(w, Broken(w)) /\ UNCHANGED answers
            \/ Become(w, [handler[w] EXCEPT !.pc = "failed"]) /\ UNCHANGED answers
        BY <2>4 DEF ForgetFailure
      <3>3. CASE Answer(w, Payload(ChannelsOf(w)))
        BY <1>5, <1>8, <3>1, <3>3
      <3>4. CASE Become(w, Broken(w)) /\ UNCHANGED answers
        BY <1>3, <1>8, <2>1, <3>1, <3>4
      <3>5. CASE Become(w, [handler[w] EXCEPT !.pc = "failed"]) /\ UNCHANGED answers
        BY <1>3, <1>8, <2>1, <3>1, <3>5
      <3>6. QED
        BY <3>2, <3>3, <3>4, <3>5
    <2>5. QED
      BY <1>8, <2>2, <2>3, <2>4
  <1>9. ASSUME NEW w \in Workers, ReadFailure(w)
        PROVE  TypeFits'
    <2>1. /\ Active(w) /\ IsHandler(handler[w]) /\ AppOf(w) \in Apps
          /\ UNCHANGED <<requests, failures, decisions>>
      BY <1>9, ActiveHandler DEF ReadFailure, At
    <2>2. CASE Answer(w, None)
      BY <1>5, <2>1, <2>2
    <2>3. CASE ~Answer(w, None)
      <3> DEFINE h == [handler[w] EXCEPT !.pc = "record", !.seen = failures[AppOf(w)]]
      <3>1. Become(w, h) /\ UNCHANGED answers
        BY <1>9, <2>3 DEF ReadFailure
      <3>2. IsHandler(h) /\ h.seen = failures[AppOf(w)]
        BY <2>1, ChangedHandler DEF IsHandler
      <3> HIDE DEF h
      <3>3. IsCount(h.seen)
        BY <2>1, <3>2 DEF TypeFits
      <3>4. QED
        BY <1>3, <2>1, <3>1, <3>2, <3>3
    <2>4. QED
      BY <2>2, <2>3
  <1>10. ASSUME NEW w \in Workers, RecordFailure(w)
         PROVE  TypeFits'
    <2>1. /\ Active(w) /\ Answer(w, None) /\ UNCHANGED <<requests, decisions>>
      BY <1>10, ActiveHandler DEF RecordFailure, At
    <2>2. IsCount(handler[w].seen)
      BY <1>10 DEF RecordFailure, TypeFits
    <2>3. IsCount(IF handler[w].seen = None THEN 0 ELSE handler[w].seen + 1)
      BY <2>2 DEF IsCount
    <2>4. \/ failures' = failures
          \/ \E a, n : IsCount(n) /\ failures' = [failures EXCEPT ![a] = n]
      BY <1>10, <2>3 DEF RecordFailure
    <2>5. QED
      BY <1>5, <2>1, <2>4
  <1>11. ASSUME NEW w \in Workers, Crash(w)
         PROVE  TypeFits'
    BY <1>3, <1>4, <1>11 DEF Crash, Active
  <1>12. \A w \in Workers : GraphFails(w) \/ SaveDecision(w) \/ ForgetFailure(w) =>
            Active(w) /\ IsHandler(handler[w])
    BY ActiveHandler DEF GraphFails, SaveDecision, ForgetFailure, At
  <1>13. QED
    BY <1>1, <1>2, <1>6, <1>7, <1>8, <1>9, <1>10, <1>11, <1>12 DEF Next

(* The requests, failures, decisions and answers keep their types: what is *)
(* stored and answered belongs to a request that was received.             *)
THEOREM UnderwritingTypeCorrect == Spec => []TypeOK
  <1>1. Init => TypeFits
    BY DEF Init, TypeFits, IsCount, At, Idle
  <1>2. DecideInv /\ TypeFits /\ [Next]_vars => TypeFits'
    BY TypeStep
  <1>3. DecideInv /\ TypeFits => TypeOK
    BY DEF DecideInv, StateGood, TypeFits, IsCount, TypeOK
  <1>4. QED
    BY <1>1, <1>2, <1>3, DecideInvariant, PTL DEF Spec

-----------------------------------------------------------------------------
(***************************************************************************)
(* Underwriting declines every applicant whose public records call for it, *)
(* for any reports: the severity found in the masked report overrides the  *)
(* score, whether the decision is the model's or the fallback's.  It rests *)
(* on DecideInvariant, by which the score a decision is made of is that of *)
(* its own report.                                                         *)
(***************************************************************************)

(* The rules. *)

LEMMA MaskedRecords ==
    ASSUME NEW r \in DOMAIN Reports
    PROVE  LET records == Reports[r].publicRecord
               masked == PiDeletion(Reports[r]).publicRecord
           IN  /\ masked = [i \in DOMAIN records |-> Without(records[i])]
               /\ \A i \in DOMAIN records : masked[i].kind = records[i].kind /\ masked[i].age = records[i].age
  <1> DEFINE report == Reports[r]
             records == report.publicRecord
  <1>1. /\ "publicRecord" \in DOMAIN report
        /\ \A i \in DOMAIN records : {"kind", "age"} \subseteq DOMAIN records[i]
    BY ReportAssumption
  <1> HIDE DEF report
  <1>2. "publicRecord" \in DOMAIN Without(report) /\ Without(report).publicRecord = records
    BY <1>1 DEF Without, Personal
  <1>3. PiDeletion(report).publicRecord = [i \in DOMAIN records |-> Without(records[i])]
    BY <1>2 DEF PiDeletion
  <1>4. \A i \in DOMAIN records : Without(records[i]).kind = records[i].kind /\ Without(records[i]).age = records[i].age
    BY <1>1 DEF Without, Personal
  <1>5. QED
    BY <1>3, <1>4 DEF report

LEMMA SevereRecords ==
    ASSUME NEW r \in DOMAIN Reports, MustDecline(Reports[r])
    PROVE  PublicRecord(PiDeletion(Reports[r]).publicRecord).hard_decline = TRUE
  <1> DEFINE records == Reports[r].publicRecord
             masked == PiDeletion(Reports[r]).publicRecord
             bankrupt == {i \in DOMAIN masked : masked[i].kind = "bankruptcy"}
             severe == \/ \E i \in bankrupt : masked[i].age <= 5
                       \/ Cardinality(DOMAIN masked \ bankrupt) > 1
  <1>1. /\ DOMAIN masked = DOMAIN records
        /\ \A i \in DOMAIN records : masked[i].kind = records[i].kind /\ masked[i].age = records[i].age
    BY MaskedRecords
  <1>2. IsFiniteSet(DOMAIN records)
    BY ReportAssumption
  <1>3. \/ \E i \in DOMAIN records : records[i].kind = "bankruptcy" /\ records[i].age <= 5
        \/ \E i, j \in DOMAIN records : i # j /\ records[i].kind = "judgment" /\ records[j].kind = "judgment"
    BY DEF MustDecline
  <1> HIDE DEF records, masked
  <1>4. masked # <<>>
    BY <1>1, <1>3
  <1>5. severe
    <2>1. CASE \E i \in DOMAIN records : records[i].kind = "bankruptcy" /\ records[i].age <= 5
      BY <1>1, <2>1
    <2>2. ASSUME NEW i \in DOMAIN records, NEW j \in DOMAIN records, i # j,
                 records[i].kind = "judgment", records[j].kind = "judgment"
          PROVE  severe
      <3> DEFINE others == DOMAIN masked \ bankrupt
      <3>1. {i, j} \subseteq others /\ IsFiniteSet(others)
        BY <1>1, <1>2, <2>2, FS_Difference
      <3>2. Cardinality({i, j}) = 2
        <4>1. {i, j} = {i} \cup {j} /\ j \notin {i}
          BY <2>2
        <4>2. IsFiniteSet({i}) /\ Cardinality({i}) = 1
          BY FS_Singleton
        <4>3. Cardinality({i} \cup {j}) = 2
          BY <4>1, <4>2, FS_AddElement
        <4>4. QED
          BY <4>1, <4>3
      <3>3. Cardinality({i, j}) <= Cardinality(others) /\ Cardinality(others) \in Nat
        BY <3>1, FS_Subset, FS_CardinalityType
      <3>4. QED
        BY <3>2, <3>3
    <2>3. QED
      BY <1>3, <2>1, <2>2
  <1>6. PublicRecord(masked).hard_decline = TRUE
    BY <1>4, <1>5 DEF PublicRecord
  <1>7. QED
    BY <1>6 DEF masked

LEMMA HardSignals ==
    ASSUME NEW r \in DOMAIN Reports, MustDecline(Reports[r])
    PROVE  SignalsOf[r].public_record.hard_decline = TRUE
  <1>1. SignalsOf[r] = Signals(Reports[r], MonthlyIncome)
    BY DEF SignalsOf
  <1>2. Signals(Reports[r], MonthlyIncome).public_record = PublicRecord(PiDeletion(Reports[r]).publicRecord)
    BY DEF Signals, PublicRecordNode
  <1>3. QED
    BY <1>1, <1>2, SevereRecords

LEMMA LastTier == ScoreToTier(0) = "F"
  <1> DEFINE bands == <<<<3499, "F">>, <<4999, "D">>, <<6499, "C">>, <<7999, "B">>>>
             fitting == {i \in DOMAIN bands : 0 <= bands[i][1]}
  <1>1. fitting = {1, 2, 3, 4}
    OBVIOUS
  <1>2. Min({1, 2, 3, 4}) = 1
    BY DEF Min
  <1>3. bands[1][2] = "F"
    OBVIOUS
  <1>4. QED
    BY <1>1, <1>2, <1>3 DEF ScoreToTier, Band

LEMMA HardScore ==
    ASSUME NEW s, s.public_record.hard_decline = TRUE
    PROVE  /\ {"score", "tier"} \subseteq DOMAIN RiskAggregator(s)
           /\ RiskAggregator(s).score = 0 /\ RiskAggregator(s).tier = "F"
  BY LastTier DEF RiskAggregator

LEMMA HardDecision ==
    ASSUME NEW s, NEW terms, NEW risk, risk.score = 0, risk.tier = "F"
    PROVE  /\ FallbackDecision(risk, terms).decision = "DECLINE"
           /\ PolicyDecision(s, risk, terms).decision = "DECLINE"
  <1>1. Decline.decision = "DECLINE"
    BY DEF Decline, Decision
  <1>2. QED
    BY <1>1 DEF FallbackDecision, PolicyDecision

-----------------------------------------------------------------------------
(* What is left in the channels for an applicant to be declined.           *)
MustBeDeclined(run) == MustDecline(ReportOf(run))
HardStage(h) ==
    /\ h.pc \in Scored /\ MustBeDeclined(h.run) =>
         h.channels.risk.score = 0 /\ h.channels.risk.tier = "F"
    /\ h.pc \in Decided /\ MustBeDeclined(h.run) => DeclinesByPolicy(h.channels.decision)
HardStages == \A w \in Workers : HardStage(handler[w])

DeclineInv == /\ DecideInv /\ HardStages /\ HardDeclineIsDeclined
              /\ \A d \in decisions : d.run \in Runs

(* A step of a handler within its run, of which DecideInv is known.        *)
LEMMA HardStep ==
    ASSUME DeclineInv, NEW w \in Workers, NEW h, Become(w, h), HardStage(h),
           UNCHANGED requests,
           \A d \in decisions' : \/ d \in decisions
                                 \/ /\ d.run \in Runs
                                    /\ MustBeDeclined(d.run) =>
                                         DeclinesByPolicy(d.payload.decision) /\ d.risk.tier = "F"
    PROVE  /\ (HardStages /\ HardDeclineIsDeclined)'
           /\ \A d \in decisions' : d.run \in Runs'
  <1>1. handler'[w] = h /\ \A v \in Workers : v # w => handler'[v] = handler[v]
    BY DEF DeclineInv, DecideInv, StateGood, Become
  <1>2. \A run : MustBeDeclined(run)' <=> MustBeDeclined(run)
    BY DEF MustBeDeclined, ReportOf
  <1>3. \A v \in Workers : HardStage(handler'[v])
    BY <1>1 DEF DeclineInv, HardStages
  <1>4. HardStages'
    BY <1>2, <1>3 DEF HardStages, HardStage
  <1>5. HardDeclineIsDeclined'
    BY <1>2 DEF DeclineInv, HardDeclineIsDeclined, MustBeDeclined
  <1>6. QED
    BY <1>4, <1>5 DEF DeclineInv, Runs

(* Before the score, and after the graph, there is nothing to show.        *)
LEMMA Unscored ==
    ASSUME NEW h, h.pc \notin Scored
    PROVE  HardStage(h)
  BY DEF HardStage, Scored

LEMMA ActiveStage ==
    ASSUME DeclineInv, NEW w \in Workers, NEW pc, handler[w].pc = pc, pc # "idle"
    PROVE  /\ IsHandler(handler[w]) /\ IsChannels(ChannelsOf(w)) /\ StageGood(handler[w])
           /\ RunOf(w) \in Runs /\ requests[RunOf(w)] \in Requests
           /\ HardStage(handler[w])
  <1>1. DecideInv
    BY DEF DeclineInv
  <1>2. Active(w)
    BY <1>1, ActiveHandler
  <1>3. RunOf(w) \in Runs
    BY <1>1, <1>2 DEF DecideInv, StateGood
  <1>4. QED
    BY <1>1, <1>3, ActiveHandler DEF DeclineInv, HardStages

LEMMA HardSuperstep ==
    ASSUME DeclineInv, NEW w \in Workers, IsHandler(handler[w]), NEW nodes, NEW writes, IsChannels(writes),
           NEW next, Superstep(w, nodes, writes, next),
           next \in Scored => \A h : /\ h.pc = next /\ h.run = RunOf(w)
                                     /\ h.channels = Executed(writes, RunOf(w), nodes)
                                    => HardStage(h)
    PROVE  /\ (HardStages /\ HardDeclineIsDeclined)'
           /\ \A d \in decisions' : d.run \in Runs'
  <1> DEFINE done == Executed(writes, RunOf(w), nodes)
             h == To(handler[w], next, done)
  <1>1. Become(w, h) /\ UNCHANGED <<requests, decisions>>
    BY DEF Superstep, Executed, To
  <1>2. IsChannels(done)
    BY ExecutedGood
  <1> HIDE DEF done
  <1>3. h.pc = next /\ h.run = RunOf(w) /\ h.channels = done
    BY <1>2, Moved DEF RunOf
  <1> HIDE DEF h
  <1>4. HardStage(h)
    <2>1. CASE next \in Scored
      BY <1>3, <2>1 DEF done
    <2>2. CASE next \notin Scored
      BY <1>3, <2>2, Unscored
    <2>3. QED
      BY <2>1, <2>2
  <1>5. QED
    BY <1>1, <1>4, HardStep

-----------------------------------------------------------------------------
(* The actions that score, decide and store. *)

LEMMA AggregateHard ==
    ASSUME DeclineInv, NEW w \in Workers, Aggregate(w)
    PROVE  (HardStages /\ HardDeclineIsDeclined)' /\ \A d \in decisions' : d.run \in Runs'
  <1> DEFINE c == ChannelsOf(w)
             scored == RiskAggregator(SignalsIn(c))
             risk == Tagged(scored, c.signals)
             writes == [c EXCEPT !.risk = risk]
             done == Executed(writes, RunOf(w), {"aggregate"})
  <1>1. /\ IsHandler(handler[w]) /\ IsChannels(c) /\ c.signals = RunOf(w)
        /\ requests[RunOf(w)] \in Requests
    BY ActiveStage DEF Aggregate, At, StageGood, ChannelsOf, RunOf
  <1>2. Superstep(w, {"aggregate"}, writes, "decide")
    BY DEF Aggregate
  <1>3. MustBeDeclined(RunOf(w)) => risk.score = 0 /\ risk.tier = "F"
    <2>1. SignalsIn(c) = SignalsOf[requests[RunOf(w)].report] /\ requests[RunOf(w)].report \in DOMAIN Reports
      BY <1>1 DEF SignalsIn, Requests
    <2>2. ASSUME MustBeDeclined(RunOf(w))
          PROVE  /\ {"score", "tier"} \subseteq DOMAIN scored
                 /\ scored.score = 0 /\ scored.tier = "F"
      <3>1. SignalsIn(c).public_record.hard_decline = TRUE
        BY <2>1, <2>2, HardSignals DEF MustBeDeclined, ReportOf
      <3>2. QED
        BY <3>1, HardScore
    <2> HIDE DEF scored
    <2>3. QED
      BY <2>2, TaggedRun
  <1> HIDE DEF c, risk
  <1>4. writes \in [input : {c.input}, signals : {c.signals}, risk : {risk},
                    decision : {c.decision}, offer : {c.offer}, tasks : {c.tasks}]
    BY <1>1 DEF IsChannels
  <1> HIDE DEF writes
  <1>5. IsChannels(writes) /\ writes.risk = risk
    BY <1>4 DEF IsChannels
  <1>6. done.risk = risk
    BY <1>5, ExecutedGood
  <1> HIDE DEF done
  <1>7. ASSUME NEW h, h.pc = "decide", h.run = RunOf(w), h.channels = done
        PROVE  HardStage(h)
    BY <1>3, <1>6, <1>7 DEF HardStage, Decided, Composed, Saving
  <1>8. QED
    BY <1>1, <1>2, <1>5, <1>7, HardSuperstep DEF done

LEMMA DecideHard ==
    ASSUME DeclineInv, NEW w \in Workers, Decide(w)
    PROVE  (HardStages /\ HardDeclineIsDeclined)' /\ \A d \in decisions' : d.run \in Runs'
  <1> DEFINE c == ChannelsOf(w)
             fallback == FallbackDecision(c.risk, TermsIn(c))
             policy == PolicyDecision(SignalsIn(c), c.risk, TermsIn(c))
  <1>1. /\ IsHandler(handler[w]) /\ IsChannels(c)
        /\ MustBeDeclined(RunOf(w)) => c.risk.score = 0 /\ c.risk.tier = "F"
    BY ActiveStage DEF Decide, At, HardStage, ChannelsOf, RunOf, Scored
  <1>2. PICK reply \in {None, policy} \cup ComposedDecisions :
          LET decision == ExecuteLlm(<<reply>>, fallback)
          IN  Superstep(w, {"decision"}, [c EXCEPT !.decision = Tagged(decision, c.input)],
                        IF decision.decision = "COUNTER_OFFER" THEN "counter" ELSE "respond")
    BY DEF Decide
  <1> DEFINE decision == ExecuteLlm(<<reply>>, fallback)
             tagged == Tagged(decision, c.input)
             next == IF decision.decision = "COUNTER_OFFER" THEN "counter" ELSE "respond"
             writes == [c EXCEPT !.decision = tagged]
             done == Executed(writes, RunOf(w), {"decision"})
  <1>3. /\ "decision" \in DOMAIN decision
        /\ decision \in {fallback, policy} \/ "terms" \in DOMAIN decision
    BY Decides, DecisionsDecide
  <1>4. MustBeDeclined(RunOf(w)) => DeclinesByPolicy(decision)
    BY <1>1, <1>3, HardDecision DEF DeclinesByPolicy
  <1>5. Superstep(w, {"decision"}, writes, next)
    BY <1>2
  <1> HIDE DEF c, decision
  <1>6. MustBeDeclined(RunOf(w)) => DeclinesByPolicy(tagged)
    <2>1. "terms" \in DOMAIN decision => "terms" \in DOMAIN tagged
      BY DEF Tagged, With
    <2>2. QED
      BY <1>3, <1>4, <2>1, TaggedRun DEF DeclinesByPolicy
  <1> HIDE DEF tagged
  <1>7. writes \in [input : {c.input}, signals : {c.signals}, risk : {c.risk},
                    decision : {tagged}, offer : {c.offer}, tasks : {c.tasks}]
    BY <1>1 DEF IsChannels
  <1> HIDE DEF writes
  <1>8. IsChannels(writes) /\ writes.risk = c.risk /\ writes.decision = tagged
    BY <1>7 DEF IsChannels
  <1>9. done.risk = c.risk /\ done.decision = tagged
    BY <1>8, ExecutedGood
  <1> HIDE DEF done, next
  <1>10. ASSUME NEW h, h.pc = next, h.run = RunOf(w), h.channels = done
         PROVE  HardStage(h)
    BY <1>1, <1>6, <1>9, <1>10 DEF HardStage
  <1>11. QED
    BY <1>1, <1>5, <1>8, <1>10, HardSuperstep DEF done

LEMMA CounterOfferHard ==
    ASSUME DeclineInv, NEW w \in Workers, CounterOffer(w)
    PROVE  (HardStages /\ HardDeclineIsDeclined)' /\ \A d \in decisions' : d.run \in Runs'
  <1> DEFINE c == ChannelsOf(w)
  <1>1. /\ IsHandler(handler[w]) /\ IsChannels(c)
        /\ MustBeDeclined(RunOf(w)) =>
             c.risk.score = 0 /\ c.risk.tier = "F" /\ DeclinesByPolicy(c.decision)
    BY ActiveStage DEF CounterOffer, At, HardStage, ChannelsOf, RunOf, Scored, Decided
  <1>2. PICK offer : Superstep(w, {"counter_offer"}, [c EXCEPT !.offer = offer], "respond")
    BY DEF CounterOffer
  <1> DEFINE writes == [c EXCEPT !.offer = offer]
             done == Executed(writes, RunOf(w), {"counter_offer"})
  <1> HIDE DEF c
  <1>3. writes \in [input : {c.input}, signals : {c.signals}, risk : {c.risk},
                    decision : {c.decision}, offer : {offer}, tasks : {c.tasks}]
    BY <1>1 DEF IsChannels
  <1>4. Superstep(w, {"counter_offer"}, writes, "respond")
    BY <1>2
  <1> HIDE DEF writes
  <1>5. IsChannels(writes) /\ writes.risk = c.risk /\ writes.decision = c.decision
    BY <1>3 DEF IsChannels
  <1>6. done.risk = c.risk /\ done.decision = c.decision
    BY <1>5, ExecutedGood
  <1> HIDE DEF done
  <1>7. ASSUME NEW h, h.run = RunOf(w), h.channels = done
        PROVE  HardStage(h)
    BY <1>1, <1>6, <1>7 DEF HardStage
  <1>8. QED
    BY <1>1, <1>4, <1>5, <1>7, HardSuperstep DEF done

LEMMA FinalResponseHard ==
    ASSUME DeclineInv, NEW w \in Workers, FinalResponse(w)
    PROVE  (HardStages /\ HardDeclineIsDeclined)' /\ \A d \in decisions' : d.run \in Runs'
  <1> DEFINE c == ChannelsOf(w)
             done == Executed(c, RunOf(w), {"final_response"})
  <1>1. /\ IsHandler(handler[w]) /\ IsChannels(c)
        /\ MustBeDeclined(RunOf(w)) =>
             c.risk.score = 0 /\ c.risk.tier = "F" /\ DeclinesByPolicy(c.decision)
    BY ActiveStage DEF FinalResponse, At, HardStage, ChannelsOf, RunOf, Scored, Decided, Composed
  <1>2. Superstep(w, {"final_response"}, c, "save")
    BY DEF FinalResponse
  <1> HIDE DEF c
  <1>3. done.risk = c.risk /\ done.decision = c.decision
    BY <1>1, ExecutedGood
  <1> HIDE DEF done
  <1>4. ASSUME NEW h, h.run = RunOf(w), h.channels = done
        PROVE  HardStage(h)
    BY <1>1, <1>3, <1>4 DEF HardStage
  <1>5. QED
    BY <1>1, <1>2, <1>4, HardSuperstep DEF done

LEMMA SaveDecisionHard ==
    ASSUME DeclineInv, NEW w \in Workers, SaveDecision(w)
    PROVE  (HardStages /\ HardDeclineIsDeclined)' /\ \A d \in decisions' : d.run \in Runs'
  <1> DEFINE row == DecisionRow(w)
             h == [handler[w] EXCEPT !.pc = "forget"]
             c == ChannelsOf(w)
  <1>1. /\ IsHandler(handler[w]) /\ RunOf(w) \in Runs
        /\ MustBeDeclined(RunOf(w)) =>
             c.risk.score = 0 /\ c.risk.tier = "F" /\ DeclinesByPolicy(c.decision)
    BY ActiveStage
    DEF SaveDecision, At, HardStage, ChannelsOf, RunOf, Scored, Decided, Composed, Saving
  <1>2. row.run = RunOf(w) /\ row.risk = c.risk /\ row.payload.decision = c.decision
    BY DEF DecisionRow, Payload
  <1>3. \A d \in decisions' : d \in decisions \/ d = row
    BY DEF SaveDecision
  <1>4. UNCHANGED requests /\ (Become(w, h) \/ Become(w, Broken(w)))
    BY DEF SaveDecision
  <1>5. /\ h \in [pc : {"forget"}, run : {RunOf(w)}, channels : {c},
                  seen : {handler[w].seen}, broken : {handler[w].broken}]
        /\ Broken(w).pc = "failed"
    BY <1>1 DEF IsHandler, RunOf, ChannelsOf, Broken
  <1> HIDE DEF h, row, c
  <1>6. HardStage(h)
    BY <1>1, <1>5 DEF HardStage
  <1>7. HardStage(Broken(w))
    BY <1>5, Unscored DEF Scored, Decided, Composed, Saving
  <1>8. QED
    BY <1>1, <1>2, <1>3, <1>4, <1>6, <1>7, HardStep

(* The others: a handler moves to a place before the score, or leaves.     *)
LEMMA OtherHard ==
    ASSUME DeclineInv, NEW w \in Workers,
           \/ Lookup(w) \/ MaskReport(w) \/ Evaluate(w) \/ GraphFails(w)
           \/ ForgetFailure(w) \/ ReadFailure(w) \/ RecordFailure(w) \/ Crash(w)
    PROVE  (HardStages /\ HardDeclineIsDeclined)' /\ \A d \in decisions' : d.run \in Runs'
  <1>1. IsHandler(handler[w])
    BY DEF DeclineInv, DecideInv, StateGood
  <1>2. UNCHANGED <<requests, decisions>>
    BY DEF Lookup, MaskReport, Evaluate, Superstep, GraphFails, ForgetFailure, ReadFailure, RecordFailure, Crash
  <1> DEFINE Going(pc, channels, seen) ==
               {Idle, To(handler[w], pc, channels), Broken(w), [handler[w] EXCEPT !.pc = pc],
                [handler[w] EXCEPT !.pc = pc, !.seen = seen]}
             Places == {"mask", "evaluate", "aggregate", "failed", "record"}
  <1>3. \E pc \in Places : \E channels, seen : \E h \in Going(pc, channels, seen) : Become(w, h)
    <2>1. CASE Lookup(w)
      BY <2>1 DEF Lookup, Answer, To
    <2>2. CASE MaskReport(w)
      BY <2>2 DEF MaskReport, Superstep, To
    <2>3. CASE Evaluate(w)
      BY <2>3 DEF Evaluate, Superstep, To
    <2>4. CASE GraphFails(w)
      BY <2>4 DEF GraphFails
    <2>5. CASE ForgetFailure(w)
      BY <2>5 DEF ForgetFailure, Answer
    <2>6. CASE ReadFailure(w)
      BY <2>6 DEF ReadFailure, Answer
    <2>7. CASE RecordFailure(w) \/ Crash(w)
      BY <2>7 DEF RecordFailure, Crash, Answer
    <2>8. QED
      BY <2>1, <2>2, <2>3, <2>4, <2>5, <2>6, <2>7
  <1>4. ASSUME NEW pc \in Places, NEW channels, NEW seen, NEW h \in Going(pc, channels, seen)
        PROVE  h.pc \in Places \cup {"idle"}
    <2> DEFINE g == handler[w]
    <2>1. g \in [pc : {g.pc}, run : {g.run}, channels : {g.channels}, seen : {g.seen}, broken : {g.broken}]
      BY <1>1 DEF IsHandler
    <2>2. Idle.pc = "idle"
      BY DEF Idle
    <2>3. To(g, pc, channels).pc = pc
      BY <2>1 DEF To
    <2>4. Broken(w).pc = "failed"
      BY <2>1 DEF Broken
    <2>5. [g EXCEPT !.pc = pc].pc = pc /\ [g EXCEPT !.pc = pc, !.seen = seen].pc = pc
      BY <2>1
    <2>6. QED
      BY <1>4, <2>2, <2>3, <2>4, <2>5
  <1>5. PICK h : Become(w, h) /\ h.pc \in Places \cup {"idle"}
    BY <1>3, <1>4
  <1>6. HardStage(h)
    BY <1>5, Unscored DEF Scored, Decided, Composed, Saving
  <1>7. QED
    BY <1>2, <1>5, <1>6, HardStep

LEMMA ReceiveHard ==
    ASSUME DeclineInv, NEW w \in Workers, Receive(w)
    PROVE  (HardStages /\ HardDeclineIsDeclined)' /\ \A d \in decisions' : d.run \in Runs'
  <1> DEFINE h == [Idle EXCEPT !.pc = "lookup", !.run = Len(requests) + 1]
  <1>1. PICK r \in Requests : requests' = Append(requests, r)
    BY DEF Receive
  <1>2. /\ Runs \subseteq Runs' /\ \A i \in Runs : requests'[i] = requests[i]
    BY <1>1 DEF DeclineInv, DecideInv, StateGood, Runs
  <1>3. \A run \in Runs : MustBeDeclined(run)' <=> MustBeDeclined(run)
    BY <1>2 DEF MustBeDeclined, ReportOf
  <1>4. Become(w, h) /\ UNCHANGED decisions
    BY DEF Receive
  <1>5. h.pc = "lookup"
    BY DEF Idle
  <1> HIDE DEF h
  <1>6. handler'[w] = h /\ \A v \in Workers : v # w => handler'[v] = handler[v]
    BY <1>4 DEF DeclineInv, DecideInv, StateGood, Become
  <1>7. HardStages'
    <2>1. handler'[w].pc \notin Scored \cup Decided
      BY <1>5, <1>6 DEF Scored, Decided, Composed, Saving
    <2>2. ASSUME NEW v \in Workers, handler[v].pc \in Scored \cup Decided
          PROVE  handler[v].run \in Runs /\ HardStage(handler[v])
      BY <2>2 DEF DeclineInv, DecideInv, StateGood, HardStages, Active, At, RunOf,
                  Scored, Decided, Composed, Saving
    <2>3. QED
      BY <1>3, <1>6, <2>1, <2>2 DEF HardStages, HardStage
  <1>8. HardDeclineIsDeclined'
    BY <1>3, <1>4 DEF DeclineInv, HardDeclineIsDeclined, MustBeDeclined
  <1>9. QED
    BY <1>2, <1>4, <1>7, <1>8 DEF DeclineInv

-----------------------------------------------------------------------------
LEMMA InitHard == Init => DeclineInv
  <1> SUFFICES ASSUME Init PROVE DeclineInv
    OBVIOUS
  <1>1. \A w \in Workers : handler[w].pc = "idle"
    BY DEF Init, Idle
  <1>2. HardStages
    BY <1>1 DEF HardStages, HardStage, Scored, Decided, Composed, Saving
  <1>3. QED
    BY <1>2, InitGood DEF Init, DeclineInv, HardDeclineIsDeclined

LEMMA NextHard == DeclineInv /\ [Next]_vars => DeclineInv'
  <1> SUFFICES ASSUME DeclineInv, [Next]_vars PROVE DeclineInv'
    OBVIOUS
  <1>1. DecideInv'
    BY NextGood DEF DeclineInv
  <1>2. CASE Next
    <2>1. PICK w \in Workers :
            \/ Receive(w) \/ Lookup(w)
            \/ MaskReport(w) \/ Evaluate(w) \/ Aggregate(w) \/ Decide(w) \/ CounterOffer(w)
            \/ FinalResponse(w) \/ GraphFails(w)
            \/ SaveDecision(w) \/ ForgetFailure(w) \/ ReadFailure(w) \/ RecordFailure(w)
            \/ Crash(w)
      BY <1>2 DEF Next
    <2>2. (HardStages /\ HardDeclineIsDeclined)' /\ \A d \in decisions' : d.run \in Runs'
      BY <2>1, ReceiveHard, AggregateHard, DecideHard, CounterOfferHard, FinalResponseHard,
         SaveDecisionHard, OtherHard
    <2>3. QED
      BY <1>1, <2>2 DEF DeclineInv
  <1>3. CASE UNCHANGED vars
    <2>1. HardStages' /\ HardDeclineIsDeclined'
      BY <1>3 DEF vars, DeclineInv, HardStages, HardStage, MustBeDeclined, ReportOf, HardDeclineIsDeclined
    <2>2. QED
      BY <1>1, <1>3, <2>1 DEF vars, DeclineInv, Runs
  <1>4. QED
    BY <1>2, <1>3

(* The inductive invariant behind the decline: a run whose report calls    *)
(* for it carries a score of zero, and later a decision to decline.        *)
THEOREM DeclineInvariant == Spec => []DeclineInv
  BY InitHard, NextHard, PTL DEF Spec

(* An applicant with a recent bankruptcy or several judgments is declined, *)
(* whatever else the report says and whatever earlier runs of the          *)
(* application have left behind: aggregate_node lets the hard decline      *)
(* override the score, and the decision and its fallback both follow it.   *)
THEOREM HardDeclined == Spec => []HardDeclineIsDeclined
  <1>1. DeclineInv => HardDeclineIsDeclined
    BY DEF DeclineInv
  <1>2. QED
    BY <1>1, DeclineInvariant, PTL
=============================================================================
