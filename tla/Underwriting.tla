----------------------------- MODULE Underwriting -----------------------------
(***************************************************************************)
(* POST /underwrite of the decisioning agent.  A handler looks up the      *)
(* failure record of the application, runs the graph superstep by          *)
(* superstep on the checkpoint thread of the application, stores the       *)
(* decision and deletes the failure record; whatever raises on the way is  *)
(* put into the failure record and answered with a 500.                    *)
(*                                                                         *)
(* A run is numbered by the request it serves.  The channels of the graph  *)
(* carry the number of the run that wrote them, for a run starts from the  *)
(* channels that earlier runs of the application have left behind.         *)
(***************************************************************************)
EXTENDS DecisionRules, TLC

CONSTANTS Workers, Apps,
          Reports,        \* a function to credit reports
          TermsAsked,     \* a set of [amount, tenure]
          MaxRuns,        \* bound: requests that arrive
          WriteOutcomes,  \* of a database call: done, refused or unacknowledged
          MayCrash

ASSUME UnderwritingAssumption == MaxRuns \in Nat /\ "done" \in WriteOutcomes
ASSUME ReportAssumption == \A r \in DOMAIN Reports :
    /\ "publicRecord" \in DOMAIN Reports[r]
    /\ LET records == Reports[r].publicRecord
       IN  IsFiniteSet(DOMAIN records) /\ \A i \in DOMAIN records : {"kind", "age"} \subseteq DOMAIN records[i]

VARIABLES requests,     \* the requests received, by run
          checkpoint,   \* the channels last saved for the thread of an application
          failures,     \* decisioning_failed_threads, by application
          decisions,    \* underwriting_decisions
          answers,      \* the HTTP answers, by run; None for a 500
          handler
vars == <<requests, checkpoint, failures, decisions, answers, handler>>

Requests == [app : Apps, report : DOMAIN Reports, terms : TermsAsked]
Runs == DOMAIN requests
MonthlyIncome == 15000   \* the service's constant: the income in the request is not used

(* A channel never written holds None.                                     *)
NoChannels == [input |-> None, signals |-> None, risk |-> None,
               decision |-> None, offer |-> None, tasks |-> {}]
Idle == [pc |-> "idle", run |-> 0, channels |-> NoChannels, seen |-> None, broken |-> FALSE]

TypeOK ==
    /\ requests \in Seq(Requests)
    /\ \A a \in Apps : failures[a] = None \/ failures[a] \in Nat
    /\ \A d \in decisions : d.run \in Runs
    /\ DOMAIN answers \subseteq Runs

Init ==
    /\ requests = <<>>
    /\ checkpoint = [a \in Apps |-> NoChannels]
    /\ failures = [a \in Apps |-> None]
    /\ decisions = {}
    /\ answers = <<>>
    /\ handler = [w \in Workers |-> Idle]

-----------------------------------------------------------------------------
At(w, location) == handler[w].pc = location
RunOf(w) == handler[w].run
AppOf(w) == requests[RunOf(w)].app
ChannelsOf(w) == handler[w].channels
Become(w, h) == handler' = [handler EXCEPT ![w] = h]
Stored(outcome) == outcome # "refused"
Broken(w) == [handler[w] EXCEPT !.pc = "failed", !.broken = TRUE]

(* A table, or a record, with one entry more or one entry changed.         *)
With(table, key, value) ==
    [k \in DOMAIN table \cup {key} |-> IF k = key THEN value ELSE table[k]]

Receive(w) ==
    /\ At(w, "idle")
    /\ Len(requests) < MaxRuns
    /\ \E r \in Requests : requests' = Append(requests, r)
    /\ Become(w, [Idle EXCEPT !.pc = "lookup", !.run = Len(requests) + 1])
    /\ UNCHANGED <<checkpoint, failures, decisions, answers>>

Answer(w, answer) ==
    /\ answers' = With(answers, RunOf(w), answer)
    /\ Become(w, Idle)

\* mutant: a run that failed is resumed with the input it had
Lookup_Resume(w) ==
    /\ At(w, "lookup")
    /\ LET left == checkpoint[AppOf(w)]
           input == IF failures[AppOf(w)] # None /\ left.input # None THEN left.input ELSE RunOf(w)
       IN  Become(w, [handler[w] EXCEPT !.pc = "mask", !.channels = [left EXCEPT !.input = input]])
    /\ UNCHANGED <<requests, checkpoint, failures, decisions, answers>>

(* A failure record only yields the name of the thread, which is the same  *)
(* for every run; with an input ainvoke starts at the entry point, from    *)
(* the channels the thread has.  The lookup is outside the try.            *)
Lookup(w) ==
    /\ At(w, "lookup")
    /\ \/ LET started == [checkpoint[AppOf(w)] EXCEPT !.input = RunOf(w)]
          IN  /\ checkpoint' = [checkpoint EXCEPT ![AppOf(w)] = started]
              /\ Become(w, [handler[w] EXCEPT !.pc = "mask", !.channels = started])
              /\ UNCHANGED answers
       \/ WriteOutcomes # {"done"} /\ Answer(w, None) /\ UNCHANGED checkpoint
    /\ UNCHANGED <<requests, failures, decisions>>

(* The end of a superstep: the writes of its nodes reach the channels, and *)
(* the channels the checkpoint.                                            *)
Superstep(w, nodes, writes, next) ==
    LET done == [writes EXCEPT !.tasks = @ \cup ({RunOf(w)} \X nodes)]
    IN  /\ checkpoint' = [checkpoint EXCEPT ![AppOf(w)] = done]
        /\ Become(w, [handler[w] EXCEPT !.pc = next, !.channels = done])
        /\ UNCHANGED <<requests, failures, decisions, answers>>

MaskReport(w) ==
    /\ At(w, "mask")
    /\ Superstep(w, {"pi_deletion"}, ChannelsOf(w), "evaluate")

(* The seven nodes of one superstep, all with their replies.               *)
Evaluate(w) ==
    /\ At(w, "evaluate")
    /\ Superstep(w, DOMAIN Weights, [ChannelsOf(w) EXCEPT !.signals = ChannelsOf(w).input], "aggregate")

SignalsOf == [r \in DOMAIN Reports |-> Signals(Reports[r], MonthlyIncome)]
SignalsIn(channels) == SignalsOf[requests[channels.signals].report]
TermsIn(channels) == requests[channels.input].terms
Tagged(record, run) == With(record, "run", run)

Aggregate(w) ==
    /\ At(w, "aggregate")
    /\ LET c == ChannelsOf(w)
       IN  Superstep(w, {"aggregate"},
                     [c EXCEPT !.risk = Tagged(RiskAggregator(SignalsIn(c)), c.signals)], "decide")

(* What the model decides against the policy of its prompt: any reply that *)
(* can be parsed is taken, with whatever terms it has, and the graph only  *)
(* asks whether it is a counter offer.                                     *)
ComposedDecisions ==
    {[decision |-> kind, terms |-> "composed by the model"] : kind \in {"COUNTER_OFFER", "any other"}}

(* The decision: the model's, or the fallback when it has none to give.    *)
Decide(w) ==
    /\ At(w, "decide")
    /\ LET c == ChannelsOf(w)
           fallback == FallbackDecision(c.risk, TermsIn(c))
       IN  \E reply \in {None, PolicyDecision(SignalsIn(c), c.risk, TermsIn(c))} \cup ComposedDecisions :
             LET decision == ExecuteLlm(<<reply>>, fallback)
             IN  Superstep(w, {"decision"}, [c EXCEPT !.decision = Tagged(decision, c.input)],
                           IF decision.decision = "COUNTER_OFFER" THEN "counter" ELSE "respond")

(* The model's offer is left open.                                         *)
ComposedOffer == [options |-> "composed by the model"]
ASSUME NoneAssumption ==
    \A offer \in {ComposedOffer} \cup {FallbackCounterOffer(MonthlyIncome, terms) : terms \in TermsAsked},
       run \in 1..MaxRuns : Tagged(offer, run) # None

CounterOffer(w) ==
    /\ At(w, "counter")
    /\ LET c == ChannelsOf(w)
       IN  \E reply \in {None, ComposedOffer} :
             LET offer == ExecuteLlm(<<reply>>, FallbackCounterOffer(MonthlyIncome, TermsIn(c)))
             IN  Superstep(w, {"counter_offer"}, [c EXCEPT !.offer = Tagged(offer, c.input)], "respond")

(* The composed payload is no channel of the graph: only the bookkeeping   *)
(* of the node is kept.                                                    *)
FinalResponse(w) ==
    /\ At(w, "respond")
    /\ Superstep(w, {"final_response"}, ChannelsOf(w), "save")

(* An evaluation whose attempts all fail raises; so does a checkpoint that *)
(* cannot be written.  What the superstep wrote is lost.                   *)
GraphFails(w) ==
    /\ handler[w].pc \in {"mask", "evaluate", "aggregate", "decide", "counter", "respond"}
    /\ Become(w, [handler[w] EXCEPT !.pc = "failed"])
    /\ UNCHANGED <<requests, checkpoint, failures, decisions, answers>>

-----------------------------------------------------------------------------
\* mutant: a counter offer found in the final state is attached to any decision
OfferIn_AnyDecision(channels) == channels.offer
OfferIn(channels) ==
    IF channels.decision.decision = "COUNTER_OFFER" THEN channels.offer ELSE None

(* The answer: the decision, with the options of a counter offer.          *)
Payload(channels) == [decision |-> channels.decision, offer |-> OfferIn(channels)]

DecisionRow(w) ==
    LET c == ChannelsOf(w)
    IN  [app |-> AppOf(w), run |-> RunOf(w), payload |-> Payload(c), risk |-> c.risk, tasks |-> c.tasks]

\* mutant: a decision that cannot be stored is returned all the same
SaveDecision_BestEffort(w) ==
    /\ At(w, "save")
    /\ \E outcome \in WriteOutcomes :
         decisions' = IF Stored(outcome) THEN decisions \cup {DecisionRow(w)} ELSE decisions
    /\ Become(w, [handler[w] EXCEPT !.pc = "forget"])
    /\ UNCHANGED <<requests, checkpoint, failures, answers>>

SaveDecision(w) ==
    /\ At(w, "save")
    /\ \E outcome \in WriteOutcomes :
         /\ decisions' = IF Stored(outcome) THEN decisions \cup {DecisionRow(w)} ELSE decisions
         /\ Become(w, IF outcome = "done" THEN [handler[w] EXCEPT !.pc = "forget"] ELSE Broken(w))
    /\ UNCHANGED <<requests, checkpoint, failures, answers>>

(* The decision is committed by now; a deletion that raises answers with   *)
(* an error all the same.  If it raises for want of a connection, which    *)
(* the commit has given back, the session remains usable.                  *)
ForgetFailure(w) ==
    /\ At(w, "forget")
    /\ \/ \E outcome \in WriteOutcomes :
            /\ failures' = IF Stored(outcome) THEN [failures EXCEPT ![AppOf(w)] = None] ELSE failures
            /\ IF outcome = "done" THEN Answer(w, Payload(ChannelsOf(w)))
               ELSE Become(w, Broken(w)) /\ UNCHANGED answers
       \/ /\ WriteOutcomes # {"done"}
          /\ Become(w, [handler[w] EXCEPT !.pc = "failed"])
          /\ UNCHANGED <<failures, answers>>
    /\ UNCHANGED <<requests, checkpoint, decisions>>

(* save_failure reads, then writes.  On a broken session it raises.        *)
ReadFailure(w) ==
    /\ At(w, "failed")
    /\ \/ /\ ~handler[w].broken
          /\ Become(w, [handler[w] EXCEPT !.pc = "record", !.seen = failures[AppOf(w)]])
          /\ UNCHANGED answers
       \/ /\ handler[w].broken \/ WriteOutcomes # {"done"}
          /\ Answer(w, None)
    /\ UNCHANGED <<requests, checkpoint, failures, decisions>>

(* The count written is the one read plus one.  The application id is      *)
(* unique: an insert after another's insert raises, and so does the update *)
(* of a record that is gone.                                               *)
RecordFailure(w) ==
    /\ At(w, "record")
    /\ LET a == AppOf(w)
           seen == handler[w].seen
       IN  \E outcome \in WriteOutcomes :
             failures' = IF Stored(outcome) /\ (seen = None <=> failures[a] = None)
                         THEN [failures EXCEPT ![a] = IF seen = None THEN 0 ELSE seen + 1]
                         ELSE failures
    /\ Answer(w, None)
    /\ UNCHANGED <<requests, checkpoint, decisions>>

Crash(w) ==
    /\ MayCrash
    /\ ~At(w, "idle")
    /\ Become(w, Idle)
    /\ UNCHANGED <<requests, checkpoint, failures, decisions, answers>>

Next == \E w \in Workers :
    \/ Receive(w) \/ Lookup(w)
    \/ MaskReport(w) \/ Evaluate(w) \/ Aggregate(w) \/ Decide(w) \/ CounterOffer(w)
    \/ FinalResponse(w) \/ GraphFails(w)
    \/ SaveDecision(w) \/ ForgetFailure(w) \/ ReadFailure(w) \/ RecordFailure(w)
    \/ Crash(w)
Spec == Init /\ [][Next]_vars

-----------------------------------------------------------------------------
ReportOf(run) == Reports[requests[run].report]
(* A bankruptcy of the last five years, or several judgments.              *)
MustDecline(report) ==
    LET records == report.publicRecord
    IN  \/ \E i \in DOMAIN records : records[i].kind = "bankruptcy" /\ records[i].age <= 5
        \/ \E i, j \in DOMAIN records : i # j /\ records[i].kind = "judgment" /\ records[j].kind = "judgment"

(* Whatever earlier or concurrent runs left on the checkpoint thread, a    *)
(* stored decision, its score and its offer are those of its own request,  *)
(* there is an offer exactly with a counter offer, and the list of         *)
(* executed nodes has every node of the run.                               *)
DecisionIsOwn ==
    \A d \in decisions :
        LET decision == d.payload.decision
            offer == d.payload.offer
        IN  /\ d.risk.run = d.run /\ decision.run = d.run
            /\ IF decision.decision = "COUNTER_OFFER" THEN offer # None /\ offer.run = d.run
                ELSE offer = None
            /\ {d.run} \X (DOMAIN Weights \cup {"pi_deletion", "aggregate", "decision", "final_response"})
                   \subseteq d.tasks

(* A decision that is answered is the one stored for the request, also     *)
(* when database calls fail.                                               *)
AnswerIsRecorded ==
    \A r \in DOMAIN answers :
        answers[r] # None => \E d \in decisions : d.run = r /\ d.payload = answers[r]

(* A decision is a decline, unless the model has departed from its policy. *)
DeclinesByPolicy(decision) == decision.decision = "DECLINE" \/ "terms" \in DOMAIN decision

(* An applicant whose public records call for a hard decline is put into   *)
(* the last tier, whatever the model says, and declined by its policy and  *)
(* by the fallback alike.                                                  *)
HardDeclineIsDeclined ==
    \A d \in decisions : MustDecline(ReportOf(d.run)) =>
        DeclinesByPolicy(d.payload.decision) /\ d.risk.tier = "F"

(* Of two applicants who differ in their payments only, the one with an    *)
(* account charged off does not score better: "use behavior_score          *)
(* directly" in the aggregator.                                            *)
ChargeoffCounts ==
    \A d, e \in decisions :
        LET worse == ReportOf(d.run)
            better == ReportOf(e.run)
        IN  /\ Behavior(worse.tradeline).behavior_score = 0
            /\ [worse EXCEPT !.tradeline = <<>>] = [better EXCEPT !.tradeline = <<>>]
            /\ [Signals(worse, MonthlyIncome) EXCEPT !.behavior = None]
                  = [Signals(better, MonthlyIncome) EXCEPT !.behavior = None]
            => d.risk.score <= e.risk.score
=============================================================================
