---------------------------- MODULE KycVerification ----------------------------
(***************************************************************************)
(* POST /verify of the KYC agent.  A handler opens a case inside its       *)
(* transaction, runs the verification graph on the checkpoint thread of    *)
(* the applicant, deletes the failure record of the applicant, which       *)
(* commits the case, and in a second transaction stores the identity check *)
(* and settles the case.  A graph that raises is put into the failure      *)
(* record, whose commit publishes the case as well.                        *)
(*                                                                         *)
(* A repeated idempotency key is looked up in kyc_requests, a table that   *)
(* nothing inserts into: no run is ever answered from it.  A run, and the  *)
(* case it opens, is numbered by the request it serves.  So is what the    *)
(* nodes log, as history: the rows themselves have UNKNOWN for their       *)
(* application, an id the state of this graph does not carry               *)
(* (utils/audit_decorator.py), and cannot be told apart in the table.      *)
(***************************************************************************)
EXTENDS KycRules

CONSTANTS Workers, Applicants, Keys,
          Profiles,        \* a function to the requests of KycRules
          MaxRuns,         \* bound: requests that arrive
          CommitOutcomes,  \* of a commit: done, refused or unacknowledged
          MayCrash

ASSUME KycAssumption == MaxRuns \in Nat /\ "done" \in CommitOutcomes

VARIABLES requests,    \* the requests received, by run
          checkpoint,  \* the channels last saved for the thread of an applicant
          failures,    \* kyc_failed_threads: retry_count by applicant, None without a record
          cases,       \* kyc_cases that are committed: their status by run
          checks,      \* identity_checks
          nodeLogs,    \* node_audit_logs of the nodes that await their log
          answers,     \* by run; None for a 500
          handler
vars == <<requests, checkpoint, failures, cases, checks, nodeLogs, answers, handler>>
tables == <<failures, cases, checks>>

Requests == [key : Keys, applicant : Applicants, profile : DOMAIN Profiles]
VendorNodes == {"ssn", "address", "aml"}
TrackedNodes == VendorNodes \cup {"contact", "risk_aggregation_engine", "explanation"}

(* A channel never written holds None; the list of tasks is kept as the    *)
(* number of times each node stands in it.                                 *)
NoChannels == [input |-> None, checks |-> None, decision |-> None, explanation |-> None,
               tasks |-> [n \in TrackedNodes |-> 0]]
Idle == [pc |-> "idle", run |-> 0, channels |-> NoChannels, seen |-> None, broken |-> FALSE]

TypeOK ==
    /\ requests \in Seq(Requests)
    /\ DOMAIN cases \subseteq DOMAIN requests
    /\ \A r \in DOMAIN cases : cases[r] \in {"PENDING", "PASSED", "FAILED"}
    /\ \A a \in Applicants : failures[a] = None \/ failures[a] \in Nat
    /\ nodeLogs \subseteq (DOMAIN requests) \X VendorNodes
    /\ DOMAIN answers \subseteq DOMAIN requests

Init ==
    /\ requests = <<>>
    /\ checkpoint = [a \in Applicants |-> NoChannels]
    /\ failures = [a \in Applicants |-> None]
    /\ cases = <<>>
    /\ checks = {}
    /\ nodeLogs = {}
    /\ answers = <<>>
    /\ handler = [w \in Workers |-> Idle]

-----------------------------------------------------------------------------
At(w, location) == handler[w].pc = location
RunOf(w) == handler[w].run
ApplicantOf(w) == requests[RunOf(w)].applicant
ProfileOf(run) == Profiles[requests[run].profile]
ChannelsOf(w) == handler[w].channels
Become(w, h) == handler' = [handler EXCEPT ![w] = h]
Stored(outcome) == outcome # "refused"
Broken(w) == [handler[w] EXCEPT !.pc = "failed", !.broken = TRUE]

(* A table, or a record, with one entry more or one entry changed.         *)
With(table, key, value) ==
    [k \in DOMAIN table \cup {key} |-> IF k = key THEN value ELSE table[k]]

Answer(w, answer) ==
    /\ answers' = With(answers, RunOf(w), answer)
    /\ Become(w, Idle)

Receive(w) ==
    /\ At(w, "idle")
    /\ Len(requests) < MaxRuns
    /\ \E r \in Requests : requests' = Append(requests, r)
    /\ Become(w, [Idle EXCEPT !.pc = "open", !.run = Len(requests) + 1])
    /\ UNCHANGED <<checkpoint, tables, nodeLogs, answers>>

StartWith(w, channels) ==
    /\ checkpoint' = [checkpoint EXCEPT ![ApplicantOf(w)] = channels]
    /\ Become(w, [handler[w] EXCEPT !.pc = "normalize", !.channels = channels])
    /\ UNCHANGED answers

\* mutant: a run that failed is resumed with the input it had
OpenCase_Resume(w) ==
    /\ At(w, "open")
    /\ LET left == checkpoint[ApplicantOf(w)]
           resumed == failures[ApplicantOf(w)] # None /\ left.input # None
       IN  StartWith(w, IF resumed THEN left ELSE [left EXCEPT !.input = RunOf(w)])
    /\ UNCHANGED <<requests, tables, nodeLogs>>

(* The case is flushed, seen by nobody else yet.  The failure record is    *)
(* looked up for the name of its thread, which is always the applicant's;  *)
(* the graph starts from the channels that thread has.                     *)
OpenCase(w) ==
    /\ At(w, "open")
    /\ \/ StartWith(w, [checkpoint[ApplicantOf(w)] EXCEPT !.input = RunOf(w)])
       \/ CommitOutcomes # {"done"} /\ Answer(w, None) /\ UNCHANGED checkpoint
    /\ UNCHANGED <<requests, tables, nodeLogs>>

(* The end of a superstep: the writes of its nodes, each of them added to  *)
(* the tasks, reach channels and checkpoint.                               *)
Superstep(w, nodes, writes, next) ==
    LET done == [writes EXCEPT !.tasks = [n \in TrackedNodes |-> @[n] + (IF n \in nodes THEN 1 ELSE 0)]]
    IN  /\ checkpoint' = [checkpoint EXCEPT ![ApplicantOf(w)] = done]
        /\ Become(w, [handler[w] EXCEPT !.pc = next, !.channels = done])
        /\ UNCHANGED <<requests, tables, answers>>

(* The node returns the whole state, so that the tasks earlier runs have   *)
(* left are appended to themselves.                                        *)
Normalize(w) ==
    /\ At(w, "normalize")
    /\ Superstep(w, {}, [ChannelsOf(w) EXCEPT !.tasks = [n \in TrackedNodes |-> 2 * @[n]]], "verify")
    /\ UNCHANGED nodeLogs

SignalsOf == [p \in DOMAIN Profiles |->
    LET report == CreditReport(Profiles[p])
    IN  [ssn |-> SsnVerification(Profiles[p], report),
         address |-> AddressVerification(Profiles[p]),
         aml |-> AmlCheck(report),
         contact |-> ContactVerification(Profiles[p])]]
SignalsIn(channels) == SignalsOf[requests[channels.checks].profile]

\* mutant: the logs of the nodes are left to tasks, which are lost
Verify_LogsLater(w) ==
    /\ At(w, "verify")
    /\ CanBeSent(ProfileOf(ChannelsOf(w).input))
    /\ Superstep(w, VendorNodes \cup {"contact"},
                 [ChannelsOf(w) EXCEPT !.checks = ChannelsOf(w).input], "aggregate")
    /\ UNCHANGED nodeLogs

(* The four checks of one superstep.  The channel names the run whose      *)
(* input they were made of.  The nodes that call the vendor await their    *)
(* audit log, in finally.                                                  *)
Verify(w) ==
    /\ At(w, "verify")
    /\ CanBeSent(ProfileOf(ChannelsOf(w).input))
    /\ Superstep(w, VendorNodes \cup {"contact"},
                 [ChannelsOf(w) EXCEPT !.checks = ChannelsOf(w).input], "aggregate")
    /\ nodeLogs' = nodeLogs \cup ({RunOf(w)} \X VendorNodes)

Tagged(record, run) == With(record, "run", run)

Aggregate(w) ==
    /\ At(w, "aggregate")
    /\ ValidRuleSet(RuleSet)
    /\ LET c == ChannelsOf(w)
       IN  Superstep(w, {"risk_aggregation_engine"},
                     [c EXCEPT !.decision = Tagged(RiskAggregator(RuleSet, SignalsIn(c)), c.checks)], "explain")
    /\ UNCHANGED nodeLogs

Explain(w) ==
    /\ At(w, "explain")
    /\ LET c == ChannelsOf(w)
       IN  Superstep(w, {"explanation"}, [c EXCEPT !.explanation = Explanation(c.decision)], "forget")
    /\ UNCHANGED nodeLogs

(* A node, its audit log or a checkpoint raises.  Vendor nodes of the same *)
(* superstep may have logged their success.                                *)
GraphFails(w) ==
    /\ handler[w].pc \in {"normalize", "verify", "aggregate", "explain"}
    /\ \E logged \in SUBSET VendorNodes :
         /\ logged # {} => At(w, "verify") /\ CanBeSent(ProfileOf(ChannelsOf(w).input))
         /\ nodeLogs' = nodeLogs \cup ({RunOf(w)} \X logged)
    /\ Become(w, [handler[w] EXCEPT !.pc = "failed"])
    /\ UNCHANGED <<requests, checkpoint, tables, answers>>

-----------------------------------------------------------------------------
WithCase(w, status) == With(cases, RunOf(w), status)

(* Still inside the try: a deletion that raises counts as a failure of the *)
(* graph.  Its commit publishes the case, which is PENDING.                *)
ForgetFailure(w) ==
    /\ At(w, "forget")
    /\ \E outcome \in CommitOutcomes :
         /\ IF Stored(outcome)
            THEN failures' = [failures EXCEPT ![ApplicantOf(w)] = None] /\ cases' = WithCase(w, "PENDING")
            ELSE UNCHANGED <<failures, cases>>
         /\ Become(w, IF outcome = "done" THEN [handler[w] EXCEPT !.pc = "settle"] ELSE Broken(w))
    /\ UNCHANGED <<requests, checkpoint, checks, nodeLogs, answers>>

(* save_failure reads, then writes.  On a broken session it raises.        *)
ReadFailure(w) ==
    /\ At(w, "failed")
    /\ \/ /\ ~handler[w].broken
          /\ Become(w, [handler[w] EXCEPT !.pc = "record", !.seen = failures[ApplicantOf(w)]])
          /\ UNCHANGED answers
       \/ /\ handler[w].broken \/ CommitOutcomes # {"done"}
          /\ Answer(w, None)
    /\ UNCHANGED <<requests, checkpoint, tables, nodeLogs>>

(* Record and case are one commit.  The applicant is unique in the table:  *)
(* an insert after another's insert raises, as does the update of a record *)
(* that is gone, and then the case is rolled back with it.                 *)
RecordFailure(w) ==
    /\ At(w, "record")
    /\ LET a == ApplicantOf(w)
           seen == handler[w].seen
       IN  \E outcome \in CommitOutcomes :
             IF Stored(outcome) /\ (seen = None <=> failures[a] = None)
             THEN /\ failures' = [failures EXCEPT ![a] = IF seen = None THEN 0 ELSE seen + 1]
                  /\ cases' = WithCase(w, "PENDING")
             ELSE UNCHANGED <<failures, cases>>
    /\ Answer(w, None)
    /\ UNCHANGED <<requests, checkpoint, checks, nodeLogs>>

StatusOf(final_status) ==
    CASE final_status = "PASS" -> "PASSED" [] final_status = "FAIL" -> "FAILED" [] OTHER -> "PENDING"

IdentityCheck(w) ==
    LET c == ChannelsOf(w)
    IN  [run |-> RunOf(w), decision |-> c.decision, ssn |-> SignalsIn(c).ssn, tasks |-> c.tasks]

Response(w) ==
    LET c == ChannelsOf(w)
    IN  [status |-> c.decision.final_status, decision |-> c.decision, explanation |-> c.explanation,
         ssn |-> SignalsIn(c).ssn, tasks |-> c.tasks]

\* mutant: the check is committed before the case is settled
SettleCase_TwoCommits(w) ==
    /\ At(w, "settle")
    /\ \E outcome \in CommitOutcomes :
         /\ checks' = checks \cup {IdentityCheck(w)}
         /\ IF Stored(outcome)
            THEN cases' = WithCase(w, StatusOf(ChannelsOf(w).decision.final_status))
            ELSE UNCHANGED cases
         /\ Answer(w, IF outcome = "done" THEN Response(w) ELSE None)
    /\ UNCHANGED <<requests, checkpoint, failures, nodeLogs>>

\* mutant: a check that cannot be stored is answered all the same
SettleCase_BestEffort(w) ==
    /\ At(w, "settle")
    /\ \E outcome \in CommitOutcomes :
         IF Stored(outcome)
         THEN /\ checks' = checks \cup {IdentityCheck(w)}
              /\ cases' = WithCase(w, StatusOf(ChannelsOf(w).decision.final_status))
         ELSE UNCHANGED <<checks, cases>>
    /\ Answer(w, Response(w))
    /\ UNCHANGED <<requests, checkpoint, failures, nodeLogs>>

(* Check and status are flushed one by one and committed together; there   *)
(* is no request row to update.                                            *)
SettleCase(w) ==
    /\ At(w, "settle")
    /\ \E outcome \in CommitOutcomes :
         /\ IF Stored(outcome)
            THEN /\ checks' = checks \cup {IdentityCheck(w)}
                 /\ cases' = WithCase(w, StatusOf(ChannelsOf(w).decision.final_status))
            ELSE UNCHANGED <<checks, cases>>
         /\ Answer(w, IF outcome = "done" THEN Response(w) ELSE None)
    /\ UNCHANGED <<requests, checkpoint, failures, nodeLogs>>

Crash(w) ==
    /\ MayCrash
    /\ ~At(w, "idle")
    /\ Become(w, Idle)
    /\ UNCHANGED <<requests, checkpoint, tables, nodeLogs, answers>>

Next == \E w \in Workers :
    \/ Receive(w) \/ OpenCase(w)
    \/ Normalize(w) \/ Verify(w) \/ Aggregate(w) \/ Explain(w) \/ GraphFails(w)
    \/ ForgetFailure(w) \/ ReadFailure(w) \/ RecordFailure(w) \/ SettleCase(w)
    \/ Crash(w)
Spec == Init /\ [][Next]_vars

-----------------------------------------------------------------------------
(* A case is PENDING exactly as long as it has no identity check, and is   *)
(* settled as the check says, however commits fail and processes die       *)
(* between the two transactions of a run.                                  *)
CaseMatchesCheck ==
    /\ \A c \in checks : c.run \in DOMAIN cases
    /\ \A r \in DOMAIN cases :
          LET own == {c \in checks : c.run = r}
          IN  IF own = {} THEN cases[r] = "PENDING"
              ELSE \A c \in own : cases[r] = StatusOf(c.decision.final_status)

(* Whatever other runs left on the thread of the applicant, a stored check *)
(* was made of its own request, and its list of tasks names every node.    *)
CheckIsOwn ==
    \A c \in checks : /\ c.decision.run = c.run
                      /\ c.ssn = SignalsOf[requests[c.run].profile].ssn
                      /\ \A n \in TrackedNodes : c.tasks[n] > 0

(* A stored check is backed by the audit logs of the three nodes that      *)
(* asked the vendor.                                                       *)
CheckIsAudited == \A c \in checks : {c.run} \X VendorNodes \subseteq nodeLogs

(* An applicant the vendor reports as dead or as a known fraud never       *)
(* passes, whatever else is known of the applicant.                        *)
SanctionedIsFailed ==
    \A r \in DOMAIN cases :
        LET report == CreditReport(ProfileOf(r))
        IN  report.deceased \/ report.code = "12" => cases[r] # "PASSED"

(* A verification that is answered is the one stored, and its case is      *)
(* settled.                                                                *)
AnswerIsRecorded ==
    \A r \in DOMAIN answers : answers[r] # None =>
        \E c \in checks : /\ c.run = r /\ c.decision = answers[r].decision
                          /\ cases[r] = StatusOf(answers[r].status)
=============================================================================
