---------------------------- MODULE ProgressStream ----------------------------
(***************************************************************************)
(* The progress events of one application at the orchestrator: background  *)
(* pipeline runs publish them to the ProgressBroker, which keeps the last  *)
(* MaxEvents of them and forwards each to the queues of the clients of     *)
(* GET /pipeline_updates.                                                  *)
(*                                                                         *)
(* The broker's lock is never waited for, as nothing is awaited while it   *)
(* is held, so publish, subscribe and unsubscribe are one step each, and   *)
(* so is all a run does between two HTTP calls.  Runs of other             *)
(* applications share nothing with this one but the moments at which       *)
(* expired buffers are swept.                                              *)
(***************************************************************************)
EXTENDS Integers, Sequences, FiniteSets

CONSTANTS Clients,
          MaxEvents,      \* EVENT_BUFFER_SIZE
          MaxRuns,        \* bound: how many background runs are started
          MaxStreams      \* bound: how many streams a client opens

ASSUME StreamAssumption ==
    /\ MaxEvents \in Nat \ {0}
    /\ MaxRuns \in Nat
    /\ MaxStreams \in Nat

VARIABLES buffer,     \* _buffers: the events kept, oldest first
          terminalAt, \* _terminal_at: "none", or a "fresh" or "expired" time
          subscribers,\* _subscribers: the clients whose queue is registered
          queue,      \* the queue of each client
          stream,     \* the event generator of each client
          task,       \* active_pipeline_tasks: the registered run, 0 if none
          run,        \* the state of each run
          published   \* history: everything ever published
brokerVars == <<buffer, terminalAt, published>>
clientVars == <<subscribers, queue, stream>>
vars == <<buffer, terminalAt, subscribers, queue, stream, task, run, published>>

Runs == 1..MaxRuns
RunStates == {"new", "accepted", "kyc", "underwriting", "closing", "done"}

Progress == {"PIPELINE_ACCEPTED", "KYC_TRIGGERED", "KYC_PASSED", "UNDERWRITING_STARTED"}
Terminals == {"KYC_FAILED", "UNDERWRITING_FAILED", "APPLICATION_DECLINED",
              "APPLICATION_APPROVED", "COUNTER_OFFER_PENDING", "PIPELINE_FAILED"}
Event == [run : Runs, event : Progress \cup Terminals]
IsTerminal(e) == e.event \in Terminals

(* A generator first yields the history it got, then what is queued.  next *)
(* is the place in published of the event it yields next, and shown the    *)
(* latest run it has yielded an event of (both for the properties).        *)
NoStream == [pc |-> "off", todo |-> <<>>, next |-> 1, shown |-> 0, opened |-> 0]
Stream == [pc : {"off", "replay", "live"}, todo : Seq(Event), next : Nat \ {0},
           shown : Runs \cup {0}, opened : 0..MaxStreams]

TypeOK ==
    /\ buffer \in Seq(Event) /\ Len(buffer) <= MaxEvents
    /\ terminalAt \in {"none", "fresh", "expired"}
    /\ subscribers \subseteq Clients
    /\ queue \in [Clients -> Seq(Event)]
    /\ stream \in [Clients -> Stream]
    /\ task \in Runs \cup {0}
    /\ run \in [Runs -> RunStates]
    /\ published \in Seq(Event)

Init ==
    /\ buffer = <<>>
    /\ terminalAt = "none"
    /\ subscribers = {}
    /\ queue = [c \in Clients |-> <<>>]
    /\ stream = [c \in Clients |-> NoStream]
    /\ task = 0
    /\ run = [r \in Runs |-> "new"]
    /\ published = <<>>

-----------------------------------------------------------------------------
(* The broker *)

Newest(s) == SubSeq(s, Len(s) - (IF Len(s) < MaxEvents THEN Len(s) ELSE MaxEvents) + 1, Len(s))


(* _cleanup_expired_locked drops a buffer nobody is subscribed to.         *)
Expired(subs) == terminalAt = "expired" /\ subs = {}

\* mutant: a new run does not revive the buffer of a finished one
Publish_KeepsClock(events) ==
    /\ buffer' = Newest((IF Expired(subscribers) THEN <<>> ELSE buffer) \o events)
    /\ terminalAt' = IF IsTerminal(events[Len(events)]) THEN "fresh"
                     ELSE IF Expired(subscribers) THEN "none" ELSE terminalAt
    /\ queue' = [c \in Clients |-> IF c \in subscribers THEN queue[c] \o events ELSE queue[c]]
    /\ published' = published \o events
\* mutant: events are queued only for clients that have finished the replay
Publish_LiveOnly(events) ==
    /\ buffer' = Newest((IF Expired(subscribers) THEN <<>> ELSE buffer) \o events)
    /\ terminalAt' = IF IsTerminal(events[Len(events)]) THEN "fresh" ELSE "none"
    /\ queue' = [c \in Clients |-> IF c \in subscribers /\ stream[c].pc = "live"
                                   THEN queue[c] \o events ELSE queue[c]]
    /\ published' = published \o events

(* publish, for all the events a run publishes in one step.                *)
Publish(events) ==
    /\ buffer' = Newest((IF Expired(subscribers) THEN <<>> ELSE buffer) \o events)
    /\ terminalAt' = IF IsTerminal(events[Len(events)]) THEN "fresh" ELSE "none"
    /\ queue' = [c \in Clients |-> IF c \in subscribers THEN queue[c] \o events ELSE queue[c]]
    /\ published' = published \o events

Events(r, names) == [i \in 1..Len(names) |-> [run |-> r, event |-> names[i]]]

(* Half an hour passes after a terminal event.                             *)
Expire ==
    /\ terminalAt = "fresh"
    /\ terminalAt' = "expired"
    /\ UNCHANGED <<buffer, clientVars, task, run, published>>

(* A broker call for another application sweeps this one's buffer.         *)
Sweep ==
    /\ Expired(subscribers)
    /\ buffer' = <<>>
    /\ terminalAt' = "none"
    /\ UNCHANGED <<clientVars, task, run, published>>

-----------------------------------------------------------------------------
(* Background runs *)


(* trigger_pipeline_async: nothing new while the registered task runs.     *)
Trigger(r) ==
    /\ run[r] = "new"
    /\ \A q \in 1..(r - 1) : run[q] # "new"
    /\ ~(task # 0 /\ run[task] # "done")
    /\ Publish(Events(r, <<"PIPELINE_ACCEPTED">>))
    /\ run' = [run EXCEPT ![r] = "accepted"]
    /\ task' = r
    /\ UNCHANGED <<subscribers, stream>>

(* One stretch of a run: it publishes names and waits at pc.               *)
RunStep(r, from, pc, names) ==
    /\ run[r] = from
    /\ Publish(Events(r, names))
    /\ run' = [run EXCEPT ![r] = pc]
    /\ UNCHANGED <<subscribers, stream, task>>

(* The task starts; an unusable application raises before the first event. *)
StartRun(r) ==
    \/ RunStep(r, "accepted", "kyc", <<"KYC_TRIGGERED">>)
    \/ RunStep(r, "accepted", "closing", <<"PIPELINE_FAILED">>)

(* KYC passed, was refused, or raised; passed, but the answer cannot be    *)
(* mapped for underwriting.                                                *)
KycAnswer(r) ==
    \/ RunStep(r, "kyc", "underwriting", <<"KYC_PASSED", "UNDERWRITING_STARTED">>)
    \/ RunStep(r, "kyc", "closing", <<"KYC_FAILED">>)
    \/ RunStep(r, "kyc", "closing", <<"KYC_FAILED", "PIPELINE_FAILED">>)
    \/ RunStep(r, "kyc", "closing", <<"KYC_PASSED", "PIPELINE_FAILED">>)

\* mutant: an unknown decision ends the run without an event
UnderwritingAnswer_SilentEnd(r) ==
    \/ \E e \in {"APPLICATION_DECLINED", "APPLICATION_APPROVED", "COUNTER_OFFER_PENDING",
                 "PIPELINE_FAILED"} : RunStep(r, "underwriting", "closing", <<e>>)
    \/ /\ run[r] = "underwriting"
       /\ run' = [run EXCEPT ![r] = "closing"]
       /\ UNCHANGED <<brokerVars, clientVars, task>>

(* The decision, which may raise once it has been announced (APPROVE), or  *)
(* be one the code does not know.                                          *)
UnderwritingAnswer(r) ==
    \/ \E e \in {"APPLICATION_DECLINED", "APPLICATION_APPROVED", "COUNTER_OFFER_PENDING",
                 "PIPELINE_FAILED"} : RunStep(r, "underwriting", "closing", <<e>>)
    \/ \E e \in {"APPLICATION_APPROVED", "UNDERWRITING_FAILED"} :
         RunStep(r, "underwriting", "closing", <<e, "PIPELINE_FAILED">>)

(* finally: the HTTP client is closed and the task deregisters itself.     *)
EndRun(r) ==
    /\ run[r] = "closing"
    /\ run' = [run EXCEPT ![r] = "done"]
    /\ task' = 0
    /\ UNCHANGED <<brokerVars, clientVars>>

-----------------------------------------------------------------------------
(* Clients *)

(* subscribe: the queue is registered and the history read under one lock. *)
Subscribe(c) ==
    /\ stream[c].pc = "off"
    /\ stream[c].opened < MaxStreams
    /\ LET kept == IF Expired(subscribers) THEN <<>> ELSE buffer
       IN  /\ subscribers' = subscribers \cup {c}
           /\ buffer' = kept
           /\ terminalAt' = IF Expired(subscribers) THEN "none" ELSE terminalAt
           /\ stream' = [stream EXCEPT ![c] =
                 [NoStream EXCEPT !.pc = "replay", !.todo = kept,
                      !.next = Len(published) - Len(kept) + 1, !.opened = stream[c].opened + 1]]
    /\ queue' = [queue EXCEPT ![c] = <<>>]
    /\ UNCHANGED <<task, run, published>>

(* unsubscribe, which sweeps too.                                          *)
Unsubscribe(c, shown) ==
    /\ subscribers' = subscribers \ {c}
    /\ buffer' = IF Expired(subscribers \ {c}) THEN <<>> ELSE buffer
    /\ terminalAt' = IF Expired(subscribers \ {c}) THEN "none" ELSE terminalAt
    /\ stream' = [stream EXCEPT ![c] = [NoStream EXCEPT !.shown = shown,
                                                        !.opened = stream[c].opened]]

\* mutant: the stream goes on after a terminal event
Yield_Endless(c, e, s) ==
    /\ stream' = [stream EXCEPT ![c] = [s EXCEPT !.next = @ + 1, !.shown = e.run]]
    /\ UNCHANGED <<subscribers, buffer, terminalAt>>

(* The generator yields event e of its source: the stream ends after a     *)
(* terminal one.                                                           *)
Yield(c, e, s) ==
    IF IsTerminal(e) THEN Unsubscribe(c, e.run)
    ELSE /\ stream' = [stream EXCEPT ![c] = [s EXCEPT !.next = @ + 1, !.shown = e.run]]
         /\ UNCHANGED <<subscribers, buffer, terminalAt>>

Replay(c) ==
    /\ stream[c].pc = "replay"
    /\ IF stream[c].todo = <<>>
       THEN /\ stream' = [stream EXCEPT ![c].pc = "live"]
            /\ UNCHANGED <<subscribers, buffer, terminalAt>>
       ELSE Yield(c, Head(stream[c].todo), [stream[c] EXCEPT !.todo = Tail(@)])
    /\ UNCHANGED <<queue, task, run, published>>

Live(c) ==
    /\ stream[c].pc = "live"
    /\ queue[c] # <<>>
    /\ queue' = [queue EXCEPT ![c] = Tail(@)]
    /\ Yield(c, Head(queue[c]), stream[c])
    /\ UNCHANGED <<task, run, published>>

(* The client goes away; the generator is closed where it waits.           *)
Disconnect(c) ==
    /\ stream[c].pc # "off"
    /\ Unsubscribe(c, 0)
    /\ UNCHANGED <<queue, task, run, published>>

Work(r) == StartRun(r) \/ KycAnswer(r) \/ UnderwritingAnswer(r) \/ EndRun(r)

Next ==
    \/ \E r \in Runs : Trigger(r) \/ Work(r)
    \/ \E c \in Clients : Subscribe(c) \/ Replay(c) \/ Live(c) \/ Disconnect(c)
    \/ Expire \/ Sweep

Spec == Init /\ [][Next]_vars
(* The runs' HTTP calls time out, and a stream yields what it can.         *)
FairSpec == /\ Spec
            /\ \A r \in Runs : WF_vars(Work(r))
            /\ \A c \in Clients : WF_vars(Replay(c) \/ Live(c))

-----------------------------------------------------------------------------
Running(r) == run[r] \notin {"new", "done"}
(* Running, and its last event still to come.                              *)
Working(r) == run[r] \in {"accepted", "kyc", "underwriting"}

(* A stream misses nothing, repeats nothing and keeps the order: what is   *)
(* left of a client's history and what is queued for it are the events     *)
(* published since the last one it got, however its replay and the runs'   *)
(* publishing interleave.                                                  *)
NothingIsMissed ==
    \A c \in Clients : stream[c].pc # "off" =>
        stream[c].todo \o queue[c] = SubSeq(published, stream[c].next, Len(published))

(* Where the buffer starts in published.                                   *)
First == Len(published) - Len(buffer) + 1

(* The buffer is the end of what was published, and a client that comes    *)
(* while a run is going on finds in it everything the run has published,   *)
(* or as much as a full buffer holds: the sweep of an earlier run's buffer *)
(* never takes an event of a run that goes on.                             *)
BufferHasRun ==
    /\ buffer = SubSeq(published, First, Len(published))
    /\ \A r \in Runs : Working(r) =>
         \A i \in 1..(First - 1) : published[i].run = r =>
             /\ Len(buffer) = MaxEvents
             /\ \A j \in First..Len(published) : published[j].run = r

(* A finished run has said so: its last event is a terminal one.           *)
RunEndsTerminal ==
    \A r \in Runs : run[r] \in {"closing", "done"} =>
        \E i \in 1..Len(published) :
            /\ published[i].run = r /\ IsTerminal(published[i])
            /\ \A k \in (i + 1)..Len(published) : published[k].run # r

(* A stream that is open while a run goes on ends: its client is not left  *)
(* with heartbeats for ever.                                               *)
StreamEnds ==
    \A c \in Clients, r \in Runs :
        (stream[c].pc # "off" /\ Working(r)) ~> stream[c].pc = "off"

-----------------------------------------------------------------------------
(* The inductive invariant behind the safety properties *)

(* A client's queue is registered while its generator lives; a generator   *)
(* is past its history when it turns to the queue.                         *)
ClientsFit ==
    \A c \in Clients :
        /\ c \in subscribers <=> stream[c].pc # "off"
        /\ stream[c].pc = "live" => stream[c].todo = <<>>
        /\ stream[c].pc # "off" => stream[c].next <= Len(published) + 1

(* One run at a time: while it goes on, nobody else's events follow its    *)
(* own, and the buffer has no terminal time to expire at before its end.   *)
RunsFit ==
    \A r \in Runs :
        /\ run[r] = "new" => \A i \in 1..Len(published) : published[i].run # r
        /\ Running(r) =>
             /\ task = r
             /\ \A i \in 1..Len(published) : published[i].run = r =>
                  \A j \in i..Len(published) : published[j].run = r
        /\ Working(r) => terminalAt = "none"

StreamInv ==
    /\ TypeOK /\ Len(buffer) <= Len(published)
    /\ ClientsFit /\ RunsFit
    /\ NothingIsMissed /\ BufferHasRun /\ RunEndsTerminal
=============================================================================
