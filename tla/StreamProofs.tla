----------------------------- MODULE StreamProofs -----------------------------
(***************************************************************************)
(* Proofs about ProgressStream, for any number of clients and of runs, any *)
(* size of the event buffer and any number of streams a client opens: what *)
(* a stream is sent, what a late client finds, and how a run ends.         *)
(***************************************************************************)
EXTENDS ProgressStream, SequenceTheorems, TLAPS

-----------------------------------------------------------------------------
(* The rest of a sequence from one of its places on.                       *)

From(s, n) == SubSeq(s, n, Len(s))

LEMMA FromFacts ==
    ASSUME NEW S, NEW s \in Seq(S), NEW n \in 1..(Len(s) + 1)
    PROVE  /\ From(s, n) \in Seq(S)
           /\ Len(From(s, n)) = Len(s) - n + 1
           /\ \A i \in 1..(Len(s) - n + 1) : From(s, n)[i] = s[n + i - 1]
  <1>1. Len(s) \in Nat /\ \A i \in n..Len(s) : s[i] \in S
    BY LenProperties
  <1>2. QED
    BY <1>1, SubSeqProperties DEF From

LEMMA FromConcat ==
    ASSUME NEW S, NEW s \in Seq(S), NEW t \in Seq(S), NEW n \in 1..(Len(s) + 1)
    PROVE  From(s \o t, n) = From(s, n) \o t
  <1>1. Len(s) \in Nat /\ Len(t) \in Nat
    BY LenProperties
  <1>2. /\ s \o t \in Seq(S) /\ Len(s \o t) = Len(s) + Len(t)
        /\ \A i \in 1..(Len(s) + Len(t)) :
             (s \o t)[i] = IF i <= Len(s) THEN s[i] ELSE t[i - Len(s)]
    BY ConcatProperties
  <1>3. /\ From(s, n) \in Seq(S) /\ Len(From(s, n)) = Len(s) - n + 1
        /\ \A i \in 1..(Len(s) - n + 1) : From(s, n)[i] = s[n + i - 1]
    BY FromFacts
  <1>4. PICK u \in Seq(S) : u = s \o t /\ Len(u) = Len(s) + Len(t)
    BY <1>2
  <1>5. /\ From(s \o t, n) \in Seq(S) /\ Len(From(s \o t, n)) = Len(s) + Len(t) - n + 1
        /\ \A i \in 1..(Len(s) + Len(t) - n + 1) : From(s \o t, n)[i] = (s \o t)[n + i - 1]
    <2>1. n \in 1..(Len(u) + 1)
      BY <1>1, <1>4
    <2>2. /\ From(u, n) \in Seq(S) /\ Len(From(u, n)) = Len(u) - n + 1
          /\ \A i \in 1..(Len(u) - n + 1) : From(u, n)[i] = u[n + i - 1]
      BY <2>1, FromFacts
    <2>3. QED
      BY <1>4, <2>2
  <1>6. /\ From(s, n) \o t \in Seq(S)
        /\ Len(From(s, n) \o t) = Len(s) - n + 1 + Len(t)
        /\ \A i \in 1..(Len(s) - n + 1 + Len(t)) : (From(s, n) \o t)[i] =
             IF i <= Len(s) - n + 1 THEN From(s, n)[i] ELSE t[i - (Len(s) - n + 1)]
    <2>1. PICK v \in Seq(S) : v = From(s, n) /\ Len(v) = Len(s) - n + 1
      BY <1>3
    <2>2. /\ v \o t \in Seq(S) /\ Len(v \o t) = Len(v) + Len(t)
          /\ \A i \in 1..(Len(v) + Len(t)) :
               (v \o t)[i] = IF i <= Len(v) THEN v[i] ELSE t[i - Len(v)]
      BY ConcatProperties
    <2>3. QED
      BY <2>1, <2>2
  <1>7. Len(From(s \o t, n)) = Len(From(s, n) \o t)
    BY <1>1, <1>5, <1>6
  <1>8. ASSUME NEW i \in 1..Len(From(s \o t, n))
        PROVE  From(s \o t, n)[i] = (From(s, n) \o t)[i]
    <2>1. i \in 1..(Len(s) + Len(t) - n + 1) /\ i \in 1..(Len(s) - n + 1 + Len(t))
      BY <1>1, <1>5
    <2>2. n + i - 1 \in 1..(Len(s) + Len(t))
      BY <1>1, <2>1
    <2>3. CASE i <= Len(s) - n + 1
      <3>1. n + i - 1 <= Len(s) /\ i \in 1..(Len(s) - n + 1)
        BY <1>1, <2>1, <2>3
      <3>2. QED
        BY <1>2, <1>3, <1>5, <1>6, <2>1, <2>2, <2>3, <3>1
    <2>4. CASE ~(i <= Len(s) - n + 1)
      <3>1. ~(n + i - 1 <= Len(s)) /\ n + i - 1 - Len(s) = i - (Len(s) - n + 1)
        BY <1>1, <2>1, <2>4
      <3>2. QED
        BY <1>2, <1>5, <1>6, <2>1, <2>2, <2>4, <3>1
    <2>5. QED
      BY <2>3, <2>4
  <1>9. QED
    BY <1>5, <1>6, <1>7, <1>8, SeqEqual

LEMMA FromTail ==
    ASSUME NEW S, NEW s \in Seq(S), NEW n \in 1..Len(s)
    PROVE  Head(From(s, n)) = s[n] /\ Tail(From(s, n)) = From(s, n + 1)
  BY LenProperties, HeadTailOfSubSeq DEF From

LEMMA FromFrom ==
    ASSUME NEW S, NEW s \in Seq(S), NEW n \in 1..(Len(s) + 1),
           NEW m \in 1..(Len(s) - n + 2)
    PROVE  From(From(s, n), m) = From(s, n + m - 1)
  <1>1. Len(s) \in Nat /\ n + m - 1 \in 1..(Len(s) + 1)
    BY LenProperties
  <1>2. /\ From(s, n) \in Seq(S) /\ Len(From(s, n)) = Len(s) - n + 1
        /\ \A i \in 1..(Len(s) - n + 1) : From(s, n)[i] = s[n + i - 1]
    BY FromFacts
  <1>3. m \in 1..(Len(From(s, n)) + 1)
    BY <1>1, <1>2
  <1>4. /\ From(From(s, n), m) \in Seq(S)
        /\ Len(From(From(s, n), m)) = Len(s) - n + 1 - m + 1
        /\ \A i \in 1..(Len(s) - n + 1 - m + 1) :
             From(From(s, n), m)[i] = From(s, n)[m + i - 1]
    BY <1>2, <1>3, FromFacts
  <1>5. /\ From(s, n + m - 1) \in Seq(S)
        /\ Len(From(s, n + m - 1)) = Len(s) - (n + m - 1) + 1
        /\ \A i \in 1..(Len(s) - (n + m - 1) + 1) :
             From(s, n + m - 1)[i] = s[(n + m - 1) + i - 1]
    BY <1>1, FromFacts
  <1>6. ASSUME NEW i \in 1..Len(From(From(s, n), m))
        PROVE  From(From(s, n), m)[i] = From(s, n + m - 1)[i]
    <2>1. m + i - 1 \in 1..(Len(s) - n + 1) /\ i \in 1..(Len(s) - (n + m - 1) + 1)
      BY <1>1, <1>4
    <2>2. n + (m + i - 1) - 1 = (n + m - 1) + i - 1
      BY <1>1, <1>4
    <2>3. QED
      BY <1>2, <1>4, <1>5, <2>1, <2>2
  <1>7. Len(From(From(s, n), m)) = Len(From(s, n + m - 1))
    BY <1>1, <1>4, <1>5
  <1>8. QED
    BY <1>4, <1>5, <1>6, <1>7, SeqEqual

LEMMA ConcatTail ==
    ASSUME NEW S, NEW s \in Seq(S), NEW t \in Seq(S), s # <<>>
    PROVE  Head(s \o t) = Head(s) /\ Tail(s \o t) = Tail(s) \o t
  <1>1. Len(s) \in Nat \ {0} /\ Len(t) \in Nat
    BY LenProperties, EmptySeq
  <1>2. /\ s \o t \in Seq(S) /\ Len(s \o t) = Len(s) + Len(t)
        /\ (s \o t)[1] = s[1]
    BY <1>1, ConcatProperties
  <1>3. s \o t # <<>>
    BY <1>1, <1>2, EmptySeq
  <1>4. From(s, 2) \o t = From(s \o t, 2)
    <2>1. 2 \in 1..(Len(s) + 1)
      BY <1>1
    <2>2. QED
      BY <2>1, FromConcat
  <1>5. Tail(s) = From(s, 2) /\ Tail(s \o t) = From(s \o t, 2)
    BY <1>2, <1>3, TailIsSubSeq DEF From
  <1>6. QED
    BY <1>2, <1>4, <1>5

(* The same of sequences of events, as facts to be instantiated.           *)
LEMMA EventConcat ==
    \A s, t \in Seq(Event) :
        /\ s \o t \in Seq(Event) /\ Len(s \o t) = Len(s) + Len(t)
        /\ \A i \in 1..(Len(s) + Len(t)) :
             (s \o t)[i] = IF i <= Len(s) THEN s[i] ELSE t[i - Len(s)]
  BY ConcatProperties

LEMMA EventFromConcat ==
    \A s, t \in Seq(Event) : \A n \in 1..(Len(s) + 1) : From(s \o t, n) = From(s, n) \o t
  BY FromConcat

LEMMA EventAssociative == \A x, y, z \in Seq(Event) : x \o (y \o z) = (x \o y) \o z
  BY ConcatAssociative

LEMMA EventLen == \A s \in Seq(Event) : Len(s) \in Nat /\ \A i \in 1..Len(s) : s[i] \in Event
  BY LenProperties

LEMMA EventFrom ==
    \A s \in Seq(Event) : \A n \in 1..(Len(s) + 1) :
        From(s, n) \in Seq(Event) /\ Len(From(s, n)) = Len(s) - n + 1
  BY FromFacts

LEMMA EventFromFrom ==
    \A s \in Seq(Event) : \A n \in 1..(Len(s) + 1) : \A b \in 1..(Len(s) - n + 2) :
        From(From(s, n), b) = From(s, n + b - 1)
  BY FromFrom

LEMMA EventConcatTail ==
    \A s, t \in Seq(Event) : s # <<>> =>
        Tail(s \o t) = Tail(s) \o t /\ s \o t # <<>>
  BY ConcatTail, ConcatEqualIffEmpty

(* The buffer keeps the end of what is put into it.                        *)
LEMMA NewestIsTheEnd ==
    ASSUME NEW s \in Seq(Event)
    PROVE  \E n \in 1..(Len(s) + 1) :
             /\ Newest(s) = From(s, n)
             /\ Newest(s) \in Seq(Event) /\ Len(Newest(s)) = Len(s) - n + 1
             /\ Len(Newest(s)) <= MaxEvents
             /\ n > 1 => Len(Newest(s)) = MaxEvents
  <1> DEFINE k == IF Len(s) < MaxEvents THEN Len(s) ELSE MaxEvents
             n == Len(s) - k + 1
  <1>1. Len(s) \in Nat /\ MaxEvents \in Nat \ {0}
    BY LenProperties, StreamAssumption
  <1>2. /\ n \in 1..(Len(s) + 1) /\ k <= MaxEvents /\ Len(s) - n + 1 = k
        /\ n > 1 => k = MaxEvents
    <2>1. k \in Nat /\ k <= Len(s) /\ k <= MaxEvents /\ (k = Len(s) \/ k = MaxEvents)
      BY <1>1
    <2> HIDE DEF k
    <2>2. QED
      BY <1>1, <2>1
  <1>3. Newest(s) = From(s, n)
    BY DEF Newest, From
  <1> HIDE DEF n, k
  <1>4. From(s, n) \in Seq(Event) /\ Len(From(s, n)) = Len(s) - n + 1
    BY <1>2, FromFacts
  <1>5. QED
    BY <1>2, <1>3, <1>4

(* What a run publishes in one step.                                       *)
LEMMA EventsFacts ==
    ASSUME NEW r \in Runs, NEW names \in Seq(Progress \cup Terminals), names # <<>>
    PROVE  /\ Events(r, names) \in Seq(Event) /\ Events(r, names) # <<>>
           /\ Len(Events(r, names)) = Len(names) /\ Len(names) \in Nat \ {0}
           /\ \A i \in 1..Len(names) : Events(r, names)[i] = [run |-> r, event |-> names[i]]
  <1>1. Len(names) \in Nat \ {0} /\ \A i \in 1..Len(names) : names[i] \in Progress \cup Terminals
    BY LenProperties, EmptySeq
  <1>2. Events(r, names) \in [1..Len(names) -> Event]
    BY <1>1 DEF Events, Event
  <1>3. Events(r, names) \in Seq(Event)
    BY <1>1, <1>2, SeqDef
  <1>4. Len(Events(r, names)) = Len(names)
    BY <1>1, <1>2, <1>3, LenProperties
  <1>5. QED
    BY <1>1, <1>3, <1>4, EmptySeq DEF Events

(* Publishing keeps the buffer the end of what was published.              *)
LEMMA BufferMoves ==
    ASSUME NEW old \in Seq(Event), NEW events \in Seq(Event), NEW f \in 1..(Len(old) + 1)
    PROVE  \E g \in f..(Len(old) + Len(events) + 1) :
             LET kept == Newest(From(old, f) \o events)
             IN  /\ kept = From(old \o events, g)
                 /\ kept \in Seq(Event) /\ Len(kept) = Len(old) + Len(events) - g + 1
                 /\ Len(kept) <= MaxEvents
                 /\ g > f => Len(kept) = MaxEvents
  <1>1. PICK n \in Nat, m \in Nat : n = Len(old) /\ m = Len(events)
    BY LenProperties
  <1>2. PICK all \in Seq(Event) : all = old \o events /\ Len(all) = n + m
    BY <1>1, EventConcat
  <1>3. PICK rest \in Seq(Event) : rest = From(old, f) \o events /\ rest = From(all, f)
    <2>1. From(old \o events, f) = From(old, f) \o events /\ From(old, f) \in Seq(Event)
      BY EventFromConcat, EventFrom
    <2>2. QED
      BY <1>2, <2>1, EventConcat
  <1>4. f \in 1..(Len(all) + 1)
    BY <1>1, <1>2
  <1>5. Len(rest) = n + m - f + 1
    <2>1. Len(From(all, f)) = Len(all) - f + 1
      BY <1>4, EventFrom
    <2>2. QED
      BY <1>2, <1>3, <2>1
  <1>6. PICK b \in 1..(Len(rest) + 1) :
           /\ Newest(rest) = From(rest, b)
           /\ Newest(rest) \in Seq(Event) /\ Len(Newest(rest)) = Len(rest) - b + 1
           /\ Len(Newest(rest)) <= MaxEvents
           /\ b > 1 => Len(Newest(rest)) = MaxEvents
    BY NewestIsTheEnd
  <1>7. PICK g \in f..(n + m + 1) :
           g = f + b - 1 /\ (g > f => b > 1) /\ Len(rest) - b + 1 = n + m - g + 1
    BY <1>1, <1>5, <1>6
  <1>8. b \in 1..(Len(all) - f + 2)
    BY <1>1, <1>2, <1>5
  <1>9. From(From(all, f), b) = From(all, g)
    BY <1>4, <1>7, <1>8, EventFromFrom
  <1>10. QED
    BY <1>1, <1>2, <1>3, <1>6, <1>7, <1>9

-----------------------------------------------------------------------------
(* A step of a run: it publishes some events, the last of which is a       *)
(* terminal one exactly if it is the last step that publishes.             *)
LEMMA PublishStep ==
    ASSUME StreamInv, NEW r \in Runs, NEW pc \in {"accepted", "kyc", "underwriting", "closing"},
           NEW events \in Seq(Event), events # <<>>,
           \A i \in 1..Len(events) : events[i].run = r,
           pc = "closing" <=> IsTerminal(events[Len(events)]),
           Publish(events), run' = [run EXCEPT ![r] = pc], task' = r,
           UNCHANGED <<subscribers, stream>>,
           Working(r) \/ run[r] = "new",
           \A q \in Runs \ {r} : ~Running(q)
    PROVE  StreamInv'
  <1>1. /\ TypeOK /\ ClientsFit /\ RunsFit /\ NothingIsMissed /\ BufferHasRun /\ RunEndsTerminal
        /\ Len(buffer) <= Len(published)
    BY DEF StreamInv
  <1>2. /\ buffer \in Seq(Event) /\ published \in Seq(Event) /\ run \in [Runs -> RunStates]
        /\ queue \in [Clients -> Seq(Event)] /\ stream \in [Clients -> Stream]
        /\ subscribers \subseteq Clients /\ Len(buffer) \in Nat
    BY <1>1, LenProperties DEF TypeOK
  <1>3. PICK n \in Nat, m \in Nat \ {0} : n = Len(published) /\ m = Len(events)
    BY <1>2, LenProperties, EmptySeq
  <1>4. /\ published' = published \o events /\ published' \in Seq(Event)
        /\ Len(published') = n + m
        /\ \A i \in 1..n : published'[i] = published[i]
        /\ \A i \in (n + 1)..(n + m) : published'[i].run = r
        /\ published'[n + m] = events[m] /\ published'[n + m].run = r
    <2>1. /\ published \o events \in Seq(Event) /\ Len(published \o events) = n + m
          /\ \A i \in 1..(n + m) : (published \o events)[i] =
               IF i <= n THEN published[i] ELSE events[i - n]
      BY <1>2, <1>3, ConcatProperties
    <2>2. published' = published \o events
      BY DEF Publish
    <2>3. ASSUME NEW i \in (n + 1)..(n + m)  PROVE published'[i].run = r
      <3>1. i \in 1..(n + m) /\ ~(i <= n) /\ i - n \in 1..Len(events)
        BY <1>3
      <3>2. published'[i] = events[i - n]
        BY <2>1, <2>2, <3>1
      <3>3. QED
        BY <3>1, <3>2
    <2>4. published'[n + m] = events[m]
      <3>1. n + m \in 1..(n + m) /\ ~(n + m <= n) /\ (n + m) - n = m
        BY <1>3
      <3>2. QED
        BY <2>1, <2>2, <3>1
    <2>5. \A i \in 1..n : i \in 1..(n + m) /\ i <= n
      BY <1>3
    <2>6. n + m \in (n + 1)..(n + m)
      BY <1>3
    <2>7. QED
      BY <2>1, <2>2, <2>3, <2>4, <2>5, <2>6
  <1>5. PICK kept \in Seq(Event), f \in 1..(n + 1) :
           /\ kept = IF Expired(subscribers) THEN <<>> ELSE buffer
           /\ kept = From(published, f) /\ f = n - Len(kept) + 1
           /\ kept = buffer \/ terminalAt = "expired"
    <2>1. CASE Expired(subscribers)
      <3>1. From(published, n + 1) = <<>> /\ n + 1 \in 1..(n + 1) /\ n + 1 = n - 0 + 1
        BY <1>3, SubSeqEmpty DEF From
      <3>2. <<>> \in Seq(Event) /\ Len(<<>>) = 0
        BY EmptySeq
      <3>3. QED
        BY <2>1, <3>1, <3>2 DEF Expired
    <2>2. CASE ~Expired(subscribers)
      <3>1. First \in 1..(n + 1) /\ First = n - Len(buffer) + 1
        BY <1>1, <1>2, <1>3 DEF First
      <3>2. buffer = From(published, First)
        BY <1>1, <1>3 DEF BufferHasRun, From
      <3>3. QED
        BY <1>2, <2>2, <3>1, <3>2
    <2>3. QED
      BY <2>1, <2>2
  <1>6. PICK g \in f..(n + m + 1) :
           /\ buffer' = From(published', g)
           /\ buffer' \in Seq(Event) /\ Len(buffer') = n + m - g + 1
           /\ Len(buffer') <= MaxEvents /\ (g > f => Len(buffer') = MaxEvents)
    <2>1. /\ f \in 1..(Len(published) + 1) /\ published \in Seq(Event)
          /\ buffer' = Newest(From(published, f) \o events)
      BY <1>2, <1>3, <1>5 DEF Publish
    <2>2. PICK g \in f..(Len(published) + Len(events) + 1) :
             LET now == Newest(From(published, f) \o events)
             IN  /\ now = From(published \o events, g)
                 /\ now \in Seq(Event)
                 /\ Len(now) = Len(published) + Len(events) - g + 1
                 /\ Len(now) <= MaxEvents
                 /\ g > f => Len(now) = MaxEvents
      <3>1. events \in Seq(Event)
        OBVIOUS
      <3>2. QED
        BY ONLY <2>1, <3>1, BufferMoves
    <2>3. QED
      BY <1>3, <1>4, <2>1, <2>2
  <1>7. First' = g
    <2>1. Len(published') - Len(buffer') + 1 = g
      BY <1>3, <1>4, <1>5, <1>6
    <2>2. QED
      BY <2>1 DEF First
  <1>8. Len(buffer') <= Len(published') /\ Len(buffer') \in Nat
    BY <1>3, <1>4, <1>5, <1>6
  <1>9. run'[r] = pc /\ \A q \in Runs \ {r} : run'[q] = run[q] /\ ~Running(q)
    BY <1>2
  <1>10. TypeOK'
    <2>1. queue' \in [Clients -> Seq(Event)]
      BY <1>2, ConcatProperties DEF Publish
    <2>2. run' \in [Runs -> RunStates]
      BY <1>2 DEF RunStates
    <2>3. terminalAt' \in {"none", "fresh", "expired"}
      BY DEF Publish
    <2>4. QED
      BY <1>1, <1>4, <1>6, <2>1, <2>2, <2>3 DEF TypeOK
  <1>11. RunsFit'
    <2>1. ASSUME NEW q \in Runs \ {r}, NEW i \in 1..(n + m), run[q] = "new"
          PROVE  published'[i].run # q
      <3>1. CASE i <= n
        BY <1>1, <1>3, <1>4, <2>1, <3>1 DEF RunsFit
      <3>2. CASE i > n
        BY <1>3, <1>4, <3>2
      <3>3. QED
        BY <1>3, <3>1, <3>2
    <2>2. ASSUME NEW i \in 1..(n + m), NEW j \in i..(n + m), published'[i].run = r
          PROVE  published'[j].run = r
      <3>1. CASE j > n
        BY <1>3, <1>4, <3>1
      <3>2. CASE j <= n
        <4>1. i \in 1..n /\ j \in i..n /\ published[i].run = r /\ published'[j] = published[j]
          BY <1>3, <1>4, <2>2, <3>2
        <4>2. Running(r)
          BY <1>1, <1>3, <4>1 DEF RunsFit, Working, Running
        <4>3. QED
          BY <1>1, <1>3, <4>1, <4>2 DEF RunsFit
      <3>3. QED
        BY <1>3, <3>1, <3>2
    <2>3. pc # "closing" => terminalAt' = "none"
      BY DEF Publish
    <2>4. ASSUME NEW q \in Runs \ {r}
          PROVE  /\ run'[q] = "new" => \A i \in 1..Len(published') : published'[i].run # q
                 /\ ~Running(q)' /\ ~Working(q)'
      BY <1>4, <1>9, <2>1 DEF Running, Working
    <2>5. /\ run'[r] # "new" /\ task' = r
          /\ \A i \in 1..Len(published') : published'[i].run = r =>
                \A j \in i..Len(published') : published'[j].run = r
          /\ Working(r)' => terminalAt' = "none"
      BY <1>4, <1>9, <2>2, <2>3 DEF Working
    <2>6. QED
      BY <2>4, <2>5 DEF RunsFit
  <1>12. BufferHasRun'
    <2>1. ASSUME NEW i \in 1..(First' - 1), published'[i].run = r
          PROVE  /\ Len(buffer') = MaxEvents
                 /\ \A j \in First'..(n + m) : published'[j].run = r
      <3>1. i \in 1..(n + m) /\ First' \in Nat /\ i < First' /\ First' <= n + m + 1
        BY <1>3, <1>5, <1>6, <1>7
      <3>2. Running(r)'
        BY <1>9 DEF Running
      <3>3. \A j \in First'..(n + m) : j \in i..(n + m)
        BY <1>3, <3>1
      <3>4. \A j \in First'..(n + m) : published'[j].run = r
        BY <1>4, <1>11, <2>1, <3>1, <3>2, <3>3 DEF RunsFit
      <3>5. g > f
        <4>1. CASE i >= f
          BY <1>5, <1>6, <1>7, <3>1, <4>1
        <4>2. CASE i < f
          <5>1. i \in 1..n /\ published[i].run = r
            BY <1>3, <1>4, <1>5, <2>1, <3>1, <4>2
          <5>2. Working(r)
            BY <1>1, <1>3, <5>1 DEF RunsFit
          <5>3. kept = buffer
            BY <1>1, <1>5, <5>2 DEF RunsFit
          <5>4. First = f
            BY <1>3, <1>5, <5>3 DEF First
          <5>5. i \in 1..(First - 1)
            BY <1>3, <1>5, <4>2, <5>1, <5>4
          <5>6. Len(kept) = MaxEvents
            BY <1>1, <5>1, <5>2, <5>3, <5>5 DEF BufferHasRun
          <5>7. QED
            BY <1>2, <1>3, <1>5, <1>6, <5>3, <5>6
        <4>3. QED
          BY <1>5, <3>1, <4>1, <4>2
      <3>6. QED
        BY <1>6, <3>4, <3>5
    <2>2. buffer' = SubSeq(published', First', Len(published'))
      BY <1>6, <1>7 DEF From
    <2>3. \A q \in Runs : Working(q)' => q = r
      BY <1>9 DEF Working, Running
    <2>4. QED
      BY <1>4, <2>1, <2>2, <2>3 DEF BufferHasRun
  <1>13. NothingIsMissed'
    <2>1. ASSUME NEW c \in Clients, stream[c].pc # "off"
          PROVE  stream[c].todo \o queue'[c] =
                   SubSeq(published', stream[c].next, Len(published'))
      <3>1. /\ stream[c].todo \in Seq(Event) /\ queue[c] \in Seq(Event)
            /\ stream[c].next \in 1..(n + 1)
        BY <1>1, <1>2, <1>3, <2>1 DEF Stream, ClientsFit
      <3>2. queue'[c] = queue[c] \o events
        BY <1>1, <2>1 DEF ClientsFit, Publish
      <3>3. stream[c].todo \o queue[c] = From(published, stream[c].next)
        BY <1>1, <2>1 DEF NothingIsMissed, From
      <3>4. From(published', stream[c].next) = From(published, stream[c].next) \o events
        <4>1. stream[c].next \in 1..(Len(published) + 1)
          BY <1>3, <3>1
        <4>2. QED
          BY <1>2, <1>4, <4>1, EventFromConcat
      <3>5. stream[c].todo \o (queue[c] \o events) = (stream[c].todo \o queue[c]) \o events
        BY <3>1, EventAssociative
      <3>6. QED
        BY <3>2, <3>3, <3>4, <3>5 DEF From
    <2>2. QED
      BY <2>1 DEF NothingIsMissed
  <1>14. ClientsFit'
    BY <1>1, <1>2, <1>3, <1>4 DEF ClientsFit, Stream
  <1>15. RunEndsTerminal'
    <2>1. ASSUME NEW q \in Runs \ {r}, run[q] \in {"closing", "done"}
          PROVE  \E i \in 1..(n + m) :
                   /\ published'[i].run = q /\ IsTerminal(published'[i])
                   /\ \A k \in (i + 1)..(n + m) : published'[k].run # q
      <3>1. PICK i \in 1..n : /\ published[i].run = q /\ IsTerminal(published[i])
                              /\ \A k \in (i + 1)..n : published[k].run # q
        BY <1>1, <1>3, <2>1 DEF RunEndsTerminal
      <3>2. ASSUME NEW k \in (i + 1)..(n + m)  PROVE published'[k].run # q
        <4>1. CASE k <= n
          BY <1>3, <1>4, <3>1, <4>1
        <4>2. CASE k > n
          BY <1>3, <1>4, <4>2
        <4>3. QED
          BY <1>3, <4>1, <4>2
      <3>3. i \in 1..(n + m) /\ published'[i] = published[i]
        BY <1>3, <1>4
      <3>4. QED
        BY <3>1, <3>2, <3>3
    <2>2. ASSUME pc = "closing"
          PROVE  \E i \in 1..(n + m) :
                   /\ published'[i].run = r /\ IsTerminal(published'[i])
                   /\ \A k \in (i + 1)..(n + m) : published'[k].run # r
      <3>1. n + m \in 1..(n + m) /\ \A k \in (n + m + 1)..(n + m) : FALSE
        BY <1>3
      <3>2. IsTerminal(published'[n + m])
        BY <1>3, <1>4, <2>2
      <3>3. QED
        BY <1>4, <3>1, <3>2
    <2>3. ASSUME NEW q \in Runs, run'[q] \in {"closing", "done"}
          PROVE  \E i \in 1..(n + m) :
                   /\ published'[i].run = q /\ IsTerminal(published'[i])
                   /\ \A k \in (i + 1)..(n + m) : published'[k].run # q
      <3>1. CASE q = r
        BY <1>9, <2>2, <2>3, <3>1
      <3>2. CASE q # r
        BY <1>9, <2>1, <2>3, <3>2
      <3>3. QED
        BY <3>1, <3>2
    <2>4. \A q \in Runs : run'[q] \in {"closing", "done"} =>
             \E i \in 1..Len(published') :
                 /\ published'[i].run = q /\ IsTerminal(published'[i])
                 /\ \A k \in (i + 1)..Len(published') : published'[k].run # q
      <3>1. Len(published') = n + m
        BY <1>4
      <3>2. QED
        BY ONLY <2>3, <3>1, Zenon
    <2>5. QED
      BY ONLY <2>4 DEF RunEndsTerminal, IsTerminal
  <1>16. QED
    BY <1>8, <1>10, <1>11, <1>12, <1>13, <1>14, <1>15 DEF StreamInv

LEMMA OneName ==
    ASSUME NEW a \in Progress \cup Terminals
    PROVE  /\ <<a>> \in Seq(Progress \cup Terminals) /\ <<a>> # <<>>
           /\ Len(<<a>>) = 1 /\ <<a>>[Len(<<a>>)] = a
  OBVIOUS

LEMMA TwoNames ==
    ASSUME NEW a \in Progress \cup Terminals, NEW b \in Progress \cup Terminals
    PROVE  /\ <<a, b>> \in Seq(Progress \cup Terminals) /\ <<a, b>> # <<>>
           /\ Len(<<a, b>>) = 2 /\ <<a, b>>[Len(<<a, b>>)] = b
  OBVIOUS

(* The events of one step, as PublishStep wants them.                      *)
LEMMA NamesPublished ==
    ASSUME NEW r \in Runs, NEW names \in Seq(Progress \cup Terminals), names # <<>>
    PROVE  \E events \in Seq(Event) :
             /\ events = Events(r, names) /\ events # <<>>
             /\ \A i \in 1..Len(events) : events[i].run = r
             /\ IsTerminal(events[Len(events)]) <=> names[Len(names)] \in Terminals
  <1>1. PICK events \in Seq(Event) :
           /\ events = Events(r, names) /\ events # <<>>
           /\ Len(events) = Len(names) /\ Len(names) \in Nat \ {0}
           /\ \A i \in 1..Len(names) : events[i] = [run |-> r, event |-> names[i]]
    BY EventsFacts
  <1>2. Len(names) \in 1..Len(names)
    BY <1>1
  <1>3. events[Len(names)] = [run |-> r, event |-> names[Len(names)]]
    BY <1>1, <1>2
  <1>4. events[Len(events)].event = names[Len(names)]
    BY <1>1, <1>3
  <1>5. ASSUME NEW i \in 1..Len(events)  PROVE events[i].run = r
    <2>1. events[i] = [run |-> r, event |-> names[i]]
      BY <1>1
    <2>2. QED
      BY <2>1
  <1>6. IsTerminal(events[Len(events)]) <=> names[Len(names)] \in Terminals
    BY <1>4 DEF IsTerminal
  <1>7. QED
    BY <1>1, <1>5, <1>6

LEMMA WorkStep ==
    ASSUME StreamInv, NEW r \in Runs, NEW from \in {"accepted", "kyc", "underwriting"},
           NEW pc \in {"kyc", "underwriting", "closing"},
           NEW names \in Seq(Progress \cup Terminals), names # <<>>,
           pc = "closing" <=> names[Len(names)] \in Terminals,
           RunStep(r, from, pc, names)
    PROVE  StreamInv'
  <1>1. PICK events \in Seq(Event) :
           /\ events = Events(r, names) /\ events # <<>>
           /\ \A i \in 1..Len(events) : events[i].run = r
           /\ IsTerminal(events[Len(events)]) <=> names[Len(names)] \in Terminals
    BY NamesPublished
  <1>2. /\ run[r] = from /\ Publish(events) /\ run' = [run EXCEPT ![r] = pc]
        /\ UNCHANGED <<subscribers, stream>> /\ task' = task
    BY <1>1 DEF RunStep
  <1>3. \A q \in Runs : Running(q) => task = q
    BY DEF StreamInv, RunsFit
  <1>4. Working(r) /\ Running(r)
    BY <1>2 DEF Working, Running
  <1>5. task' = r /\ \A q \in Runs \ {r} : ~Running(q)
    BY <1>2, <1>3, <1>4
  <1>6. QED
    BY <1>1, <1>2, <1>4, <1>5, PublishStep

LEMMA TriggerStep ==
    ASSUME StreamInv, NEW r \in Runs, Trigger(r)
    PROVE  StreamInv'
  <1> DEFINE names == <<"PIPELINE_ACCEPTED">>
  <1>1. /\ names \in Seq(Progress \cup Terminals) /\ names # <<>>
        /\ names[Len(names)] = "PIPELINE_ACCEPTED"
    BY OneName DEF Progress
  <1>2. "PIPELINE_ACCEPTED" \notin Terminals
    BY DEF Terminals
  <1>3. /\ run[r] = "new" /\ Publish(Events(r, names)) /\ run' = [run EXCEPT ![r] = "accepted"]
        /\ UNCHANGED <<subscribers, stream>> /\ task' = r
        /\ task = 0 \/ run[task] = "done"
    BY DEF Trigger
  <1> HIDE DEF names
  <1>4. PICK events \in Seq(Event) :
           /\ events = Events(r, names) /\ events # <<>>
           /\ \A i \in 1..Len(events) : events[i].run = r
           /\ IsTerminal(events[Len(events)]) <=> names[Len(names)] \in Terminals
    BY <1>1, NamesPublished
  <1>5. \A q \in Runs : Running(q) => task = q
    BY DEF StreamInv, RunsFit
  <1>6. \A q \in Runs : q # 0
    BY DEF Runs
  <1>7. \A q \in Runs \ {r} : ~Running(q)
    BY <1>3, <1>5, <1>6 DEF Running
  <1>8. QED
    BY <1>1, <1>2, <1>3, <1>4, <1>7, PublishStep

LEMMA WorkSteps ==
    ASSUME StreamInv, NEW r \in Runs,
           StartRun(r) \/ KycAnswer(r) \/ UnderwritingAnswer(r)
    PROVE  StreamInv'
  <1>1. ASSUME NEW from \in {"accepted", "kyc", "underwriting"}, NEW e \in Terminals,
               RunStep(r, from, "closing", <<e>>)
        PROVE  StreamInv'
    BY <1>1, OneName, WorkStep
  <1>2. ASSUME NEW from \in {"accepted", "kyc", "underwriting"},
               NEW a \in Progress \cup Terminals, NEW e \in Terminals,
               RunStep(r, from, "closing", <<a, e>>)
        PROVE  StreamInv'
    BY <1>2, TwoNames, WorkStep
  <1>3. CASE RunStep(r, "accepted", "kyc", <<"KYC_TRIGGERED">>)
    <2>1. "KYC_TRIGGERED" \in Progress \ Terminals
      BY DEF Progress, Terminals
    <2>2. QED
      BY <1>3, <2>1, OneName, WorkStep
  <1>4. CASE RunStep(r, "kyc", "underwriting", <<"KYC_PASSED", "UNDERWRITING_STARTED">>)
    <2>1. "KYC_PASSED" \in Progress /\ "UNDERWRITING_STARTED" \in Progress \ Terminals
      BY DEF Progress, Terminals
    <2>2. QED
      BY <1>4, <2>1, TwoNames, WorkStep
  <1>5. /\ {"KYC_FAILED", "UNDERWRITING_FAILED", "APPLICATION_DECLINED", "APPLICATION_APPROVED",
            "COUNTER_OFFER_PENDING", "PIPELINE_FAILED"} \subseteq Terminals
        /\ "KYC_PASSED" \in Progress
    BY DEF Progress, Terminals
  <1>6. CASE StartRun(r)
    BY <1>1, <1>3, <1>5, <1>6 DEF StartRun
  <1>7. CASE KycAnswer(r)
    BY <1>1, <1>2, <1>4, <1>5, <1>7 DEF KycAnswer
  <1>8. CASE UnderwritingAnswer(r)
    BY <1>1, <1>2, <1>5, <1>8 DEF UnderwritingAnswer
  <1>9. QED
    BY <1>6, <1>7, <1>8

LEMMA EndRunStep ==
    ASSUME StreamInv, NEW r \in Runs, EndRun(r)
    PROVE  StreamInv'
  <1>1. /\ TypeOK /\ ClientsFit /\ RunsFit /\ NothingIsMissed /\ BufferHasRun /\ RunEndsTerminal
        /\ Len(buffer) <= Len(published)
    BY DEF StreamInv
  <1>2. /\ run[r] = "closing" /\ run' = [run EXCEPT ![r] = "done"] /\ task' = 0
        /\ buffer' = buffer /\ terminalAt' = terminalAt /\ published' = published
        /\ subscribers' = subscribers /\ queue' = queue /\ stream' = stream
    BY DEF EndRun, brokerVars, clientVars
  <1>3. /\ run'[r] = "done" /\ \A q \in Runs \ {r} : run'[q] = run[q]
        /\ run' \in [Runs -> RunStates]
    BY <1>1, <1>2 DEF TypeOK, RunStates
  <1>4. \A q \in Runs \ {r} : ~Running(q)
    BY <1>1, <1>2 DEF RunsFit, Running
  <1>5. TypeOK'
    BY <1>1, <1>2, <1>3 DEF TypeOK
  <1>6. ClientsFit' /\ NothingIsMissed'
    BY <1>1, <1>2 DEF ClientsFit, NothingIsMissed
  <1>7. RunsFit'
    BY <1>1, <1>2, <1>3, <1>4 DEF RunsFit, Running, Working
  <1>8. \A q \in Runs : ~Working(q)'
    BY <1>3, <1>4 DEF Working, Running
  <1>9. BufferHasRun'
    BY <1>1, <1>2, <1>8 DEF BufferHasRun, First
  <1>10. RunEndsTerminal'
    BY <1>1, <1>2, <1>3 DEF RunEndsTerminal, IsTerminal
  <1>11. QED
    BY <1>1, <1>2, <1>5, <1>6, <1>7, <1>9, <1>10 DEF StreamInv

-----------------------------------------------------------------------------
(* Clients and the sweep *)

(* The buffer is left alone, or dropped once a run has ended.              *)
Swept ==
    /\ published' = published /\ run' = run /\ task' = task
    /\ \/ buffer' = buffer /\ terminalAt' = terminalAt
       \/ /\ terminalAt # "none" /\ buffer' \in {buffer, <<>>}
          /\ terminalAt' \in {"none", "expired"}

LEMMA SweptStep ==
    ASSUME StreamInv, Swept
    PROVE  /\ RunsFit' /\ BufferHasRun' /\ RunEndsTerminal'
           /\ Len(buffer') <= Len(published')
           /\ buffer' \in Seq(Event) /\ Len(buffer') <= MaxEvents
           /\ terminalAt' \in {"none", "fresh", "expired"}
  <1>1. /\ RunsFit /\ BufferHasRun /\ RunEndsTerminal
        /\ Len(buffer) <= Len(published) /\ Len(published) \in Nat
        /\ buffer \in Seq(Event) /\ Len(buffer) <= MaxEvents
        /\ terminalAt \in {"none", "fresh", "expired"}
    BY EventLen DEF StreamInv, TypeOK
  <1>2. published' = published /\ run' = run /\ task' = task
    BY DEF Swept
  <1>3. <<>> \in Seq(Event) /\ Len(<<>>) = 0 /\ MaxEvents \in Nat
    BY EmptySeq, StreamAssumption
  <1>4. RunsFit'
    BY <1>1, <1>2 DEF Swept, RunsFit, Running, Working
  <1>5. RunEndsTerminal'
    BY <1>1, <1>2 DEF RunEndsTerminal, IsTerminal
  <1>6. CASE buffer' = buffer
    <2>1. BufferHasRun'
      BY <1>1, <1>2, <1>6 DEF BufferHasRun, First, Working
    <2>2. QED
      BY <1>1, <1>2, <1>4, <1>5, <1>6, <2>1 DEF Swept
  <1>7. CASE buffer' = <<>> /\ terminalAt # "none"
    <2>1. \A r \in Runs : ~Working(r)'
      BY <1>1, <1>2, <1>7 DEF RunsFit, Working
    <2>2. First' = Len(published') + 1
      BY <1>1, <1>2, <1>3, <1>7 DEF First
    <2>3. SubSeq(published', First', Len(published')) = <<>>
      BY <1>1, <1>2, <2>2, SubSeqEmpty
    <2>4. BufferHasRun'
      BY <1>7, <2>1, <2>3 DEF BufferHasRun
    <2>5. Len(buffer') <= Len(published') /\ Len(buffer') <= MaxEvents /\ buffer' \in Seq(Event)
      BY <1>1, <1>2, <1>3, <1>7
    <2>6. QED
      BY <1>1, <1>4, <1>5, <2>4, <2>5 DEF Swept
  <1>8. QED
    BY <1>6, <1>7 DEF Swept

(* What a client's generator s and its queue q must be.                    *)
Follows(s, q) ==
    /\ s.pc = "live" => s.todo = <<>>
    /\ s.pc # "off" => /\ s.next <= Len(published) + 1
                       /\ s.todo \o q = From(published, s.next)

LEMMA ClientStep ==
    ASSUME StreamInv, Swept, NEW c \in Clients, NEW s \in Stream, NEW q \in Seq(Event),
           stream' = [stream EXCEPT ![c] = s], queue' = [queue EXCEPT ![c] = q],
           subscribers' = IF s.pc = "off" THEN subscribers \ {c} ELSE subscribers \cup {c},
           Follows(s, q)
    PROVE  StreamInv'
  <1>1. /\ TypeOK /\ ClientsFit /\ NothingIsMissed /\ published' = published
        /\ run' = run /\ task' = task
    BY DEF StreamInv, Swept
  <1>2. \A d \in Clients : /\ stream'[d] = IF d = c THEN s ELSE stream[d]
                           /\ queue'[d] = IF d = c THEN q ELSE queue[d]
    BY <1>1 DEF TypeOK
  <1>3. TypeOK'
    <2>1. stream' \in [Clients -> Stream] /\ queue' \in [Clients -> Seq(Event)]
      BY <1>1 DEF TypeOK
    <2>2. subscribers' \subseteq Clients
      BY <1>1 DEF TypeOK
    <2>3. QED
      BY <1>1, <2>1, <2>2, SweptStep DEF TypeOK
  <1>4. ClientsFit'
    BY <1>1, <1>2 DEF ClientsFit, Follows
  <1>5. NothingIsMissed'
    BY <1>1, <1>2 DEF NothingIsMissed, Follows, From
  <1>6. QED
    BY <1>3, <1>4, <1>5, SweptStep DEF StreamInv

(* The generator yields an event and goes on with what is left, or ends.   *)
LEMMA YieldStep ==
    ASSUME StreamInv, NEW c \in Clients, NEW e \in Event, NEW s \in Stream, NEW q \in Seq(Event),
           Yield(c, e, s), queue' = [queue EXCEPT ![c] = q],
           UNCHANGED <<task, run, published>>,
           stream[c].pc # "off", s.pc = stream[c].pc, s.opened = stream[c].opened,
           s.pc = "live" => s.todo = <<>>,
           s.next + 1 <= Len(published) + 1, s.todo \o q = From(published, s.next + 1)
    PROVE  StreamInv'
  <1>1. /\ stream \in [Clients -> Stream] /\ e.run \in Runs
        /\ c \in subscribers /\ s.next \in Nat \ {0} /\ s.opened \in 0..MaxStreams
    BY DEF StreamInv, TypeOK, ClientsFit, Stream, Event
  <1>2. CASE IsTerminal(e)
    <2> DEFINE end == [NoStream EXCEPT !.shown = e.run, !.opened = s.opened]
    <2>1. end \in Stream /\ end.pc = "off"
      <3>1. /\ e.run \in Runs /\ s.opened \in 0..MaxStreams /\ <<>> \in Seq(Event)
            /\ 1 \in Nat \ {0}
        BY <1>1, EmptySeq
      <3>2. QED
        BY ONLY <3>1 DEF NoStream, Stream
    <2>2. /\ stream' = [stream EXCEPT ![c] = end] /\ subscribers' = subscribers \ {c}
          /\ buffer' = IF Expired(subscribers \ {c}) THEN <<>> ELSE buffer
          /\ terminalAt' = IF Expired(subscribers \ {c}) THEN "none" ELSE terminalAt
      BY <1>2 DEF Yield, Unsubscribe
    <2> HIDE DEF end
    <2>3. Swept
      BY <2>2 DEF Swept, Expired
    <2>4. Follows(end, q)
      BY <2>1 DEF Follows
    <2>5. QED
      BY <2>1, <2>2, <2>3, <2>4, ClientStep
  <1>3. CASE ~IsTerminal(e)
    <2> DEFINE on == [s EXCEPT !.next = @ + 1, !.shown = e.run]
    <2>1. /\ on \in Stream /\ on.pc = s.pc /\ on.next = s.next + 1 /\ on.todo = s.todo
      <3>1. s.next + 1 \in Nat \ {0} /\ e.run \in Runs /\ s \in Stream
        BY <1>1
      <3>2. QED
        BY ONLY <3>1 DEF Stream
    <2>2. /\ stream' = [stream EXCEPT ![c] = on] /\ subscribers' = subscribers \cup {c}
          /\ buffer' = buffer /\ terminalAt' = terminalAt
      BY <1>1, <1>3 DEF Yield
    <2> HIDE DEF on
    <2>3. Swept
      BY <2>2 DEF Swept
    <2>4. Follows(on, q)
      BY <2>1 DEF Follows
    <2>5. QED
      BY <2>1, <2>2, <2>3, <2>4, ClientStep
  <1>4. QED
    BY <1>2, <1>3

LEMMA StreamTypes ==
    ASSUME StreamInv, NEW c \in Clients
    PROVE  /\ stream \in [Clients -> Stream] /\ queue \in [Clients -> Seq(Event)]
           /\ stream[c] \in Stream /\ queue[c] \in Seq(Event) /\ stream[c].todo \in Seq(Event)
           /\ stream[c].next \in Nat \ {0} /\ Len(published) \in Nat
           /\ published \in Seq(Event)
           /\ stream[c].pc # "off" =>
                /\ stream[c].next \in 1..(Len(published) + 1) /\ c \in subscribers
                /\ stream[c].todo \o queue[c] = From(published, stream[c].next)
           /\ stream[c].pc = "live" => stream[c].todo = <<>>
  BY EventLen DEF StreamInv, TypeOK, Stream, ClientsFit, NothingIsMissed, From

(* What the generator yields next is the next event published, and what is *)
(* left after it are the events after that one.                            *)
LEMMA NextEvent ==
    ASSUME StreamInv, NEW c \in Clients, stream[c].pc # "off",
           stream[c].todo \o queue[c] # <<>>
    PROVE  /\ stream[c].next + 1 <= Len(published) + 1
           /\ Head(stream[c].todo \o queue[c]) \in Event
           /\ Tail(stream[c].todo \o queue[c]) = From(published, stream[c].next + 1)
  <1>1. PICK n \in 1..(Len(published) + 1) :
           n = stream[c].next /\ stream[c].todo \o queue[c] = From(published, n)
    BY StreamTypes
  <1>2. published \in Seq(Event) /\ Len(published) \in Nat
    BY StreamTypes
  <1>3. Len(From(published, n)) = Len(published) - n + 1 /\ From(published, n) \in Seq(Event)
    BY <1>2, EventFrom
  <1>4. Len(From(published, n)) # 0
    BY <1>1, <1>3, EmptySeq
  <1>5. n \in 1..Len(published)
    BY <1>2, <1>3, <1>4
  <1>6. Head(From(published, n)) = published[n] /\ Tail(From(published, n)) = From(published, n + 1)
    BY <1>2, <1>5, FromTail
  <1>7. published[n] \in Event
    BY <1>2, <1>5, EventLen
  <1>8. QED
    BY <1>1, <1>2, <1>5, <1>6, <1>7

LEMMA ReplayStep ==
    ASSUME StreamInv, NEW c \in Clients, Replay(c)
    PROVE  StreamInv'
  <1>1. /\ stream[c].pc = "replay" /\ queue' = queue
        /\ UNCHANGED <<task, run, published>>
    BY DEF Replay
  <1>2. PICK s \in Stream, q \in Seq(Event) :
           /\ s = stream[c] /\ q = queue[c] /\ s.todo \in Seq(Event) /\ s.next \in Nat \ {0}
           /\ s.next \in 1..(Len(published) + 1) /\ c \in subscribers
           /\ s.todo \o q = From(published, s.next)
           /\ stream \in [Clients -> Stream] /\ queue \in [Clients -> Seq(Event)]
    BY <1>1, StreamTypes
  <1>3. queue' = [queue EXCEPT ![c] = q]
    BY <1>1, <1>2
  <1>4. CASE s.todo = <<>>
    <2> DEFINE t == [s EXCEPT !.pc = "live"]
    <2>1. t \in Stream /\ t.pc = "live" /\ t.todo = s.todo /\ t.next = s.next
      BY ONLY <1>2 DEF Stream
    <2>2. /\ stream' = [stream EXCEPT ![c] = t] /\ subscribers' = subscribers \cup {c}
          /\ buffer' = buffer /\ terminalAt' = terminalAt
      BY <1>2, <1>4 DEF Replay
    <2> HIDE DEF t
    <2>3. Swept
      BY <1>1, <2>2 DEF Swept
    <2>4. Follows(t, q)
      BY <1>2, <1>4, <2>1 DEF Follows
    <2>5. QED
      BY <1>3, <2>1, <2>2, <2>3, <2>4, ClientStep
  <1>5. CASE s.todo # <<>>
    <2> DEFINE t == [s EXCEPT !.todo = Tail(@)]
    <2>1. Head(s.todo) \in Event /\ Tail(s.todo) \in Seq(Event)
      BY <1>2, <1>5, HeadTailProperties
    <2>2. /\ t \in Stream /\ t.pc = s.pc /\ t.todo = Tail(s.todo) /\ t.next = s.next
          /\ t.opened = s.opened
      BY ONLY <1>2, <2>1 DEF Stream
    <2>3. Yield(c, Head(s.todo), t)
      BY <1>2, <1>5 DEF Replay
    <2> HIDE DEF t
    <2>4. Tail(s.todo \o q) = Tail(s.todo) \o q /\ s.todo \o q # <<>>
      BY <1>2, <1>5, EventConcatTail
    <2>5. /\ s.next + 1 <= Len(published) + 1
          /\ Tail(s.todo \o q) = From(published, s.next + 1)
      BY <1>1, <1>2, <2>4, NextEvent
    <2>6. QED
      BY <1>1, <1>2, <1>3, <2>1, <2>2, <2>3, <2>4, <2>5, YieldStep
  <1>6. QED
    BY <1>4, <1>5

LEMMA LiveStep ==
    ASSUME StreamInv, NEW c \in Clients, Live(c)
    PROVE  StreamInv'
  <1>1. /\ stream[c].pc = "live" /\ UNCHANGED <<task, run, published>>
    BY DEF Live
  <1>2. PICK s \in Stream, q \in Seq(Event) :
           /\ s = stream[c] /\ q = queue[c] /\ s.todo = <<>>
           /\ queue \in [Clients -> Seq(Event)]
    BY <1>1, StreamTypes
  <1>3. /\ q # <<>> /\ queue' = [queue EXCEPT ![c] = Tail(q)] /\ Yield(c, Head(q), s)
    BY <1>2 DEF Live
  <1>4. Head(q) \in Event /\ Tail(q) \in Seq(Event)
    BY <1>3, HeadTailProperties
  <1>5. s.todo \o q = q /\ s.todo \o Tail(q) = Tail(q)
    BY <1>2, <1>4, ConcatEmptySeq
  <1>6. /\ s.next + 1 <= Len(published) + 1
        /\ Tail(q) = From(published, s.next + 1)
    BY <1>1, <1>2, <1>3, <1>5, NextEvent
  <1>7. QED
    BY <1>1, <1>2, <1>3, <1>4, <1>5, <1>6, YieldStep

LEMMA SubscribeStep ==
    ASSUME StreamInv, NEW c \in Clients, Subscribe(c)
    PROVE  StreamInv'
  <1> DEFINE kept == IF Expired(subscribers) THEN <<>> ELSE buffer
             s == [NoStream EXCEPT !.pc = "replay", !.todo = kept,
                      !.next = Len(published) - Len(kept) + 1, !.opened = stream[c].opened + 1]
  <1>1. /\ stream' = [stream EXCEPT ![c] = s] /\ subscribers' = subscribers \cup {c}
        /\ buffer' = kept /\ queue' = [queue EXCEPT ![c] = <<>>]
        /\ terminalAt' = IF Expired(subscribers) THEN "none" ELSE terminalAt
        /\ stream[c].opened < MaxStreams
        /\ UNCHANGED <<task, run, published>>
    BY DEF Subscribe
  <1>2. Swept
    BY <1>1 DEF Swept, Expired
  <1>3. /\ kept \in Seq(Event) /\ Len(kept) <= Len(published) /\ Len(kept) \in Nat
        /\ Len(published) \in Nat /\ <<>> \in Seq(Event) /\ published \in Seq(Event)
    BY <1>1, EmptySeq, EventLen DEF StreamInv, TypeOK
  <1>4. kept = From(published, Len(published) - Len(kept) + 1)
    <2>1. CASE Expired(subscribers)
      <3>1. Len(published) - Len(kept) + 1 = Len(published) + 1
        BY <1>3, <2>1, EmptySeq
      <3>2. QED
        BY <1>3, <2>1, <3>1, SubSeqEmpty DEF From
    <2>2. CASE ~Expired(subscribers)
      BY <2>2 DEF StreamInv, BufferHasRun, First, From
    <2>3. QED
      BY <2>1, <2>2
  <1> HIDE DEF kept
  <1>5. /\ Len(published) - Len(kept) + 1 \in Nat \ {0}
        /\ Len(published) - Len(kept) + 1 <= Len(published) + 1
    BY <1>3
  <1>6. stream[c].opened + 1 \in 0..MaxStreams
    BY <1>1, StreamAssumption DEF StreamInv, TypeOK, Stream
  <1>7. /\ s \in Stream /\ s.pc = "replay" /\ s.todo = kept
        /\ s.next = Len(published) - Len(kept) + 1
    BY ONLY <1>3, <1>5, <1>6 DEF Stream, NoStream
  <1> HIDE DEF s
  <1>8. s.todo \o <<>> = s.todo
    BY <1>3, <1>7, ConcatEmptySeq
  <1>9. Follows(s, <<>>)
    BY <1>4, <1>5, <1>7, <1>8 DEF Follows
  <1>10. QED
    BY <1>1, <1>2, <1>3, <1>7, <1>9, ClientStep

LEMMA DisconnectStep ==
    ASSUME StreamInv, NEW c \in Clients, Disconnect(c)
    PROVE  StreamInv'
  <1> DEFINE s == [NoStream EXCEPT !.shown = 0, !.opened = stream[c].opened]
  <1>1. /\ stream' = [stream EXCEPT ![c] = s] /\ subscribers' = subscribers \ {c}
        /\ buffer' = IF Expired(subscribers \ {c}) THEN <<>> ELSE buffer
        /\ terminalAt' = IF Expired(subscribers \ {c}) THEN "none" ELSE terminalAt
        /\ queue' = queue /\ UNCHANGED <<task, run, published>>
    BY DEF Disconnect, Unsubscribe
  <1>2. Swept
    BY <1>1 DEF Swept, Expired
  <1>3. stream[c].opened \in 0..MaxStreams /\ <<>> \in Seq(Event) /\ 1 \in Nat \ {0}
    <2>1. stream[c] \in Stream
      BY StreamTypes
    <2>2. QED
      BY <2>1, EmptySeq DEF Stream
  <1>4. s \in Stream /\ s.pc = "off"
    BY ONLY <1>3 DEF Stream, NoStream
  <1> HIDE DEF s
  <1>5. queue' = [queue EXCEPT ![c] = queue[c]] /\ queue[c] \in Seq(Event)
    BY <1>1, StreamTypes
  <1>6. Follows(s, queue[c])
    BY <1>4 DEF Follows
  <1>7. QED
    BY <1>1, <1>2, <1>4, <1>5, <1>6, ClientStep

(* Time passes, or another application's call sweeps this buffer.          *)
LEMMA SweepStep ==
    ASSUME StreamInv, Expire \/ Sweep
    PROVE  StreamInv'
  <1>1. UNCHANGED <<subscribers, queue, stream, task, run, published>> /\ Swept
    BY DEF Expire, Sweep, clientVars, Swept, Expired
  <1>2. TypeOK'
    BY <1>1, SweptStep DEF StreamInv, TypeOK
  <1>3. ClientsFit' /\ NothingIsMissed'
    BY <1>1 DEF StreamInv, ClientsFit, NothingIsMissed
  <1>4. QED
    BY <1>1, <1>2, <1>3, SweptStep DEF StreamInv

LEMMA StreamInit == Init => StreamInv
  <1> SUFFICES ASSUME Init PROVE StreamInv
    OBVIOUS
  <1> USE DEF Init
  <1>1. <<>> \in Seq(Event) /\ Len(<<>>) = 0
    BY EmptySeq
  <1>2. NoStream \in Stream
    BY <1>1, StreamAssumption DEF NoStream, Stream
  <1>3. TypeOK
    BY <1>1, <1>2, StreamAssumption DEF TypeOK, RunStates
  <1>4. ClientsFit /\ NothingIsMissed
    BY DEF ClientsFit, NothingIsMissed, NoStream
  <1>5. RunsFit /\ RunEndsTerminal
    BY <1>1 DEF RunsFit, RunEndsTerminal, Running, Working
  <1>6. BufferHasRun
    <2>1. SubSeq(published, First, Len(published)) = <<>>
      BY <1>1, SubSeqEmpty DEF First
    <2>2. QED
      BY <2>1 DEF BufferHasRun, Working
  <1>7. QED
    BY <1>1, <1>3, <1>4, <1>5, <1>6 DEF StreamInv

LEMMA StreamNext == StreamInv /\ [Next]_vars => StreamInv'
  <1> SUFFICES ASSUME StreamInv, [Next]_vars  PROVE StreamInv'
    OBVIOUS
  <1>1. ASSUME NEW r \in Runs, Trigger(r)  PROVE StreamInv'
    BY <1>1, TriggerStep
  <1>2. ASSUME NEW r \in Runs, Work(r)  PROVE StreamInv'
    BY <1>2, WorkSteps, EndRunStep DEF Work
  <1>3. ASSUME NEW c \in Clients, Subscribe(c)  PROVE StreamInv'
    BY <1>3, SubscribeStep
  <1>4. ASSUME NEW c \in Clients, Replay(c)  PROVE StreamInv'
    BY <1>4, ReplayStep
  <1>5. ASSUME NEW c \in Clients, Live(c)  PROVE StreamInv'
    BY <1>5, LiveStep
  <1>6. ASSUME NEW c \in Clients, Disconnect(c)  PROVE StreamInv'
    BY <1>6, DisconnectStep
  <1>7. CASE Expire \/ Sweep
    BY <1>7, SweepStep
  <1>8. CASE UNCHANGED vars
    <2>1. /\ UNCHANGED <<subscribers, queue, stream, task, run, published, buffer, terminalAt>>
          /\ Swept
      BY <1>8 DEF vars, Swept
    <2>2. TypeOK' /\ ClientsFit' /\ NothingIsMissed'
      BY <2>1 DEF StreamInv, TypeOK, ClientsFit, NothingIsMissed
    <2>3. QED
      BY <2>1, <2>2, SweptStep DEF StreamInv
  <1>9. QED
    BY <1>1, <1>2, <1>3, <1>4, <1>5, <1>6, <1>7, <1>8 DEF Next

(* For any clients and runs and any size of the buffer: one run at a time  *)
(* publishes, the buffer is the end of what was published, and what a      *)
(* client has yet to see is what was published since its last event.       *)
THEOREM StreamInvariant == Spec => []StreamInv
  BY StreamInit, StreamNext, PTL DEF Spec

(* A stream misses nothing, repeats nothing and keeps the order, however   *)
(* replay, publishing and sweeping interleave.                             *)
THEOREM StreamIsComplete == Spec => []NothingIsMissed
  <1>1. StreamInv => NothingIsMissed
    BY DEF StreamInv
  <1>2. QED
    BY <1>1, StreamInvariant, PTL

(* A client that comes while a run is going on finds what it published.    *)
THEOREM LateClientCatchesUp == Spec => []BufferHasRun
  <1>1. StreamInv => BufferHasRun
    BY DEF StreamInv
  <1>2. QED
    BY <1>1, StreamInvariant, PTL

(* A run that has ended, whatever raised in it, has said so last.          *)
THEOREM RunSaysItEnded == Spec => []RunEndsTerminal
  <1>1. StreamInv => RunEndsTerminal
    BY DEF StreamInv
  <1>2. QED
    BY <1>1, StreamInvariant, PTL
=============================================================================
