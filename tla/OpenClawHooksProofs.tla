------------------------ MODULE OpenClawHooksProofs ------------------------
(***************************************************************************)
(* The capture hooks of the OpenClaw plugin store no event twice, and with *)
(* the binary in order, for every set of events, configurations and        *)
(* bounds.  Both rest on one invariant: a call that AMM may still serve is *)
(* not among the stored ones, and a subprocess leaves no such call behind. *)
(***************************************************************************)
EXTENDS OpenClawHooks, NaturalsInduction, WellFoundedInduction, SequenceTheorems, TLAPS

States == Unanswered \cup {"answered", "failed"}

Shape ==
  /\ way \in {"http", "binary", "none"}
  /\ call \in Seq(States)
  /\ stored \in Seq(Nat)

\* What is stored has been answered for or has failed.
Served ==
  \A k \in DOMAIN stored : /\ stored[k] \in DOMAIN call
                           /\ call[stored[k]] \notin Unanswered

\* A subprocess is over when its hook is.
Over == way = "binary" => \A i \in DOMAIN call : call[i] \notin Unanswered

Delivery == Shape /\ Served /\ Over /\ StoredOnce /\ StoredInOrder

\* Initially nothing has been stored.
LEMMA DeliveryInit == Init => Delivery
<1> SUFFICES ASSUME Init PROVE Delivery
  OBVIOUS
<1>1. way \in {"http", "binary", "none"}
  <2>1. PICK s \in Setups : way = Way(s.build, ResolveConfig(s.cfg, s.env))
    BY DEF Init
  <2> QED
    BY <2>1 DEF Way
<1>2. call = <<>> /\ stored = <<>>
  BY DEF Init
<1> QED
  BY <1>1, <1>2 DEF Delivery, Shape, Served, Over, StoredOnce, StoredInOrder

\* One more call, which nobody waits for: it may have been stored.
LEMMA NewCallSettled ==
  ASSUME Delivery, way' = way, NEW state \in {"answered", "failed"},
         call' = Append(call, state),
         stored' \in {stored, Append(stored, Len(call) + 1)}
  PROVE Delivery'
<1> USE DEF Delivery
<1>1. /\ call' \in Seq(States) /\ Len(call') = Len(call) + 1
      /\ \A i \in DOMAIN call : i \in DOMAIN call' /\ call'[i] = call[i]
      /\ Len(call) + 1 \in DOMAIN call' /\ call'[Len(call) + 1] = state
      /\ \A i \in DOMAIN call' : i \in DOMAIN call \/ i = Len(call) + 1
  BY DEF Shape, States
<1>2. CASE stored' = stored
  BY <1>1, <1>2 DEF Shape, Served, Over, StoredOnce, StoredInOrder, Unanswered
<1>3. CASE stored' = Append(stored, Len(call) + 1)
  <2>1. /\ stored' \in Seq(Nat) /\ Len(stored') = Len(stored) + 1
        /\ \A k \in DOMAIN stored : k \in DOMAIN stored' /\ stored'[k] = stored[k]
        /\ stored'[Len(stored) + 1] = Len(call) + 1
        /\ \A k \in DOMAIN stored' : k \in DOMAIN stored \/ k = Len(stored) + 1
    BY <1>3 DEF Shape
  <2>2. \A k \in DOMAIN stored : stored[k] < Len(call) + 1
    BY DEF Shape, Served
  <2>3. \A k \in DOMAIN stored : k < Len(stored) + 1 /\ k \in Nat
    BY DEF Shape
  <2>4. Served'
    BY <1>1, <2>1 DEF Served, Unanswered
  <2>5. StoredOnce'
    BY <2>1, <2>2, <2>3 DEF StoredOnce, Shape
  <2>6. StoredInOrder'
    BY <2>1, <2>2, <2>3 DEF StoredInOrder, Shape
  <2> QED
    BY <1>1, <2>1, <2>4, <2>5, <2>6 DEF Shape, Over, Unanswered
<1> QED
  BY <1>2, <1>3

\* One more call, over HTTP: it is waited for and nothing is stored.
LEMMA NewCallWaiting ==
  ASSUME Delivery, way' = way, way = "http",
         call' = Append(call, "waiting"), stored' = stored
  PROVE Delivery'
<1>1. "waiting" \in States /\ call \in Seq(States)
  BY DEF Delivery, Shape, States, Unanswered
<1>2. /\ call' \in Seq(States)
      /\ \A i \in DOMAIN call : i \in DOMAIN call' /\ call'[i] = call[i]
  BY <1>1
<1> QED
  BY <1>2 DEF Delivery, Shape, Served, Over, StoredOnce, StoredInOrder

\* One element of a sequence is replaced.
LEMMA Replaced ==
  ASSUME NEW S, NEW seq \in Seq(S), NEW n \in DOMAIN seq, NEW e \in S
  PROVE  /\ [seq EXCEPT ![n] = e] \in Seq(S)
         /\ DOMAIN [seq EXCEPT ![n] = e] = DOMAIN seq
         /\ [seq EXCEPT ![n] = e][n] = e
         /\ \A j \in DOMAIN seq : j # n => [seq EXCEPT ![n] = e][j] = seq[j]
OBVIOUS

\* A call that AMM may still serve becomes another such one or fails.
LEMMA CallTurns ==
  ASSUME Delivery, way' = way, NEW i \in DOMAIN call, call[i] \in Unanswered,
         NEW state \in {"given up", "failed"},
         call' = [call EXCEPT ![i] = state], stored' = stored
  PROVE Delivery'
<1>1. state \in States /\ call \in Seq(States)
  BY DEF Delivery, Shape, States, Unanswered
<1>2. /\ call' \in Seq(States) /\ DOMAIN call' = DOMAIN call
      /\ \A j \in DOMAIN call : j # i => call'[j] = call[j]
  BY <1>1, Replaced
<1>3. way # "binary"
  BY DEF Delivery, Over
<1> QED
  BY <1>2, <1>3 DEF Delivery, Shape, Served, Over, StoredOnce, StoredInOrder

\* AMM serves a call: it had not been stored before, and no subprocess is in
\* play.
LEMMA CallServed ==
  ASSUME Delivery, NEW i \in DOMAIN call, Serve(i)
  PROVE Delivery'
<1>1. PICK state \in {"answered", "failed"} : call' = [call EXCEPT ![i] = state]
  BY DEF Serve, Becomes, Verdict
<1>0. /\ way' = way /\ call[i] \in Unanswered
      /\ stored' \in {stored, Append(stored, i)}
  BY DEF Serve, Becomes, Kept, setup
<1>2. /\ call' \in Seq(States) /\ DOMAIN call' = DOMAIN call
      /\ call'[i] = state
      /\ \A j \in DOMAIN call : j # i => call'[j] = call[j]
  BY <1>1 DEF Delivery, Shape, States
<1>3. way # "binary"
  BY <1>0 DEF Delivery, Over
<1>4. CASE stored' = stored
  BY <1>0, <1>2, <1>3, <1>4
     DEF Delivery, Shape, Served, Over, StoredOnce, StoredInOrder, Unanswered
<1>5. CASE stored' = Append(stored, i)
  <2>1. /\ stored' \in Seq(Nat)
        /\ \A k \in DOMAIN stored : k \in DOMAIN stored' /\ stored'[k] = stored[k]
        /\ stored'[Len(stored) + 1] = i
        /\ \A k \in DOMAIN stored' : k \in DOMAIN stored \/ k = Len(stored) + 1
    BY <1>5 DEF Delivery, Shape
  <2>2. \A k \in DOMAIN stored : stored[k] # i
    BY <1>0 DEF Delivery, Served
  <2>3. Served'
    BY <1>2, <2>1 DEF Delivery, Served, Unanswered
  <2>4. StoredOnce'
    BY <2>1, <2>2 DEF Delivery, StoredOnce
  <2> QED
    BY <1>0, <1>2, <1>3, <2>1, <2>3, <2>4 DEF Delivery, Shape, Over, StoredInOrder
<1> QED BY <1>0, <1>4, <1>5

\* A captured event makes a new call of one kind or the other, or none.
LEMMA EventCaptured ==
  ASSUME Delivery, NEW event \in Events, CaptureEvent(event)
  PROVE Delivery'
<1>1. way' = way
  BY DEF CaptureEvent, setup
<1>2. CASE Classify(event).content = Unset
  <2>1. call' = call /\ stored' = stored
    BY <1>2 DEF CaptureEvent
  <2> QED
    BY <1>1, <2>1 DEF Delivery, Shape, Served, Over, StoredOnce, StoredInOrder
<1>3. CASE Classify(event).content # Unset
  <2>1. PICK e : IngestEvent(e, Len(call) + 1)
    BY <1>3 DEF CaptureEvent
  <2>2. CASE way = "http"
    <3>1. call' = Append(call, "waiting") /\ stored' = stored
      BY <2>1, <2>2 DEF IngestEvent
    <3> QED
      BY <1>1, <2>2, <3>1, NewCallWaiting
  <2>3. CASE way = "none"
    <3>1. call' = Append(call, "failed") /\ stored' = stored
      BY <2>1, <2>3 DEF IngestEvent
    <3> QED
      BY <1>1, <3>1, NewCallSettled
  <2>4. CASE way = "binary"
    <3>1. PICK state \in {"answered", "failed"} :
            /\ call' = Append(call, state)
            /\ stored' \in {stored, Append(stored, Len(call) + 1)}
      BY <2>1, <2>4 DEF IngestEvent, Kept, Verdict
    <3> QED
      BY <1>1, <3>1, NewCallSettled
  <2> QED
    BY <2>2, <2>3, <2>4 DEF Delivery, Shape
<1> QED
  BY <1>2, <1>3

LEMMA DeliveryNext == Delivery /\ [Next]_vars => Delivery'
<1> SUFFICES ASSUME Delivery, [Next]_vars PROVE Delivery'
  OBVIOUS
<1>1. CASE \E event \in Events : CaptureEvent(event)
  BY <1>1, EventCaptured
<1>2. ASSUME NEW i \in DOMAIN call, Reply(i) PROVE Delivery'
  <2>1. CASE Serve(i)
    BY <2>1, CallServed
  <2>2. CASE Refuse(i) \/ Abort(i)
    <3>1. PICK state \in {"given up", "failed"} : call' = [call EXCEPT ![i] = state]
      BY <2>2 DEF Refuse, Abort, Becomes
    <3>2. way' = way /\ stored' = stored /\ call[i] \in Unanswered
      BY <2>2 DEF Refuse, Abort, Becomes, setup, Unanswered
    <3> QED
      BY <3>1, <3>2, CallTurns
  <2> QED
    BY <1>2, <2>1, <2>2 DEF Reply
<1>3. CASE \/ \E messages \in Prompts : BeforePromptBuild(messages)
           \/ \E items \in Recalled : Answer(items)
           \/ NoAnswer
           \/ UNCHANGED vars
  <2>1. way' = way /\ call' = call /\ stored' = stored
    BY <1>3 DEF BeforePromptBuild, Answer, NoAnswer, vars, setup, capture
  <2> QED
    BY <2>1 DEF Delivery, Shape, Served, Over, StoredOnce, StoredInOrder
<1> QED
  BY <1>1, <1>2, <1>3 DEF Next

\* AMM stores no event twice, whether calls are served, refused, given up or
\* served after they were given up (ingestEvent, postJson).
THEOREM DeliveredOnce == Spec => []StoredOnce
<1>1. Delivery => StoredOnce
  BY DEF Delivery
<1> QED
  BY <1>1, DeliveryInit, DeliveryNext, PTL DEF Spec

\* With the binary, AMM stores the events in the order of their hooks
\* (runAmm).
THEOREM DeliveredInOrder == Spec => []StoredInOrder
<1>1. Delivery => StoredInOrder
  BY DEF Delivery
<1> QED
  BY <1>1, DeliveryInit, DeliveryNext, PTL DEF Spec

-----------------------------------------------------------------------------
(* Types, and that nothing is missing. *)

\* What captureEvent makes of an event.
Made == [kind : Kinds, content : {Classify(event).content : event \in Events} \ {Unset},
         session : {SessionId(event) : event \in Events}, of : Nat]

Types == TypeOK /\ issued \in Seq(Made)

\* Whatever the configuration and the environment say, the limit is a whole
\* number of at least 1.
LEMMA LimitIsPositive ==
  ASSUME NEW s \in Setups
  PROVE  ResolveConfig(s.cfg, s.env).recallLimit \in Nat \ {0}
<1> DEFINE given == Coalesce(s.cfg["recallLimit"],
                             Coalesce(s.env["recallLimit"], Number(10 * DefaultRecallLimit)))
<1>1. /\ given.is \in {"text", "url", "number", "flag"}
      /\ given.is = "number" => given.v \in Int
      /\ given.is = "flag" => given.v \in BOOLEAN
  BY ConstantsAssumption DEF Coalesce, Number, DefaultRecallLimit
<1>2. ResolveConfig(s.cfg, s.env).recallLimit = ClampRecallLimit(given)
  BY DEF ResolveConfig
<1> HIDE DEF given
<1>3. ASSUME NEW n \in Int, n >= 10 PROVE n \div 10 \in Nat \ {0}
  BY <1>3
<1>4. DefaultRecallLimit \in Nat \ {0} BY DEF DefaultRecallLimit
<1>5. \A t \in DOMAIN Numeral : Numeral[t] \in Int
  <2> SUFFICES ASSUME NEW t \in DOMAIN Numeral PROVE Numeral[t] \in {0, 5, 25, 70}
    OBVIOUS
  <2>1. Numeral[t] = CASE t = "0.5" -> 5 [] t = "2.5" -> 25 [] t = "7" -> 70 [] OTHER -> 0
    BY DEF Numeral
  <2>2. CASE t = "0.5" BY <2>1, <2>2
  <2>3. CASE t = "2.5" BY <2>1, <2>3
  <2>4. CASE t = "7" BY <2>1, <2>4
  <2>5. CASE t \notin {"0.5", "2.5", "7"} BY <2>1, <2>5
  <2> QED BY <2>2, <2>3, <2>4, <2>5
<1>6. ClampRecallLimit(given) \in Nat \ {0}
  <2>1. CASE given.is = "number" BY <1>1, <1>3, <1>4, <2>1 DEF ClampRecallLimit
  <2>2. CASE given.is = "flag"
    <3>1. 10 \div 10 \in Nat \ {0} BY <1>3
    <3> QED BY <1>1, <1>4, <2>2, <3>1 DEF ClampRecallLimit
  <2>3. CASE given.is = "text" BY <1>3, <1>4, <1>5, <2>3 DEF ClampRecallLimit
  <2>4. CASE given.is = "url" BY <1>4, <2>4 DEF ClampRecallLimit
  <2> QED BY <1>1, <2>1, <2>2, <2>3, <2>4
<1> QED BY <1>2, <1>6

LEMMA TypesInit == Init => Types
<1> SUFFICES ASSUME Init PROVE Types OBVIOUS
<1>1. conf.recallLimit \in Nat \ {0} BY LimitIsPositive DEF Init
<1>2. way \in {"http", "binary", "none"} BY DEF Init, Way
<1>3. faults \in 0..MaxFaults BY ConstantsAssumption DEF Init
<1> QED BY <1>1, <1>2, <1>3 DEF Init, Types, TypeOK, Range

\* The kind of a captured event.
LEMMA KindOfCaptured ==
  ASSUME NEW event \in Events, <<event.type, event.action>> \in Captured
  PROVE  Classify(event).kind \in Kinds
<1>1. \/ event.type = "message" /\ event.action = "preprocessed"
      \/ event.type = "message" /\ event.action = "sent"
      \/ event.type = "tool" /\ event.action = "called"
      \/ event.type = "tool" /\ event.action = "completed"
  BY DEF Captured
<1> QED BY <1>1 DEF Classify, Kinds

\* A call that is made, waited for or not, and what becomes of it at once.
LEMMA IngestTypes ==
  ASSUME Types, NEW e \in Made, e.of = Len(heard) + 1, IngestEvent(e, Len(call) + 1)
  PROVE  /\ issued' = Append(issued, e)
         /\ \E state \in {"waiting", "answered", "failed"} : call' = Append(call, state)
         /\ stored' \in {stored, Append(stored, Len(call) + 1)}
         /\ faults' \in 0..MaxFaults
<1>1. way \in {"http", "binary", "none"} BY DEF Types, TypeOK
<1>2. faults' = faults \/ Fault
  BY <1>1 DEF IngestEvent
<1>3. faults' \in 0..MaxFaults
  BY <1>2, ConstantsAssumption DEF Fault, Types, TypeOK
<1> QED BY <1>1, <1>3 DEF IngestEvent, Kept, Verdict

\* A captured event leaves everything in its type.
LEMMA TypesOfCapture ==
  ASSUME Types, NEW event \in Events, CaptureEvent(event)
  PROVE  Types'
<1>1. /\ UNCHANGED <<conf, way, ignored, prompt>> /\ heard' = Append(heard, event)
      /\ <<event.type, event.action>> \in Captured
  BY DEF CaptureEvent, setup, recalling
<1>2. /\ heard \in Seq(Events) /\ heard' \in Seq(Events) /\ Len(heard') = Len(heard) + 1
      /\ Len(heard) \in Nat /\ DOMAIN heard' = 1..(Len(heard) + 1)
      /\ DOMAIN heard = 1..Len(heard)
  BY <1>1 DEF Types, TypeOK
<1>3. CASE Classify(event).content = Unset
  <2>1. UNCHANGED <<issued, call, stored, faults>> BY <1>3 DEF CaptureEvent
  <2> QED BY <1>1, <1>2, <2>1 DEF Types, TypeOK
<1>4. CASE Classify(event).content # Unset
  <2> DEFINE e == [kind |-> Classify(event).kind, content |-> Classify(event).content,
                   session |-> SessionId(event), of |-> Len(heard) + 1]
  <2>1. IngestEvent(e, Len(call) + 1) BY <1>4 DEF CaptureEvent
  <2>2. e \in Made BY <1>1, <1>2, <1>4, KindOfCaptured DEF Made
  <2>3. e.of = Len(heard) + 1 OBVIOUS
  <2> HIDE DEF e
  <2>4. PICK state \in {"waiting", "answered", "failed"} :
          /\ issued' = Append(issued, e) /\ call' = Append(call, state)
          /\ stored' \in {stored, Append(stored, Len(call) + 1)}
          /\ faults' \in 0..MaxFaults
    BY <2>1, <2>2, <2>3, IngestTypes
  <2>5. /\ issued \in Seq(Made) /\ call \in Seq(States) /\ Len(issued) = Len(call)
        /\ Len(issued) <= Len(heard) /\ stored \in Seq(DOMAIN issued)
    BY DEF Types, TypeOK, States
  <2>6. /\ issued' \in Seq(Made) /\ Len(issued') = Len(issued) + 1
        /\ DOMAIN issued' = 1..(Len(issued) + 1) /\ DOMAIN issued = 1..Len(issued)
        /\ Len(issued) \in Nat
        /\ issued'[Len(issued) + 1] = e
        /\ \A i \in DOMAIN issued : issued'[i] = issued[i]
    BY <2>2, <2>4, <2>5
  <2>7. call' \in Seq(States) /\ Len(call') = Len(call) + 1
    <3>1. state \in States BY DEF States, Unanswered
    <3> QED BY <2>4, <2>5, <3>1, AppendProperties
  <2>8. stored' \in Seq(DOMAIN issued')
    <3> DEFINE S == DOMAIN issued'
    <3>1. stored \in Seq(S) BY <2>5, <2>6
    <3>2. Len(call) + 1 \in S BY <2>5, <2>6
    <3> HIDE DEF S
    <3>3. Append(stored, Len(call) + 1) \in Seq(S) BY <3>1, <3>2, AppendProperties
    <3>4. stored' \in Seq(S) BY <2>4, <3>1, <3>3
    <3> QED BY <3>4 DEF S
  <2>9. ASSUME NEW i \in DOMAIN issued'
        PROVE  /\ issued'[i].kind \in Kinds /\ issued'[i].content # Unset
               /\ issued'[i].of \in DOMAIN heard'
    <3>1. CASE i = Len(issued) + 1 BY <1>2, <2>2, <2>3, <2>6, <3>1 DEF Made
    <3>2. CASE i \in DOMAIN issued
      <4>1. issued[i].kind \in Kinds /\ issued[i].content # Unset
            /\ issued[i].of \in DOMAIN heard
        BY <3>2 DEF Types, TypeOK, Range, Kinds
      <4> QED BY <1>2, <2>6, <3>2, <4>1
    <3> QED BY <2>6, <3>1, <3>2
  <2> QED BY <1>1, <1>2, <2>4, <2>5, <2>6, <2>7, <2>8, <2>9
          DEF Types, TypeOK, Range, States, Kinds
<1> QED BY <1>3, <1>4

LEMMA TypesNext == ASSUME Types, [Next]_vars PROVE Types'
<1>0. /\ faults \in 0..MaxFaults /\ call \in Seq(States)
      /\ issued \in Seq(Made) /\ Len(issued) = Len(call)
      /\ stored \in Seq(DOMAIN issued)
  BY DEF Types, TypeOK, States
<1>f. Fault => faults' \in 0..MaxFaults BY <1>0, ConstantsAssumption DEF Fault
<1>1. CASE \E event \in Events : CaptureEvent(event) BY <1>1, TypesOfCapture
<1>2. ASSUME NEW i \in DOMAIN call, Reply(i) PROVE Types'
  <2>1. PICK state \in States : call' = [call EXCEPT ![i] = state]
    BY <1>2 DEF Reply, Serve, Refuse, Abort, Becomes, Verdict, States, Unanswered
  <2>2. call' \in Seq(States) /\ Len(call') = Len(call) BY <1>0, <2>1
  <2>3. UNCHANGED <<conf, way, prompt, issued, heard>>
    BY <1>2 DEF Reply, Serve, Refuse, Abort, Becomes, setup, recalling
  <2>4. stored' = stored \/ stored' = Append(stored, i)
    BY <1>2 DEF Reply, Serve, Refuse, Abort, Kept
  <2>5. i \in DOMAIN issued BY <1>0
  <2>6. stored' \in Seq(DOMAIN issued) BY <1>0, <2>4, <2>5
  <2>7. faults' \in 0..MaxFaults
    BY <1>0, <1>2, <1>f DEF Reply, Serve, Refuse, Abort
  <2> QED BY <2>2, <2>3, <2>6, <2>7 DEF Types, TypeOK, States
<1>3. CASE \/ \E messages \in Prompts : BeforePromptBuild(messages)
           \/ \E items \in Recalled : Answer(items)
           \/ NoAnswer
           \/ UNCHANGED vars
  <2>1. UNCHANGED <<setup, capture>>
    BY <1>3 DEF BeforePromptBuild, Answer, NoAnswer, vars
  <2>2. prompt' \in {"none", "asked"}
    BY <1>3 DEF BeforePromptBuild, Answer, NoAnswer, vars, recalling, Types, TypeOK
  <2>3. faults' \in 0..MaxFaults
    BY <1>0, <1>3, <1>f DEF BeforePromptBuild, Answer, NoAnswer, vars
  <2> QED BY <2>1, <2>2, <2>3 DEF setup, capture, Types, TypeOK
<1> QED BY <1>1, <1>2, <1>3 DEF Next

\* Every variable keeps its type; the limit on what is injected is a positive
\* whole number however it was configured (clampRecallLimit).
THEOREM TypeCorrect == Spec => []TypeOK
<1>1. Types => TypeOK BY DEF Types
<1>2. Types /\ [Next]_vars => Types' BY TypesNext
<1> QED BY <1>1, <1>2, TypesInit, PTL DEF Spec

\* A set of indices has a least one.
LEMMA LeastIndex ==
  ASSUME NEW S, S \subseteq Nat, S # {}
  PROVE  \E m \in S : \A n \in S : m <= n
<1> DEFINE R == OpToRel(<, Nat)
<1>1. IsWellFoundedOn(R, Nat)
  BY NatLessThanWellFounded
<1>2. PICK m \in S : \A n \in S : ~ (<<n, m>> \in R)
  <2> HIDE DEF R
  <2> QED BY <1>1, WFMin
<1>3. \A n \in S : ~(n < m)
  BY <1>2 DEF OpToRel
<1> HIDE DEF R
<1> QED BY <1>3

LEMMA FirstIndex ==
  ASSUME NEW S, S \subseteq Nat, S # {}
  PROVE  Min(S) \in S
BY LeastIndex DEF Min

\* A field that holds a text lets FirstText find one, which is one of the fields.
LEMMA TextFound ==
  ASSUME NEW ctx, NEW names, DOMAIN names \subseteq Nat, NEW i \in DOMAIN names,
         AsString(Field(ctx, names[i])) # Unset
  PROVE  /\ FirstText(ctx, names) # Unset
         /\ \E j \in DOMAIN names : FirstText(ctx, names) = Field(ctx, names[j])
<1> DEFINE texts == {j \in DOMAIN names : AsString(Field(ctx, names[j])) # Unset}
<1>1. Min(texts) \in texts
  <2>1. texts # {} /\ texts \subseteq Nat OBVIOUS
  <2> HIDE DEF texts
  <2> QED BY <2>1, FirstIndex
<1>2. FirstText(ctx, names) = ctx[names[Min(texts)]] BY <1>1 DEF FirstText
<1>3. AsString(Field(ctx, names[Min(texts)])) # Unset BY <1>1
<1> DEFINE j == Min(texts)
<1>4. j \in DOMAIN names BY <1>1
<1> HIDE DEF texts, j
<1>5. FirstText(ctx, names) = Field(ctx, names[j])
  BY <1>2, <1>3 DEF Field, AsString, Unset, j
<1>6. FirstText(ctx, names) # Unset BY <1>3, <1>5 DEF AsString, Unset, j
<1> QED BY <1>4, <1>5, <1>6

\* What an event with substance is called, and that its content is blank only
\* if one of its fields is.
Content(event) ==
  /\ Classify(event).content # Unset
  /\ Classify(event).kind = Hooked[event.action].kind
  /\ ~Blanked(event) => Classify(event).content # Blank

\* An event that has any substance has a content, whichever field holds it.
LEMMA SubstanceIsContent ==
  ASSUME NEW event, <<event.type, event.action>> \in Captured, Substantial(event)
  PROVE  Content(event)
<1> DEFINE ctx == event.context
           said == Classify(event)
<1>u. Unset.is = "unset" /\ Text("''").is = "text" /\ Blank # Text("''") /\ Blank.is = "text"
  BY DEF Unset, Text, Blank
<1>2. CASE event.type = "message" /\ event.action = "preprocessed"
  <2> DEFINE names == <<"bodyForAgent", "transcript", "body", "content">>
  <2>1. said.content = FirstText(ctx, names) /\ said.kind = "message_user"
    BY <1>2 DEF Classify, PickInboundContent
  <2>2. /\ Hooked[event.action].kind = "message_user" /\ Hooked[event.action].values = {}
        /\ Hooked[event.action].texts = {"bodyForAgent", "transcript", "body", "content"}
    BY <1>2 DEF Hooked
  <2>3. /\ DOMAIN names = 1..4 /\ names[1] = "bodyForAgent" /\ names[2] = "transcript"
        /\ names[3] = "body" /\ names[4] = "content"
    OBVIOUS
  <2>4. DOMAIN names \subseteq Nat OBVIOUS
  <2> HIDE DEF names
  <2>5. PICK i \in DOMAIN names : AsString(Field(ctx, names[i])) # Unset
    <3>1. PICK f \in {"bodyForAgent", "transcript", "body", "content"} :
            AsString(Field(ctx, f)) # Unset
      BY <2>2 DEF Substantial
    <3>2. \E i \in DOMAIN names : names[i] = f BY <2>3, <3>1
    <3> QED BY <3>1, <3>2
  <2>6. FirstText(ctx, names) # Unset
        /\ \E j \in DOMAIN names : FirstText(ctx, names) = Field(ctx, names[j])
    BY <2>4, <2>5, TextFound
  <2>7. \A j \in DOMAIN names : names[j] \in Hooked[event.action].texts BY <2>2, <2>3
  <2>8. said.content = Blank => Blanked(event) BY <1>2, <2>1, <2>6, <2>7 DEF Blanked
  <2> QED BY <2>1, <2>2, <2>6, <2>8 DEF Content
<1>3. CASE event.type = "message" /\ event.action = "sent"
  <2> DEFINE names == <<"content">>
  <2>1. said.content = FirstText(ctx, names) /\ said.kind = "message_assistant"
    BY <1>3 DEF Classify, PickOutboundContent
  <2>2. /\ Hooked[event.action].kind = "message_assistant" /\ Hooked[event.action].values = {}
        /\ Hooked[event.action].texts = {"content"}
    BY <1>3 DEF Hooked
  <2>3. DOMAIN names = {1} /\ names[1] = "content" OBVIOUS
  <2>4. DOMAIN names \subseteq Nat OBVIOUS
  <2> HIDE DEF names
  <2>5. 1 \in DOMAIN names /\ AsString(Field(ctx, names[1])) # Unset
    BY <2>2, <2>3 DEF Substantial
  <2>6. FirstText(ctx, names) # Unset
        /\ \E j \in DOMAIN names : FirstText(ctx, names) = Field(ctx, names[j])
    BY <2>4, <2>5, TextFound
  <2>7. \A j \in DOMAIN names : names[j] \in Hooked[event.action].texts BY <2>2, <2>3
  <2>8. said.content = Blank => Blanked(event) BY <1>3, <2>1, <2>6, <2>7 DEF Blanked
  <2> QED BY <2>1, <2>2, <2>6, <2>8 DEF Content
<1>4. CASE event.type = "tool" /\ event.action = "called"
  <2>1. said.content = BuildToolCallContent(ctx) /\ said.kind = "tool_call"
    BY <1>4 DEF Classify
  <2>2. /\ Hooked[event.action].kind = "tool_call"
        /\ Hooked[event.action].texts = {"name", "toolName", "functionName"}
        /\ Hooked[event.action].values = {"arguments", "args", "input"}
    BY <1>4 DEF Hooked
  <2>3. PickToolName(ctx) # Unset \/ ToText(PickToolInput(ctx)) # Unset
    <3>1. CASE \E f \in Hooked[event.action].texts : AsString(Field(ctx, f)) # Unset
      <4> DEFINE names == <<"name", "toolName", "functionName">>
      <4>1. /\ DOMAIN names = 1..3 /\ names[1] = "name" /\ names[2] = "toolName"
            /\ names[3] = "functionName"
        OBVIOUS
      <4>2. PickToolName(ctx) = FirstText(ctx, names) BY DEF PickToolName
      <4>3. DOMAIN names \subseteq Nat OBVIOUS
      <4> HIDE DEF names
      <4>4. PICK i \in DOMAIN names : AsString(Field(ctx, names[i])) # Unset
        <5>1. PICK f \in {"name", "toolName", "functionName"} : AsString(Field(ctx, f)) # Unset
          BY <2>2, <3>1
        <5>2. \E i \in DOMAIN names : names[i] = f BY <4>1, <5>1
        <5> QED BY <5>1, <5>2
      <4> QED BY <4>2, <4>3, <4>4, TextFound
    <3>2. CASE \E f \in Hooked[event.action].values :
                 Field(ctx, f).is \notin {"unset", "null"}
      <4>1. PickToolInput(ctx).is # "unset" BY <2>2, <3>2 DEF PickToolInput, Coalesce
      <4> QED BY <1>u, <4>1 DEF ToText
    <3> QED BY <3>1, <3>2 DEF Substantial
  <2>4. \E n, x : said.content = [is |-> "call", name |-> n, input |-> x]
    BY <2>1, <2>3 DEF BuildToolCallContent
  <2>5. said.content.is = "call" BY <2>4
  <2> QED BY <1>u, <2>1, <2>2, <2>5 DEF Content
<1>5. CASE event.type = "tool" /\ event.action = "completed"
  <2>1. said.content = ToText(PickToolOutput(ctx)) /\ said.kind = "tool_result"
    BY <1>5 DEF Classify
  <2>2. /\ Hooked[event.action].kind = "tool_result" /\ Hooked[event.action].texts = {}
        /\ Hooked[event.action].values = {"output", "result", "content"}
    BY <1>5 DEF Hooked
  <2>3. /\ PickToolOutput(ctx).is # "unset"
        /\ \E f \in {"output", "result", "content"} : PickToolOutput(ctx) = Field(ctx, f)
    BY <2>2 DEF Substantial, PickToolOutput, Coalesce
  <2>4. said.content # Unset BY <1>u, <2>1, <2>3 DEF ToText
  <2>5. said.content = Blank => PickToolOutput(ctx) = Blank BY <1>u, <2>1 DEF ToText
  <2>6. said.content = Blank => Blanked(event) BY <1>5, <2>2, <2>3, <2>5 DEF Blanked
  <2> QED BY <2>1, <2>2, <2>4, <2>6 DEF Content
<1> QED BY <1>2, <1>3, <1>4, <1>5 DEF Captured

\* Every event with any substance has made a call, and one that AMM takes
\* unless it is blank.
CallFor(event, h, e) ==
  /\ e.of = h /\ e.kind = Hooked[event.action].kind
  /\ ~Blanked(event) => e.content # Blank

Noticed ==
  \A h \in DOMAIN heard :
    Substantial(heard[h]) => \E i \in DOMAIN issued : CallFor(heard[h], h, issued[i])

\* What is answered is stored, but for what a policy ignores.
AnsweredIsStored ==
  \A i \in DOMAIN call :
    call[i] = "answered" => i \in Range(stored) \/ issued[i].kind \in ignored

\* Without a fault, a call waits or is answered, unless AMM refuses it.
Blameless ==
  way # "none" /\ faults = 0 =>
    \A i \in DOMAIN call : call[i] \in {"waiting", "answered"} \/ issued[i].content = Blank

Accounted == Noticed /\ AnsweredIsStored /\ Blameless

\* A call that is made is waited for, or stored or ignored, unless AMM refuses
\* it, there is no way to AMM or a fault.
Outcome(e, state) ==
  /\ call' = Append(call, state)
  /\ stored' \in {stored, Append(stored, Len(call) + 1)}
  /\ state = "answered" => stored' = Append(stored, Len(call) + 1) \/ e.kind \in ignored
  /\ \/ state \in {"waiting", "answered"} \/ e.content = Blank
     \/ way = "none" \/ faults' # 0
  /\ faults' = 0 => faults = 0

LEMMA NewCall ==
  ASSUME Types, NEW e, IngestEvent(e, Len(call) + 1)
  PROVE  \E state \in States : Outcome(e, state)
<1>1. way \in {"http", "binary", "none"} /\ faults \in Nat BY DEF Types, TypeOK
<1>2. Fault => faults' # 0 BY <1>1 DEF Fault
<1>3. CASE way = "http"
  <2>1. Outcome(e, "waiting") BY <1>3 DEF IngestEvent, Outcome
  <2> QED BY <2>1 DEF States, Unanswered
<1>4. CASE way = "none"
  <2>1. Outcome(e, "failed") BY <1>4 DEF IngestEvent, Outcome
  <2> QED BY <2>1 DEF States
<1>5. CASE way = "binary"
  <2>1. Outcome(e, Verdict(e)) \/ Outcome(e, "failed")
    BY <1>2, <1>5 DEF IngestEvent, Kept, Keeps, Verdict, Refused, Outcome
  <2> QED BY <2>1 DEF States, Verdict
<1> QED BY <1>1, <1>3, <1>4, <1>5

\* What is in the sequence of stored events stays in it.
LEMMA StoredGrows ==
  ASSUME NEW S, stored \in Seq(S), NEW i \in S, stored' \in {stored, Append(stored, i)}
  PROVE  /\ Range(stored) \subseteq Range(stored')
         /\ stored' = Append(stored, i) => i \in Range(stored')
<1>1. CASE stored' = stored
  <2>1. Len(stored) \in Nat /\ DOMAIN stored = 1..Len(stored) OBVIOUS
  <2>2. stored # Append(stored, i) BY AppendProperties
  <2> QED BY <1>1, <2>2
<1>2. CASE stored' = Append(stored, i)
  <2>1. /\ Len(stored) \in Nat /\ DOMAIN stored = 1..Len(stored)
        /\ DOMAIN stored' = 1..(Len(stored) + 1)
        /\ stored'[Len(stored) + 1] = i
        /\ \A k \in 1..Len(stored) : stored'[k] = stored[k]
    BY <1>2, AppendProperties
  <2> QED BY <2>1 DEF Range
<1> QED BY <1>1, <1>2

\* A captured event is accounted for.
LEMMA AccountedOfCapture ==
  ASSUME Types, Accounted, NEW event \in Events, CaptureEvent(event)
  PROVE  Accounted'
<1>1. /\ way' = way /\ ignored' = ignored /\ heard' = Append(heard, event)
      /\ <<event.type, event.action>> \in Captured
  BY DEF CaptureEvent, setup
<1>2. /\ Len(heard) \in Nat /\ DOMAIN heard = 1..Len(heard)
      /\ DOMAIN heard' = 1..(Len(heard) + 1) /\ heard'[Len(heard) + 1] = event
      /\ \A h \in DOMAIN heard : heard'[h] = heard[h]
  BY <1>1 DEF Types, TypeOK
<1>3. CASE Classify(event).content = Unset
  <2>1. UNCHANGED <<issued, call, stored, faults>> BY <1>3 DEF CaptureEvent
  <2>2. ~Substantial(event) BY <1>1, <1>3, SubstanceIsContent DEF Content
  <2>3. Noticed'
    <3> SUFFICES ASSUME NEW h \in DOMAIN heard', Substantial(heard'[h])
                 PROVE  \E i \in DOMAIN issued' : CallFor(heard'[h], h, issued'[i])
      BY DEF Noticed
    <3>1. h \in DOMAIN heard /\ heard'[h] = heard[h] BY <1>2, <2>2
    <3> QED BY <2>1, <3>1 DEF Accounted, Noticed
  <2> QED BY <1>1, <2>1, <2>3 DEF Accounted, AnsweredIsStored, Blameless
<1>4. CASE Classify(event).content # Unset
  <2> DEFINE e == [kind |-> Classify(event).kind, content |-> Classify(event).content,
                   session |-> SessionId(event), of |-> Len(heard) + 1]
  <2>1. IngestEvent(e, Len(call) + 1) BY <1>4 DEF CaptureEvent
  <2>2. Substantial(event) => CallFor(event, Len(heard) + 1, e)
    BY <1>1, SubstanceIsContent DEF Content, CallFor
  <2> HIDE DEF e
  <2>3. issued' = Append(issued, e) BY <2>1 DEF IngestEvent
  <2>4. /\ Len(issued) + 1 \in DOMAIN issued' /\ issued'[Len(issued) + 1] = e
        /\ \A i \in DOMAIN issued : i \in DOMAIN issued' /\ issued'[i] = issued[i]
    BY <2>3 DEF Types
  <2>5. Noticed'
    <3> SUFFICES ASSUME NEW h \in DOMAIN heard', Substantial(heard'[h])
                 PROVE  \E i \in DOMAIN issued' : CallFor(heard'[h], h, issued'[i])
      BY DEF Noticed
    <3>1. CASE h = Len(heard) + 1 BY <1>2, <2>2, <2>4, <3>1
    <3>2. CASE h \in DOMAIN heard BY <1>2, <2>4, <3>2 DEF Accounted, Noticed
    <3> QED BY <1>2, <3>1, <3>2
  <2>6. PICK state \in States : Outcome(e, state)
    BY <2>1, NewCall
  <2>7. call \in Seq(States) /\ stored \in Seq(Nat) /\ Len(call) + 1 \in Nat
    <3>1. stored \in Seq(DOMAIN issued) /\ DOMAIN issued \subseteq Nat
      BY DEF Types, TypeOK
    <3> QED BY <3>1 DEF Types, TypeOK, States
  <2>8. /\ DOMAIN call = 1..Len(call) /\ DOMAIN call' = 1..(Len(call) + 1)
        /\ call'[Len(call) + 1] = state /\ \A i \in 1..Len(call) : call'[i] = call[i]
    BY <2>6, <2>7, AppendProperties DEF Outcome
  <2>0. Len(call) = Len(issued) BY DEF Types, TypeOK
  <2>9. /\ Range(stored) \subseteq Range(stored')
        /\ stored' = Append(stored, Len(call) + 1) => Len(call) + 1 \in Range(stored')
    BY <2>6, <2>7, StoredGrows DEF Outcome
  <2>10. \A i \in 1..Len(call) : issued'[i] = issued[i] BY <2>0, <2>4, <2>8
  <2>11. issued'[Len(call) + 1] = e BY <2>0, <2>4
  <2>12. AnsweredIsStored'
    <3> SUFFICES ASSUME NEW i \in DOMAIN call', call'[i] = "answered"
                 PROVE  i \in Range(stored') \/ issued'[i].kind \in ignored'
      BY DEF AnsweredIsStored
    <3>1. CASE i = Len(call) + 1
      BY <1>1, <2>6, <2>8, <2>9, <2>11, <3>1 DEF Outcome
    <3>2. CASE i \in 1..Len(call)
      BY <1>1, <2>8, <2>9, <2>10, <3>2 DEF Accounted, AnsweredIsStored
    <3> QED BY <2>7, <2>8, <3>1, <3>2
  <2>13. Blameless'
    BY <1>1, <2>6, <2>7, <2>8, <2>10, <2>11 DEF Accounted, Blameless, Outcome
  <2> QED BY <2>5, <2>12, <2>13 DEF Accounted
<1> QED BY <1>3, <1>4

LEMMA AccountedNext == ASSUME Types, Accounted, [Next]_vars PROVE Accounted'
<1>0. faults \in Nat /\ (Fault => faults' # 0) BY DEF Types, TypeOK, Fault
<1>1. CASE \E event \in Events : CaptureEvent(event) BY <1>1, AccountedOfCapture
<1>2. ASSUME NEW i \in DOMAIN call, Reply(i) PROVE Accounted'
  <2>1. UNCHANGED <<way, ignored, issued, heard>>
    BY <1>2 DEF Reply, Serve, Refuse, Abort, Becomes, setup
  <2>2. Noticed' BY <2>1 DEF Accounted, Noticed
  <2>3. call \in Seq(States) /\ stored \in Seq(Nat) /\ i \in Nat
    <3>1. stored \in Seq(DOMAIN issued) /\ DOMAIN issued \subseteq Nat
      BY DEF Types, TypeOK
    <3> QED BY <3>1 DEF Types, TypeOK, States
  <2>4. CASE Serve(i)
    <3>1. /\ call' = [call EXCEPT ![i] = Verdict(issued[i])]
          /\ stored' = Kept(i, issued[i]) /\ faults' = faults
      BY <2>4 DEF Serve, Becomes
    <3>2. stored' \in {stored, Append(stored, i)} BY <3>1 DEF Kept
    <3>3. /\ Range(stored) \subseteq Range(stored')
          /\ stored' = Append(stored, i) => i \in Range(stored')
      BY <2>3, <3>2, StoredGrows
    <3>4. Verdict(issued[i]) = "answered" =>
            issued[i].content # Blank
            /\ (i \in Range(stored') \/ issued[i].kind \in ignored)
      BY <3>1, <3>3 DEF Verdict, Refused, Kept, Keeps
    <3>5. Verdict(issued[i]) = "answered" \/ issued[i].content = Blank
      BY DEF Verdict, Refused
    <3>6. /\ DOMAIN call' = DOMAIN call /\ call'[i] = Verdict(issued[i])
          /\ \A j \in DOMAIN call : j # i => call'[j] = call[j]
      BY <2>3, <3>1
    <3>7. AnsweredIsStored'
      BY <2>1, <3>3, <3>4, <3>6 DEF Accounted, AnsweredIsStored
    <3>8. Blameless' BY <2>1, <3>1, <3>5, <3>6 DEF Accounted, Blameless
    <3> QED BY <2>2, <3>7, <3>8 DEF Accounted
  <2>5. CASE Refuse(i) \/ Abort(i)
    <3>1. PICK state \in {"failed", "given up"} : call' = [call EXCEPT ![i] = state]
      BY <2>5 DEF Refuse, Abort, Becomes
    <3>2. stored' = stored /\ faults' # 0 BY <1>0, <2>5 DEF Refuse, Abort
    <3> QED BY <2>1, <2>2, <2>3, <3>1, <3>2 DEF Accounted, AnsweredIsStored, Blameless
  <2> QED BY <1>2, <2>4, <2>5 DEF Reply
<1>3. CASE \/ \E messages \in Prompts : BeforePromptBuild(messages)
           \/ \E items \in Recalled : Answer(items)
           \/ NoAnswer
           \/ UNCHANGED vars
  <2>1. UNCHANGED <<setup, capture>>
    BY <1>3 DEF BeforePromptBuild, Answer, NoAnswer, vars
  <2>2. faults' = 0 => faults = 0
    BY <1>0, <1>3 DEF BeforePromptBuild, Answer, NoAnswer, vars
  <2> QED BY <2>1, <2>2 DEF setup, capture, Accounted, Noticed,
                            AnsweredIsStored, Blameless
<1> QED BY <1>1, <1>2, <1>3 DEF Next

\* Every event that has any substance, in whichever of its shapes the host
\* sends it, has a call under its kind, and unless that call is on its way, has
\* met with a fault or is one that a policy ignores, AMM has stored the event
\* (captureEvent and its pickers, IngestEvent).
THEOREM NothingLost == Spec => []NothingMissing
<1>1. Init => Accounted
  BY DEF Init, Accounted, Noticed, AnsweredIsStored, Blameless
<1>2. Types /\ Accounted /\ [Next]_vars => Types' /\ Accounted'
  BY TypesNext, AccountedNext
<1>3. ASSUME Types, Accounted PROVE NothingMissing
  <2> SUFFICES ASSUME way # "none", NEW h \in DOMAIN heard,
                      Substantial(heard[h]), ~Blanked(heard[h])
               PROVE  \E i \in DOMAIN issued :
                        /\ issued[i].of = h /\ issued[i].kind = Hooked[heard[h].action].kind
                        /\ \/ i \in Range(stored)
                           \/ call[i] = "waiting"
                           \/ faults > 0 /\ call[i] \in {"given up", "failed"}
                           \/ issued[i].kind \in ignored
    BY DEF NothingMissing
  <2>1. PICK i \in DOMAIN issued : CallFor(heard[h], h, issued[i])
    BY <1>3 DEF Accounted, Noticed
  <2>2. i \in DOMAIN call /\ call[i] \in States /\ faults \in Nat
    BY <1>3 DEF Types, TypeOK, States
  <2>3. CASE call[i] = "answered"
    BY <1>3, <2>1, <2>2, <2>3 DEF Accounted, AnsweredIsStored, CallFor
  <2>4. CASE call[i] = "waiting" BY <2>1, <2>4 DEF CallFor
  <2>5. CASE call[i] \in {"given up", "failed"}
    <3>1. faults # 0 BY <1>3, <2>1, <2>2, <2>5 DEF Accounted, Blameless, CallFor
    <3>2. faults > 0 BY <2>2, <3>1
    <3> QED BY <2>1, <2>5, <3>2 DEF CallFor
  <2> QED BY <2>2, <2>3, <2>4, <2>5 DEF States, Unanswered
<1> QED BY <1>1, <1>2, <1>3, TypesInit, PTL DEF Spec

-----------------------------------------------------------------------------
(* What is injected.  The loop over the items is a recursive function, of    *)
(* which it is shown first that it exists.                                   *)

Items == [described : BOOLEAN]

\* One turn of the loop of renderRecall, after which `so` lines become more.
Turn(items, i, so) == IF items[i].described THEN Append(so, items[i]) ELSE so

IsLoop(f, items, n) ==
  f = [i \in 0..n |-> IF i = 0 THEN <<>> ELSE Turn(items, i, f[i - 1])]

\* The loop runs to the end.
LEMMA LoopExists ==
  ASSUME NEW items
  PROVE  \A n \in Nat : \E f : IsLoop(f, items, n)
<1> DEFINE Bad == {n \in Nat : ~\E f : IsLoop(f, items, n)}
<1> SUFFICES ASSUME Bad # {} PROVE FALSE OBVIOUS
<1>1. PICK m \in Bad : \A n \in Bad : m <= n
  <2>1. Bad \subseteq Nat OBVIOUS
  <2> HIDE DEF Bad
  <2> QED BY <2>1, LeastIndex
<1>2. m # 0
  <2> DEFINE f == [i \in 0..0 |-> <<>>]
  <2>1. f = [i \in 0..0 |-> IF i = 0 THEN <<>> ELSE Turn(items, i, f[i - 1])]
    OBVIOUS
  <2>2. IsLoop(f, items, 0) BY <2>1 DEF IsLoop
  <2> HIDE DEF f
  <2> QED BY <1>1, <2>2
<1>3. m - 1 \in Nat /\ m - 1 \notin Bad BY <1>1, <1>2
<1>4. PICK f : IsLoop(f, items, m - 1) BY <1>3
<1>5. /\ DOMAIN f = 0..(m - 1)
      /\ \A i \in 0..(m - 1) : f[i] = IF i = 0 THEN <<>> ELSE Turn(items, i, f[i - 1])
  BY <1>4, Zenon DEF IsLoop
<1> DEFINE g == [i \in 0..m |-> IF i = m THEN Turn(items, m, f[m - 1]) ELSE f[i]]
<1>6. ASSUME NEW i \in 0..m
      PROVE  g[i] = IF i = 0 THEN <<>> ELSE Turn(items, i, g[i - 1])
  <2>1. CASE i = m
    <3>1. m - 1 \in 0..m /\ m - 1 # m BY <1>2, <1>3
    <3>2. g[m - 1] = f[m - 1] BY <3>1
    <3> QED BY <1>2, <2>1, <3>2
  <2>2. CASE i = 0 BY <1>2, <1>3, <1>5, <2>2
  <2>3. CASE i # m /\ i # 0
    <3>1. i \in 0..(m - 1) /\ i - 1 \in 0..m /\ i - 1 # m BY <1>3, <2>3
    <3>2. g[i] = f[i] /\ g[i - 1] = f[i - 1] BY <2>3, <3>1
    <3> HIDE DEF g
    <3> QED BY <1>5, <2>3, <3>1, <3>2
  <2> QED BY <2>1, <2>2, <2>3
<1>7. g = [i \in 0..m |-> g[i]] OBVIOUS
<1> HIDE DEF g
<1>8. IsLoop(g, items, m) BY <1>6, <1>7 DEF IsLoop
<1> QED BY <1>1, <1>8

\* After i turns there are at most i lines, all of them described.
LEMMA LoopBounded ==
  ASSUME NEW items \in Seq(Items), NEW n \in Nat, n <= Len(items),
         NEW f, IsLoop(f, items, n)
  PROVE  \A i \in 0..n : /\ f[i] \in Seq(Items) /\ Len(f[i]) <= i
                         /\ \A k \in DOMAIN f[i] : f[i][k].described
<1> DEFINE Good(i) == /\ f[i] \in Seq(Items) /\ Len(f[i]) <= i
                      /\ \A k \in DOMAIN f[i] : f[i][k].described
           Bad == {i \in 0..n : ~Good(i)}
<1> SUFFICES ASSUME Bad # {} PROVE FALSE OBVIOUS
<1>1. PICK m \in Bad : \A i \in Bad : m <= i
  <2>1. Bad \subseteq Nat OBVIOUS
  <2> HIDE DEF Bad
  <2> QED BY <2>1, LeastIndex
<1>2. \A i \in 0..n : f[i] = IF i = 0 THEN <<>> ELSE Turn(items, i, f[i - 1])
  BY Zenon DEF IsLoop
<1>3. CASE m = 0
  <2>1. f[0] = <<>> BY <1>1, <1>2, <1>3
  <2>2. Good(0) BY <2>1
  <2> QED BY <1>1, <1>3, <2>2
<1>4. CASE m # 0
  <2>1. m \in 0..n /\ m - 1 \in 0..n BY <1>1, <1>4
  <2>2. Good(m - 1) BY <1>1, <2>1
  <2>3. f[m] = Turn(items, m, f[m - 1]) BY <1>2, <1>4, <2>1
  <2>4. items[m] \in Items BY <1>4, <2>1
  <2> DEFINE so == f[m - 1]
  <2>5. so \in Seq(Items) /\ Len(so) <= m - 1 /\ \A k \in DOMAIN so : so[k].described
    BY <2>2
  <2>6. Good(m)
    <3>1. CASE ~items[m].described
      <4>1. f[m] = so BY <2>3, <3>1 DEF Turn
      <4> HIDE DEF so
      <4> QED BY <2>1, <2>5, <4>1
    <3>2. CASE items[m].described
      <4>1. f[m] = Append(so, items[m]) BY <2>3, <3>2 DEF Turn
      <4> HIDE DEF so
      <4>2. /\ f[m] \in Seq(Items) /\ Len(f[m]) = Len(so) + 1
            /\ \A k \in 1..Len(so) : f[m][k] = so[k]
            /\ f[m][Len(so) + 1] = items[m]
        BY <2>4, <2>5, <4>1, AppendProperties
      <4>3. /\ Len(so) \in Nat /\ DOMAIN so = 1..Len(so)
            /\ DOMAIN f[m] = 1..(Len(so) + 1)
        BY <2>5, <4>2
      <4>4. \A k \in DOMAIN f[m] : f[m][k].described
        BY <2>5, <3>2, <4>2, <4>3
      <4> QED BY <2>1, <2>5, <4>2, <4>3, <4>4
    <3> QED BY <3>1, <3>2
  <2> HIDE DEF Good
  <2> QED BY <1>1, <2>6
<1> QED BY <1>3, <1>4

\* What renderRecall makes of any items.
LEMMA RenderedBounded ==
  ASSUME NEW items \in Seq(Items), NEW limit \in Nat \ {0}
  PROVE  /\ RenderRecall(items, limit) \in Seq(Items)
         /\ Len(RenderRecall(items, limit)) <= limit
         /\ \A k \in DOMAIN RenderRecall(items, limit) : RenderRecall(items, limit)[k].described
<1> DEFINE n == IF Len(items) < limit THEN Len(items) ELSE limit
           lines == CHOOSE f : f = [i \in 0..n |-> IF i = 0 THEN <<>>
                                      ELSE IF items[i].described
                                           THEN Append(f[i - 1], items[i])
                                           ELSE f[i - 1]]
<1>1. RenderRecall(items, limit) = lines[n] BY DEF RenderRecall
<1>2. n \in Nat /\ n <= Len(items) /\ n <= limit OBVIOUS
<1>3. lines = CHOOSE f : IsLoop(f, items, n) BY DEF IsLoop, Turn
<1> HIDE DEF n, lines
<1>4. IsLoop(lines, items, n)
  <2>1. \E f : IsLoop(f, items, n) BY <1>2, LoopExists
  <2> QED BY <1>3, <2>1
<1>5. n \in 0..n BY <1>2
<1>6. /\ lines[n] \in Seq(Items) /\ Len(lines[n]) <= n
      /\ \A k \in DOMAIN lines[n] : lines[n][k].described
  BY <1>2, <1>4, <1>5, LoopBounded
<1>7. Len(lines[n]) \in Nat BY <1>6
<1> QED BY <1>1, <1>2, <1>6, <1>7

Bounded == context \in Seq(Items) /\ ContextBounded

\* The memories put before a prompt never exceed the limit that follows from
\* the configuration, and each has a description, whatever AMM answers and
\* whether or not it was told of the limit (renderRecall, clampRecallLimit).
THEOREM ContextIsBounded == Spec => []ContextBounded
<1>1. ASSUME Types, Init PROVE Bounded
  BY <1>1 DEF Types, TypeOK, Init, Bounded, ContextBounded, Range
<1>2. ASSUME Types, Bounded, [Next]_vars PROVE Bounded'
  <2>0. conf.recallLimit \in Nat \ {0} BY <1>2 DEF Types, TypeOK
  <2>1. CASE UNCHANGED <<conf, context>>
    BY <1>2, <2>1 DEF Bounded, ContextBounded
  <2>2. ASSUME NEW messages \in Prompts, BeforePromptBuild(messages) PROVE Bounded'
    <3>1. conf' = conf /\ context' = <<>> BY <2>2 DEF BeforePromptBuild, setup
    <3> QED BY <2>0, <3>1 DEF Bounded, ContextBounded, Range
  <2>3. ASSUME NEW items \in Recalled, Answer(items) PROVE Bounded'
    <3>1. conf' = conf /\ context' = RenderRecall(items, conf.recallLimit)
      BY <2>3 DEF Answer, setup
    <3>2. items \in Seq(Items) BY ConstantsAssumption DEF Items
    <3>3. /\ context' \in Seq(Items) /\ Len(context') <= conf.recallLimit
          /\ \A k \in DOMAIN context' : context'[k].described
      BY <2>0, <3>1, <3>2, RenderedBounded
    <3> QED BY <3>1, <3>3 DEF Bounded, ContextBounded, Range
  <2>4. \/ UNCHANGED <<conf, context>>
        \/ \E messages \in Prompts : BeforePromptBuild(messages)
        \/ \E items \in Recalled : Answer(items)
    BY <1>2 DEF Next, CaptureEvent, Reply, Serve, Refuse, Abort, Becomes, NoAnswer, vars,
                setup, recalling
  <2> QED BY <2>1, <2>2, <2>3, <2>4
<1>3. Bounded => ContextBounded BY DEF Bounded
<1>4. Types /\ [Next]_vars => Types' BY TypesNext
<1> QED BY <1>1, <1>2, <1>3, <1>4, TypesInit, PTL DEF Spec
=============================================================================
