---------------------------- MODULE GatewayProofs ----------------------------
(***************************************************************************)
(* Proofs about Gateway, for every set of engines and clients, every size   *)
(* of the pipes and any number of calls.                                    *)
(***************************************************************************)
EXTENDS Gateway, TLAPS
-----------------------------------------------------------------------------
(* Types. *)

LEMMA SeqGrows ==
    ASSUME NEW S, NEW T, S \subseteq T, NEW s \in Seq(S) PROVE s \in Seq(T)
  OBVIOUS

LEMMA TypeInit == Init => TypeOK
  BY DEF Init, TypeOK, Kinds

\* What Send does.
LEMMA SendEffect ==
    ASSUME TypeOK, NEW k \in Numbers, NEW kind \in Kinds, Send(k, kind)
    PROVE  /\ Len(calls') = Len(calls) /\ Numbers' = Numbers
           /\ \A j \in Numbers \ {k} : calls'[j] = calls[j]
           /\ calls'[k] \in CallRecords
           /\ calls'[k].stage = kind /\ calls'[k].caller = calls[k].caller
           /\ \A e \in Engines : calls'[k].answer[e] = NoAnswer
           /\ calls' \in Seq(CallRecords)
           /\ \A e \in Engines : resolvers'[e] =
                  [resolvers[e] EXCEPT ![kind] = Append(@, k)]
           /\ resolvers' \in [Engines -> [Kinds -> Seq(Numbers)]]
           /\ \A e \in Engines : stdin'[e] =
                  IF engine[e] = "gone" THEN stdin[e]
                  ELSE Append(stdin[e], [kind |-> kind, call |-> k])
           /\ stdin' \in [Engines -> Seq(Commands)]
<1> DEFINE open == {e \in Engines : engine[e] # "gone"}
           queue == [e \in Engines |-> IF e \in open
                        THEN Append(stdin[e], [kind |-> kind, call |-> k]) ELSE stdin[e]]
           drained == [e \in Engines |-> e \in open /\ Len(queue[e]) - PipeLimit < HighWater]
           call == [caller |-> calls[k].caller, stage |-> kind, drained |-> drained,
                    answer |-> [e \in Engines |-> NoAnswer]]
<1>1. calls \in Seq(CallRecords) /\ k \in 1..Len(calls)
  BY DEF TypeOK, Numbers
<1>2. calls[k] \in CallRecords  BY <1>1
<1>3. calls' = [calls EXCEPT ![k] = call]
  BY <1>1 DEF Send, SendTo
<1>4. call \in CallRecords
  <2>1. drained \in [Engines -> BOOLEAN]  OBVIOUS
  <2> HIDE DEF drained
  <2> QED  BY <1>2, <2>1 DEF CallRecords, Kinds, Stages
<1> HIDE DEF call
<1>5. /\ Len(calls') = Len(calls) /\ calls' \in Seq(CallRecords) /\ calls'[k] = call
      /\ \A j \in 1..Len(calls) : j # k => calls'[j] = calls[j]
  BY <1>1, <1>3, <1>4
<1>6. stdin' = queue /\ resolvers' =
          [e \in Engines |-> [resolvers[e] EXCEPT ![kind] = Append(@, k)]]
  BY DEF Send, SendTo
<1>7. [kind |-> kind, call |-> k] \in Commands  BY DEF Commands
<1>8. stdin' \in [Engines -> Seq(Commands)]  BY <1>6, <1>7 DEF TypeOK
<1>9. resolvers' \in [Engines -> [Kinds -> Seq(Numbers)]]  BY <1>6 DEF TypeOK
<1> QED  BY <1>4, <1>5, <1>6, <1>8, <1>9 DEF call, Numbers

\* What changes the stage of a call only.
LEMMA StageEffect ==
    ASSUME TypeOK, NEW k \in Numbers, NEW stage \in Stages,
           calls' = [calls EXCEPT ![k].stage = stage]
    PROVE  /\ Len(calls') = Len(calls) /\ Numbers' = Numbers
           /\ \A j \in Numbers \ {k} : calls'[j] = calls[j]
           /\ calls'[k].stage = stage
           /\ calls'[k].answer = calls[k].answer
           /\ calls' \in Seq(CallRecords)
<1> DEFINE call == [calls[k] EXCEPT !.stage = stage]
<1>1. calls \in Seq(CallRecords) /\ k \in 1..Len(calls) /\ calls[k] \in CallRecords
  BY DEF TypeOK, Numbers
<1>2. call \in CallRecords /\ call.stage = stage /\ call.answer = calls[k].answer
  BY <1>1 DEF CallRecords
<1>3. calls' = [calls EXCEPT ![k] = call]  BY <1>1
<1> HIDE DEF call
<1> QED  BY <1>1, <1>2, <1>3 DEF Numbers

\* What Drained does to the calls.
LEMMA DrainedEffect ==
    ASSUME TypeOK, NEW e \in Engines, Drained(e)
    PROVE  /\ Len(calls') = Len(calls) /\ Numbers' = Numbers
           /\ \A j \in Numbers : /\ calls'[j].stage = calls[j].stage
                                 /\ calls'[j].answer = calls[j].answer
           /\ calls' \in Seq(CallRecords)
<1> DEFINE call(k) == IF Running(k) THEN [calls[k] EXCEPT !.drained[e] = TRUE] ELSE calls[k]
<1>1. calls \in Seq(CallRecords) /\ DOMAIN calls = Numbers
  BY DEF TypeOK, Numbers
<1>2. ASSUME NEW k \in Numbers
      PROVE  /\ call(k) \in CallRecords
             /\ call(k).stage = calls[k].stage
             /\ call(k).answer = calls[k].answer
  <2>1. calls[k] \in CallRecords  BY <1>1, <1>2
  <2>2. [calls[k].drained EXCEPT ![e] = TRUE] \in [Engines -> BOOLEAN]
    BY <2>1 DEF CallRecords
  <2> QED  BY <2>1, <2>2 DEF CallRecords
<1>3. calls' = [k \in Numbers |-> call(k)]  BY <1>1 DEF Drained
<1> HIDE DEF call
<1>4. calls' \in Seq(CallRecords) /\ Len(calls') = Len(calls)
  BY <1>1, <1>2, <1>3 DEF Numbers
<1> QED  BY <1>2, <1>3, <1>4 DEF Numbers

\* What Receive does: an answer for the call of the oldest resolver of its kind.
LEMMA ReceiveEffect ==
    ASSUME TypeOK, NEW e \in Engines, Receive(e)
    PROVE  /\ stdout[e] # <<>> /\ Head(stdout[e]) \in Answers
           /\ Len(calls') = Len(calls) /\ Numbers' = Numbers
           /\ \A j \in Numbers : calls'[j].stage = calls[j].stage
           /\ calls' \in Seq(CallRecords)
           /\ LET answer == Head(stdout[e])
                  waiting == resolvers[e][answer.kind]
              IN  /\ waiting = <<>> => UNCHANGED <<calls, resolvers>>
                  /\ waiting # <<>> =>
                       /\ Head(waiting) \in Numbers
                       /\ resolvers' = [resolvers EXCEPT ![e][answer.kind] = Tail(@)]
                  /\ \A j \in Numbers, d \in Engines :
                       \/ calls'[j].answer[d] = calls[j].answer[d]
                       \/ /\ waiting # <<>> /\ j = Head(waiting) /\ d = e
                          /\ calls[j].stage = answer.kind
                          /\ calls'[j].answer[d] = answer
           /\ stdout' \in [Engines -> Seq(Answers)]
           /\ resolvers' \in [Engines -> [Kinds -> Seq(Numbers)]]
<1> DEFINE answer == Head(stdout[e])
           waiting == resolvers[e][answer.kind]
           k == Head(waiting)
<1>1. calls \in Seq(CallRecords) /\ DOMAIN calls = Numbers
  BY DEF TypeOK, Numbers
<1>0. stdout[e] \in Seq(Answers) /\ stdout[e] # <<>>
  BY DEF TypeOK, Receive
<1>2. answer \in Answers /\ answer.kind \in Kinds /\ Tail(stdout[e]) \in Seq(Answers)
  <2>1. answer \in Answers /\ Tail(stdout[e]) \in Seq(Answers)  BY <1>0
  <2> QED  BY <2>1 DEF Answers
<1>3. waiting \in Seq(Numbers)  BY <1>2 DEF TypeOK
<1>4. stdout' \in [Engines -> Seq(Answers)]  BY <1>2 DEF Receive, TypeOK
<1>5. CASE waiting = <<>>
  <2>1. UNCHANGED <<calls, resolvers>>  BY <1>5 DEF Receive
  <2> QED  BY <1>0, <1>1, <1>2, <1>4, <1>5, <2>1 DEF TypeOK, Numbers
<1>6. CASE waiting # <<>>
  <2>1. k \in Numbers /\ Tail(waiting) \in Seq(Numbers)  BY <1>3, <1>6
  <2>2. resolvers' = [resolvers EXCEPT ![e][answer.kind] = Tail(@)]
    BY <1>6 DEF Receive
  <2>3. resolvers' \in [Engines -> [Kinds -> Seq(Numbers)]]
    BY <1>2, <2>1, <2>2 DEF TypeOK
  <2>4. CASE calls[k].stage # answer.kind
    <3>1. UNCHANGED calls  BY <1>6, <2>4 DEF Receive
    <3> QED  BY <1>0, <1>1, <1>2, <1>4, <1>6, <2>1, <2>2, <2>3, <3>1 DEF Numbers
  <2>5. CASE calls[k].stage = answer.kind
    <3> DEFINE call == [calls[k] EXCEPT !.answer[e] = answer]
    <3>1. calls' = [calls EXCEPT ![k].answer[e] = answer]  BY <1>6, <2>5 DEF Receive
    <3>2. calls' = [calls EXCEPT ![k] = call]  BY <1>1, <2>1, <3>1
    <3>3. calls[k] \in CallRecords  BY <1>1, <2>1
    <3>4. [calls[k].answer EXCEPT ![e] = answer] \in [Engines -> Answers \cup {NoAnswer}]
      BY <1>2, <3>3 DEF CallRecords
    <3>5. /\ call \in CallRecords /\ call.stage = calls[k].stage
          /\ call.answer = [calls[k].answer EXCEPT ![e] = answer]
      BY <3>3, <3>4 DEF CallRecords
    <3>6. \A d \in Engines :
              call.answer[d] = IF d = e THEN answer ELSE calls[k].answer[d]
      BY <3>3, <3>5 DEF CallRecords
    <3> HIDE DEF call
    <3> HIDE DEF answer, waiting, k
    <3>7. calls' \in Seq(CallRecords) /\ Len(calls') = Len(calls)
      BY <1>1, <2>1, <3>2, <3>5 DEF Numbers
    <3>8. \A j \in Numbers : calls'[j] = IF j = k THEN call ELSE calls[j]
      BY <1>1, <2>1, <3>2 DEF Numbers
    <3> USE DEF answer, waiting, k
    <3> QED  BY <1>0, <1>1, <1>2, <1>4, <1>6, <2>1, <2>2, <2>3, <2>5, <3>5, <3>6, <3>7, <3>8
             DEF Numbers
  <2> QED  BY <2>4, <2>5
<1> QED  BY <1>5, <1>6

\* What Serve does.
LEMMA ServeEffect ==
    ASSUME TypeOK, NEW e \in Engines, Serve(e)
    PROVE  LET command == Head(stdin[e])
           IN  /\ engine[e] = "up" /\ stdin[e] # <<>> /\ command \in Commands
               /\ stdin' = [stdin EXCEPT ![e] = Tail(@)]
               /\ Tail(stdin[e]) \in Seq(Commands)
               /\ applied' = IF command.kind = "batch"
                             THEN [applied EXCEPT ![e] = Append(@, command.call)]
                             ELSE applied
               /\ applied' \in [Engines -> Seq(Numbers)]
               /\ [kind |-> command.kind, call |-> command.call, book |-> applied'[e]]
                      \in Answers
               /\ stdout' = [stdout EXCEPT ![e] = Append(@,
                     [kind |-> command.kind, call |-> command.call, book |-> applied'[e]])]
               /\ UNCHANGED <<calls, resolvers, engine, gateway>>
<1> DEFINE command == Head(stdin[e])
<1>1. stdin[e] \in Seq(Commands) /\ stdin[e] # <<>> /\ engine[e] = "up"
  BY DEF TypeOK, Serve
<1>2. command \in Commands /\ Tail(stdin[e]) \in Seq(Commands)  BY <1>1
<1>3. command.kind \in Kinds /\ command.call \in Numbers  BY <1>2 DEF Commands
<1>4. /\ applied' = IF command.kind = "batch"
                    THEN [applied EXCEPT ![e] = Append(@, command.call)] ELSE applied
      /\ stdin' = [stdin EXCEPT ![e] = Tail(@)]
      /\ stdout' = [stdout EXCEPT ![e] = Append(@,
             [kind |-> command.kind, call |-> command.call, book |-> applied'[e]])]
      /\ UNCHANGED <<calls, resolvers, engine, gateway>>
  BY DEF Serve
<1>5. applied' \in [Engines -> Seq(Numbers)]
  <2>1. CASE command.kind = "batch"  BY <1>3, <1>4, <2>1 DEF TypeOK
  <2>2. CASE command.kind # "batch"  BY <1>4, <2>2 DEF TypeOK
  <2> QED  BY <2>1, <2>2
<1>6. [kind |-> command.kind, call |-> command.call, book |-> applied'[e]] \in Answers
  BY <1>3, <1>5 DEF Answers
<1> QED  BY <1>1, <1>2, <1>4, <1>5, <1>6

\* A new call, behind the others.
LEMMA CallEffect ==
    ASSUME TypeOK, NEW caller \in Clients \cup {Stream}, Call(caller)
    PROVE  /\ Len(calls') = Len(calls) + 1
           /\ Numbers' = Numbers \cup {Len(calls) + 1} /\ Len(calls) + 1 \notin Numbers
           /\ \A j \in Numbers : calls'[j] = calls[j]
           /\ calls'[Len(calls) + 1].stage = "queued"
           /\ \A e \in Engines : calls'[Len(calls) + 1].answer[e] = NoAnswer
           /\ Commands \subseteq Commands' /\ Answers \subseteq Answers'
           /\ calls' \in Seq(CallRecords')
<1> DEFINE new == [caller |-> caller, stage |-> "queued",
                   drained |-> [e \in Engines |-> FALSE],
                   answer |-> [e \in Engines |-> NoAnswer]]
<1>1. calls \in Seq(CallRecords) /\ calls' = Append(calls, new) /\ Len(calls) \in Nat
  BY DEF TypeOK, Call
<1>2. /\ Len(calls') = Len(calls) + 1
      /\ \A j \in Numbers : calls'[j] = calls[j]
      /\ calls'[Len(calls) + 1] = new
      /\ Numbers' = Numbers \cup {Len(calls) + 1} /\ Len(calls) + 1 \notin Numbers
  BY <1>1 DEF Numbers
<1>3. Commands \subseteq Commands'  BY <1>2 DEF Commands
<1>4. Answers \subseteq Answers'
  <2>1. \A s \in Seq(Numbers) : s \in Seq(Numbers')  BY <1>2, SeqGrows
  <2> QED  BY <1>2, <2>1 DEF Answers
<1>5. CallRecords \subseteq CallRecords'  BY <1>4 DEF CallRecords
<1>6. new \in CallRecords'  BY DEF CallRecords, Stages
<1>7. calls' \in Seq(CallRecords')
  <2>1. calls \in Seq(CallRecords')  BY <1>1, <1>5, SeqGrows
  <2> QED  BY <1>1, <1>6, <2>1
<1> QED  BY <1>2, <1>3, <1>4, <1>7

LEMMA TypeStep == TypeOK /\ [Next]_vars => TypeOK'
<1> SUFFICES ASSUME TypeOK, [Next]_vars PROVE TypeOK'  OBVIOUS
<1>1. ASSUME NEW caller \in Clients \cup {Stream}, Call(caller) PROVE TypeOK'
  <2>1. /\ Numbers \subseteq Numbers' /\ Commands \subseteq Commands'
        /\ Answers \subseteq Answers' /\ calls' \in Seq(CallRecords')
    BY <1>1, CallEffect
  <2>2. UNCHANGED <<stdin, stdout, resolvers, applied, engine, gateway>>
    BY <1>1 DEF Call
  <2>3. \A e \in Engines : /\ stdin[e] \in Seq(Commands') /\ stdout[e] \in Seq(Answers')
                           /\ applied[e] \in Seq(Numbers')
    BY <2>1, SeqGrows DEF TypeOK
  <2>4. \A e \in Engines : \A kind \in Kinds : resolvers[e][kind] \in Seq(Numbers')
    BY <2>1, SeqGrows DEF TypeOK
  <2>5. resolvers \in [Engines -> [Kinds -> Seq(Numbers')]]  BY <2>4 DEF TypeOK
  <2> QED  BY <2>1, <2>2, <2>3, <2>5 DEF TypeOK
<1>2. ASSUME NEW k \in Numbers, Start(k) \/ BatchDone(k) PROVE TypeOK'
  <2>1. PICK kind \in Kinds : Send(k, kind)
    BY <1>2 DEF Start, BatchDone, Kinds
  <2>2. UNCHANGED <<stdout, applied, engine, gateway>>  BY <1>2 DEF Start, BatchDone
  <2>3. Commands' = Commands /\ Answers' = Answers /\ CallRecords' = CallRecords
    BY <2>1, SendEffect DEF Commands, Answers, CallRecords
  <2>4. \A e \in Engines : engine[e] = "gone" => stdin'[e] = <<>>
    BY <2>1, SendEffect DEF TypeOK
  <2> QED  BY <2>1, <2>2, <2>3, <2>4, SendEffect DEF TypeOK
<1>3. ASSUME NEW k \in Numbers, NEW stage \in {"resolved", "rejected"},
             calls' = [calls EXCEPT ![k].stage = stage],
             UNCHANGED <<stdin, stdout, resolvers, applied, engine>>,
             gateway' \in {"up", "crashed"}
      PROVE  TypeOK'
  <2>1. stage \in Stages  BY DEF Stages
  <2>2. Numbers' = Numbers /\ calls' \in Seq(CallRecords)  BY <1>3, <2>1, StageEffect
  <2>3. Commands' = Commands /\ Answers' = Answers /\ CallRecords' = CallRecords
    BY <2>2 DEF Commands, Answers, CallRecords
  <2> QED  BY <1>3, <2>2, <2>3 DEF TypeOK
<1>4. ASSUME NEW k \in Numbers, SnapshotDone(k) PROVE TypeOK'
  BY <1>3, <1>4 DEF SnapshotDone, TypeOK
<1>5. ASSUME NEW k \in Numbers, NEW e \in Engines, Timeout(k, e) PROVE TypeOK'
  BY <1>3, <1>5 DEF Timeout, Reject
<1>6. ASSUME NEW e \in Engines, Drained(e) PROVE TypeOK'
  <2>1. Numbers' = Numbers /\ calls' \in Seq(CallRecords)  BY <1>6, DrainedEffect
  <2>2. Commands' = Commands /\ Answers' = Answers /\ CallRecords' = CallRecords
    BY <2>1 DEF Commands, Answers, CallRecords
  <2> QED  BY <1>6, <2>1, <2>2 DEF TypeOK, Drained
<1>7. ASSUME NEW e \in Engines, Receive(e) PROVE TypeOK'
  <2>1. /\ Numbers' = Numbers /\ calls' \in Seq(CallRecords)
        /\ stdout' \in [Engines -> Seq(Answers)]
        /\ resolvers' \in [Engines -> [Kinds -> Seq(Numbers)]]
    BY <1>7, ReceiveEffect
  <2>2. Commands' = Commands /\ Answers' = Answers /\ CallRecords' = CallRecords
    BY <2>1 DEF Commands, Answers, CallRecords
  <2> QED  BY <1>7, <2>1, <2>2 DEF TypeOK, Receive
<1>8. ASSUME NEW e \in Engines, Serve(e) PROVE TypeOK'
  <2> DEFINE command == Head(stdin[e])
             answer == [kind |-> command.kind, call |-> command.call, book |-> applied'[e]]
  <2>1. /\ engine[e] = "up" /\ UNCHANGED <<calls, resolvers, engine, gateway>>
        /\ Tail(stdin[e]) \in Seq(Commands) /\ stdin' = [stdin EXCEPT ![e] = Tail(@)]
        /\ answer \in Answers /\ stdout' = [stdout EXCEPT ![e] = Append(@, answer)]
        /\ applied' \in [Engines -> Seq(Numbers)]
    BY <1>8, ServeEffect
  <2> HIDE DEF answer
  <2>2. stdout' \in [Engines -> Seq(Answers)]  BY <2>1 DEF TypeOK
  <2>3. /\ stdin' \in [Engines -> Seq(Commands)]
        /\ \A d \in Engines : engine[d] = "gone" => stdin'[d] = <<>>
    BY <2>1 DEF TypeOK
  <2>4. /\ Numbers' = Numbers /\ Commands' = Commands /\ Answers' = Answers
        /\ CallRecords' = CallRecords
    BY <2>1 DEF Numbers, Commands, Answers, CallRecords
  <2> QED  BY <2>1, <2>2, <2>3, <2>4 DEF TypeOK
<1>9. ASSUME NEW e \in Engines, Exit(e) \/ BrokenPipe(e) \/ ExitSeen(e) PROVE TypeOK'
  <2>1. UNCHANGED <<calls, stdout, resolvers, applied>>
    BY <1>9 DEF Exit, BrokenPipe, ExitSeen
  <2>2. /\ Numbers' = Numbers /\ Commands' = Commands /\ Answers' = Answers
        /\ CallRecords' = CallRecords
    BY <2>1 DEF Numbers, Commands, Answers, CallRecords
  <2>3. CASE Exit(e)
    <3>1. stdin[e] \in Seq(Commands) /\ PipeLimit + 1 \in Nat /\ PipeLimit + 1 >= 1
      BY BufferAssumption DEF TypeOK
    <3>2. SubSeq(stdin[e], PipeLimit + 1, Len(stdin[e])) \in Seq(Commands)  BY <3>1
    <3> QED  BY <2>1, <2>2, <2>3, <3>2 DEF TypeOK, Exit
  <2>4. CASE BrokenPipe(e)  BY <2>1, <2>2, <2>4 DEF TypeOK, BrokenPipe
  <2>5. CASE ExitSeen(e)
    <3>1. <<>> \in Seq(Commands)  OBVIOUS
    <3> QED  BY <2>1, <2>2, <2>5, <3>1 DEF TypeOK, ExitSeen
  <2> QED  BY <1>9, <2>3, <2>4, <2>5
<1>10. CASE UNCHANGED vars
  <2>1. /\ Numbers' = Numbers /\ Commands' = Commands /\ Answers' = Answers
        /\ CallRecords' = CallRecords
    BY <1>10 DEF vars, Numbers, Commands, Answers, CallRecords
  <2> QED  BY <1>10, <2>1 DEF vars, TypeOK
<1>11. DOMAIN calls = Numbers  BY DEF TypeOK, Numbers
<1> QED
  BY <1>1, <1>2, <1>4, <1>5, <1>6, <1>7, <1>8, <1>9, <1>10, <1>11 DEF Next, CallStep

\* The types of the gateway, of its calls and its pipes, for any number of engines,
\* clients and calls (server.js:147-257, :423-427).
THEOREM TypeCorrect == Spec => []TypeOK
  BY TypeInit, TypeStep, PTL DEF Spec
-----------------------------------------------------------------------------
(* One call at a time. *)

\* The steps, by what they do to the stages of the calls.
StageSteps ==
    \/ Len(calls') = Len(calls) /\ \A j \in Numbers : calls'[j].stage = calls[j].stage
    \/ /\ Len(calls') = Len(calls) + 1 /\ calls'[Len(calls) + 1].stage = "queued"
       /\ \A j \in Numbers : calls'[j].stage = calls[j].stage
    \/ \E k \in Numbers :
          /\ Len(calls') = Len(calls)
          /\ \A j \in Numbers \ {k} : calls'[j].stage = calls[j].stage
          /\ \/ /\ calls[k].stage = "queued" /\ calls'[k].stage = "batch"
                /\ k > 1 => Settled(k - 1)
             \/ calls[k].stage = "batch" /\ calls'[k].stage = "snapshot"
             \/ calls[k].stage = "snapshot" /\ calls'[k].stage = "resolved"
             \/ calls[k].stage \in Kinds /\ calls'[k].stage = "rejected"

LEMMA NumbersDomain == TypeOK => DOMAIN calls = Numbers /\ Len(calls) \in Nat
  BY DEF TypeOK, Numbers

LEMMA StageStep == ASSUME TypeOK, [Next]_vars PROVE StageSteps
<1>1. ASSUME NEW caller \in Clients \cup {Stream}, Call(caller) PROVE StageSteps
  BY <1>1, CallEffect DEF StageSteps
<1>2. ASSUME NEW k \in Numbers, Start(k) PROVE StageSteps
  BY <1>2, SendEffect DEF StageSteps, Start, Kinds
<1>3. ASSUME NEW k \in Numbers, BatchDone(k) PROVE StageSteps
  BY <1>3, SendEffect DEF StageSteps, BatchDone, Kinds
<1>4. ASSUME NEW k \in Numbers, SnapshotDone(k) PROVE StageSteps
  BY <1>4, StageEffect DEF StageSteps, SnapshotDone, Stages
<1>5. ASSUME NEW k \in Numbers, NEW e \in Engines, Timeout(k, e) PROVE StageSteps
  BY <1>5, StageEffect DEF StageSteps, Timeout, Reject, Running, Stages
<1>6. ASSUME NEW e \in Engines, Drained(e) PROVE StageSteps
  BY <1>6, DrainedEffect DEF StageSteps
<1>7. ASSUME NEW e \in Engines, Receive(e) PROVE StageSteps
  BY <1>7, ReceiveEffect DEF StageSteps
<1>8. ASSUME UNCHANGED calls PROVE StageSteps  BY <1>8 DEF StageSteps
<1> QED
  BY <1>1, <1>2, <1>3, <1>4, <1>5, <1>6, <1>7, <1>8, NumbersDomain
     DEF Next, CallStep, Serve, Exit, BrokenPipe, ExitSeen, vars

\* A call talks to the engines when all calls before it are settled: Start's guard looks at
\* the call just before it, and that one at the one before (server.js:423-427).
CallsInOrder ==
    \A j, k \in DOMAIN calls : j < k /\ calls[k].stage # "queued" => Settled(j)

LEMMA OrderStep == TypeOK /\ TypeOK' /\ CallsInOrder /\ [Next]_vars => CallsInOrder'
<1> SUFFICES ASSUME TypeOK, TypeOK', CallsInOrder, StageSteps,
                    NEW j \in Numbers', NEW k \in Numbers',
                    j < k, calls'[k].stage # "queued"
             PROVE  Settled(j)'
  <2>1. TypeOK' => (DOMAIN calls = Numbers)'  BY NumbersDomain, PTL
  <2> QED  BY <2>1, StageStep DEF CallsInOrder
<1> USE DEF Settled
<1>1. DOMAIN calls = Numbers /\ Len(calls) \in Nat /\ Numbers = 1..Len(calls)
      /\ Numbers' = 1..Len(calls')
  BY NumbersDomain DEF Numbers
<1>2. \A i, m \in Numbers : i < m /\ calls[m].stage # "queued" => Settled(i)
  BY <1>1 DEF CallsInOrder
<1>3. CASE Len(calls') = Len(calls) /\ \A i \in Numbers : calls'[i].stage = calls[i].stage
  BY <1>1, <1>2, <1>3
<1>4. CASE /\ Len(calls') = Len(calls) + 1 /\ calls'[Len(calls) + 1].stage = "queued"
           /\ \A i \in Numbers : calls'[i].stage = calls[i].stage
  <2>1. calls'[k].stage # calls'[Len(calls) + 1].stage  BY <1>4
  <2>2. k # Len(calls) + 1  BY <2>1
  <2>3. j \in Numbers /\ k \in Numbers  BY <1>1, <1>4, <2>2
  <2> QED  BY <1>2, <1>4, <2>3
<1>5. ASSUME NEW m \in Numbers, Len(calls') = Len(calls),
             \A i \in Numbers \ {m} : calls'[i].stage = calls[i].stage
      PROVE  /\ (calls[m].stage = "queued" /\ (m > 1 => Settled(m - 1))) => Settled(j)'
             /\ (calls[m].stage # "queued" /\ (~ Settled(m) \/ Settled(m)')) => Settled(j)'
  <2>1. j \in Numbers /\ k \in Numbers  BY <1>1, <1>5
  <2>2. ASSUME calls[m].stage = "queued", m > 1 => Settled(m - 1) PROVE Settled(j)'
    <3>1. CASE k = m
      <4>1. m > 1 /\ m - 1 \in Numbers /\ (j = m - 1 \/ j < m - 1) /\ j # m
        BY <1>1, <2>1, <3>1
      <4>2. Settled(m - 1)  BY <2>2, <4>1
      <4>3. calls[m - 1].stage # "queued"  BY <4>2
      <4>4. Settled(j)  BY <1>2, <2>1, <4>1, <4>2, <4>3
      <4> QED  BY <1>5, <2>1, <4>1, <4>4
    <3>2. CASE k # m
      <4>1. Settled(j)  BY <1>2, <1>5, <2>1, <3>2
      <4> QED  BY <1>5, <2>1, <2>2, <4>1
    <3> QED  BY <3>1, <3>2
  <2>3. ASSUME calls[m].stage # "queued", ~ Settled(m) \/ Settled(m)' PROVE Settled(j)'
    <3>1. calls[k].stage # "queued"  BY <1>5, <2>1, <2>3
    <3>2. Settled(j)  BY <1>2, <2>1, <3>1
    <3> QED  BY <1>5, <2>1, <2>3, <3>2
  <2> QED  BY <2>2, <2>3
<1>6. CASE \E m \in Numbers :
          /\ Len(calls') = Len(calls)
          /\ \A i \in Numbers \ {m} : calls'[i].stage = calls[i].stage
          /\ \/ /\ calls[m].stage = "queued" /\ calls'[m].stage = "batch"
                /\ m > 1 => Settled(m - 1)
             \/ calls[m].stage = "batch" /\ calls'[m].stage = "snapshot"
             \/ calls[m].stage = "snapshot" /\ calls'[m].stage = "resolved"
             \/ calls[m].stage \in Kinds /\ calls'[m].stage = "rejected"
  BY <1>5, <1>6 DEF Kinds
<1> QED  BY <1>3, <1>4, <1>6 DEF StageSteps

\* A call talks to the engines when all calls before it are settled, whichever of them
\* failed (server.js:423-427).
LEMMA CallsTakeTurns == Spec => []CallsInOrder
<1>1. Init => CallsInOrder  BY DEF Init, CallsInOrder
<1> QED  BY <1>1, OrderStep, TypeCorrect, PTL DEF Spec

\* However the calls before ended, one call at a time talks to the engines
\* (server.js:423-427).
THEOREM OneCallInFlight == Spec => []OneInFlight
<1>1. TypeOK /\ CallsInOrder => OneInFlight
  <2> SUFFICES ASSUME TypeOK, CallsInOrder, NEW j \in DOMAIN calls, NEW k \in DOMAIN calls,
                      Running(j), Running(k), j # k
               PROVE  FALSE
    BY DEF OneInFlight
  <2>1. j < k \/ k < j  BY NumbersDomain DEF Numbers
  <2> QED  BY <2>1 DEF CallsInOrder, Running, Settled, Kinds
<1> QED  BY <1>1, CallsTakeTurns, TypeCorrect, PTL
-----------------------------------------------------------------------------
(* Commands and answers keep the order of the calls. *)

LEMMA OrderedTail ==
    ASSUME NEW S, NEW s \in Seq(S), s # <<>>, InOrder(s)
    PROVE  /\ InOrder(Tail(s))
           /\ \A i \in DOMAIN Tail(s) : Precedes(Head(s), Tail(s)[i])
<1>1. \A i \in DOMAIN Tail(s) : i + 1 \in DOMAIN s /\ Tail(s)[i] = s[i + 1] /\ i \in Nat \ {0}
  OBVIOUS
<1>2. 1 \in DOMAIN s /\ Head(s) = s[1]  OBVIOUS
<1>3. \A i \in DOMAIN Tail(s) : Precedes(Head(s), Tail(s)[i])
  <2> SUFFICES ASSUME NEW i \in DOMAIN Tail(s) PROVE Precedes(s[1], s[i + 1])
    BY <1>1, <1>2
  <2>1. 1 < i + 1  BY <1>1
  <2> QED  BY <1>1, <1>2, <2>1 DEF InOrder
<1>4. InOrder(Tail(s))
  <2> SUFFICES ASSUME NEW i \in DOMAIN Tail(s), NEW j \in DOMAIN Tail(s), i < j
               PROVE  Precedes(s[i + 1], s[j + 1])
    BY <1>1 DEF InOrder
  <2>1. i + 1 < j + 1  BY <1>1
  <2> QED  BY <1>1, <2>1 DEF InOrder
<1> QED  BY <1>3, <1>4

LEMMA OrderedAppend ==
    ASSUME NEW S, NEW s \in Seq(S), NEW x, InOrder(s),
           \A i \in DOMAIN s : Precedes(s[i], x)
    PROVE  InOrder(Append(s, x))
<1> DEFINE t == Append(s, x)
<1>1. /\ DOMAIN t = DOMAIN s \cup {Len(s) + 1} /\ t[Len(s) + 1] = x
      /\ \A i \in DOMAIN s : t[i] = s[i] /\ i < Len(s) + 1 /\ i \in Nat
      /\ Len(s) \in Nat
  OBVIOUS
<1> HIDE DEF t
<1> SUFFICES ASSUME NEW i \in DOMAIN t, NEW j \in DOMAIN t, i < j
             PROVE  Precedes(t[i], t[j])
  BY DEF InOrder, t
<1>2. i \in DOMAIN s  BY <1>1
<1>3. CASE j \in DOMAIN s  BY <1>1, <1>2, <1>3 DEF InOrder
<1>4. CASE j = Len(s) + 1  BY <1>1, <1>2, <1>4
<1> QED  BY <1>1, <1>3, <1>4

\* The same of the state after a step.
SentThen(k, kind) ==
    /\ calls'[k].stage # "queued"
    /\ kind = "snapshot" => calls'[k].stage # "batch"

LEMMA SentStays ==
    ASSUME TypeOK, StageSteps, NEW k \in Numbers, NEW kind, HasSent(k, kind)
    PROVE  SentThen(k, kind)
  BY DEF StageSteps, HasSent, SentThen

\* Whoever has sent a command when call k sends its next one, is before it.
LEMMA SentBefore ==
    ASSUME TypeOK, CallsInOrder, NEW k \in Numbers, NEW kind \in Kinds,
           NEW j \in Numbers, NEW sent \in Kinds, HasSent(j, sent),
           \/ kind = "batch" /\ calls[k].stage = "queued"
           \/ kind = "snapshot" /\ calls[k].stage = "batch"
    PROVE  j < k \/ (j = k /\ sent = "batch" /\ kind = "snapshot")
<1>1. j < k \/ j = k \/ k < j  BY DEF Numbers
<1>2. ~ k < j  BY NumbersDomain DEF CallsInOrder, HasSent, Settled
<1>3. j = k => sent = "batch" /\ kind = "snapshot"  BY DEF HasSent, Kinds
<1> QED  BY <1>1, <1>2, <1>3

OrderedPipe(e) ==
    /\ InOrder(stdout[e]) /\ InOrder(Pending(e))
    /\ \A i \in DOMAIN stdout[e], j \in DOMAIN Pending(e) :
          Precedes(stdout[e][i], Pending(e)[j])
    /\ \A i \in DOMAIN stdout[e] : HasSent(stdout[e][i].call, stdout[e][i].kind)
    /\ \A i \in DOMAIN Pending(e) : HasSent(Pending(e)[i].call, Pending(e)[i].kind)

LEMMA PipeTypes ==
    ASSUME TypeOK, NEW e \in Engines
    PROVE  /\ stdout[e] \in Seq(Answers) /\ Pending(e) \in Seq(Commands)
           /\ \A i \in DOMAIN stdout[e] :
                 stdout[e][i].call \in Numbers /\ stdout[e][i].kind \in Kinds
           /\ \A i \in DOMAIN Pending(e) :
                 Pending(e)[i].call \in Numbers /\ Pending(e)[i].kind \in Kinds
<1>1. stdout[e] \in Seq(Answers) /\ Pending(e) \in Seq(Commands)
  BY DEF TypeOK, Pending
<1>2. \A i \in DOMAIN stdout[e] : stdout[e][i] \in Answers  BY <1>1
<1>3. \A i \in DOMAIN Pending(e) : Pending(e)[i] \in Commands  BY <1>1
<1> QED  BY <1>1, <1>2, <1>3 DEF Answers, Commands

\* The pipes of e stay as they are, or lose commands that are not served any more.
LEMMA PipeQuiet ==
    ASSUME TypeOK, StageSteps, NEW e \in Engines, OrderedPipe(e), stdout'[e] = stdout[e],
           Pending(e)' = Pending(e) \/ Pending(e)' = <<>>
    PROVE  OrderedPipe(e)'
<1>1. /\ \A i \in DOMAIN stdout[e] : SentThen(stdout[e][i].call, stdout[e][i].kind)
      /\ \A i \in DOMAIN Pending(e) : SentThen(Pending(e)[i].call, Pending(e)[i].kind)
  BY PipeTypes, SentStays DEF OrderedPipe
<1>2. CASE Pending(e)' = Pending(e)  BY <1>1, <1>2 DEF OrderedPipe, InOrder, HasSent, SentThen
<1>3. CASE Pending(e)' = <<>>  BY <1>1, <1>3 DEF OrderedPipe, InOrder, HasSent, SentThen
<1> QED  BY <1>2, <1>3

\* Call k sends a command of this kind.
Sends(k, kind) ==
    /\ Send(k, kind) /\ UNCHANGED <<stdout, applied, engine, gateway>>
    /\ \/ kind = "batch" /\ calls[k].stage = "queued"
       \/ kind = "snapshot" /\ calls[k].stage = "batch"

LEMMA PipeSend ==
    ASSUME TypeOK, CallsInOrder, StageSteps, NEW k \in Numbers, NEW kind \in Kinds,
           Sends(k, kind), NEW e \in Engines, OrderedPipe(e)
    PROVE  OrderedPipe(e)'
<1> DEFINE command == [kind |-> kind, call |-> k]
<1>1. stdout' = stdout /\ engine' = engine  BY DEF Sends
<1>2. CASE engine[e] # "up"
  <2>1. Pending(e)' = Pending(e)  BY <1>1, <1>2 DEF Pending
  <2> QED  BY <1>1, <2>1, PipeQuiet
<1>3. CASE engine[e] = "up"
  <2>1. Pending(e) = stdin[e] /\ Pending(e)' = Append(Pending(e), command)
    BY ZenonT(60), <1>1, <1>3, SendEffect DEF Sends, Pending
  <2>2. SentThen(k, kind)
    <3>1. calls'[k].stage = kind  BY SendEffect DEF Sends
    <3> QED  BY <3>1 DEF SentThen, Kinds
  <2>3. \A i \in DOMAIN Pending(e) : Precedes(Pending(e)[i], command)
    BY PipeTypes, SentBefore DEF OrderedPipe, Precedes, Sends
  <2>4. \A i \in DOMAIN stdout[e] : Precedes(stdout[e][i], command)
    BY PipeTypes, SentBefore DEF OrderedPipe, Precedes, Sends
  <2>5. InOrder(Pending(e)')
    BY <2>1, <2>3, OrderedAppend, PipeTypes DEF OrderedPipe
  <2>6. \A i \in DOMAIN Pending(e)' :
            \/ i \in DOMAIN Pending(e) /\ Pending(e)'[i] = Pending(e)[i]
            \/ Pending(e)'[i] = command
    BY <2>1, PipeTypes
  <2>7. \A i \in DOMAIN stdout[e] : SentThen(stdout[e][i].call, stdout[e][i].kind)
    BY PipeTypes, SentStays DEF OrderedPipe
  <2>8. \A i \in DOMAIN Pending(e) : SentThen(Pending(e)[i].call, Pending(e)[i].kind)
    BY PipeTypes, SentStays DEF OrderedPipe
  <2>9. \A i \in DOMAIN Pending(e)' :
            SentThen(Pending(e)'[i].call, Pending(e)'[i].kind)
    BY <2>2, <2>6, <2>8
  <2>10. \A i \in DOMAIN stdout[e], j \in DOMAIN Pending(e)' :
            Precedes(stdout[e][i], Pending(e)'[j])
    BY <2>4, <2>6 DEF OrderedPipe
  <2> QED  BY <1>1, <2>5, <2>7, <2>9, <2>10 DEF OrderedPipe, InOrder, HasSent, SentThen
<1> QED  BY <1>2, <1>3

LEMMA PipeReceive ==
    ASSUME TypeOK, StageSteps, NEW e \in Engines, OrderedPipe(e), stdout[e] # <<>>,
           stdout'[e] = Tail(stdout[e]), Pending(e)' = Pending(e)
    PROVE  OrderedPipe(e)'
<1>1. \A i \in DOMAIN stdout'[e] :
          i + 1 \in DOMAIN stdout[e] /\ stdout'[e][i] = stdout[e][i + 1]
  BY PipeTypes
<1>2. InOrder(stdout'[e])  BY PipeTypes, OrderedTail DEF OrderedPipe
<1>3. /\ \A i \in DOMAIN stdout[e] : SentThen(stdout[e][i].call, stdout[e][i].kind)
      /\ \A i \in DOMAIN Pending(e) : SentThen(Pending(e)[i].call, Pending(e)[i].kind)
  BY PipeTypes, SentStays DEF OrderedPipe
<1> QED  BY <1>1, <1>2, <1>3 DEF OrderedPipe, InOrder, HasSent, SentThen

LEMMA ServePipes ==
    ASSUME TypeOK, NEW e \in Engines, Serve(e)
    PROVE  LET command == Head(stdin[e])
               answer  == [kind |-> command.kind, call |-> command.call, book |-> applied'[e]]
           IN  /\ Pending(e) = stdin[e] /\ stdin[e] # <<>>
               /\ Pending(e)' = Tail(Pending(e))
               /\ stdout'[e] = Append(stdout[e], answer)
               /\ UNCHANGED <<calls, resolvers, engine>>
  BY ServeEffect DEF Pending, TypeOK

LEMMA PipeServe ==
    ASSUME TypeOK, StageSteps, NEW e \in Engines, OrderedPipe(e), Serve(e)
    PROVE  OrderedPipe(e)'
<1> DEFINE command == Head(stdin[e])
           answer == [kind |-> command.kind, call |-> command.call, book |-> applied'[e]]
<1>1. /\ Pending(e) = stdin[e] /\ stdin[e] # <<>> /\ Pending(e)' = Tail(Pending(e))
      /\ stdout'[e] = Append(stdout[e], answer)
  BY ServePipes
<1>2. 1 \in DOMAIN Pending(e) /\ command = Pending(e)[1]  BY <1>1, PipeTypes
<1>3. \A i \in DOMAIN stdout[e] : Precedes(stdout[e][i], answer)
  BY <1>2 DEF OrderedPipe, Precedes
<1>4. InOrder(Pending(e)') /\ \A i \in DOMAIN Pending(e)' : Precedes(answer, Pending(e)'[i])
  BY <1>1, PipeTypes, OrderedTail DEF OrderedPipe, Precedes
<1>5. InOrder(stdout'[e])  BY <1>1, <1>3, PipeTypes, OrderedAppend DEF OrderedPipe
<1>6. \A i \in DOMAIN stdout'[e] :
          \/ i \in DOMAIN stdout[e] /\ stdout'[e][i] = stdout[e][i]
          \/ stdout'[e][i] = answer
  BY <1>1, PipeTypes
<1>7. \A i \in DOMAIN Pending(e)' :
          i + 1 \in DOMAIN Pending(e) /\ Pending(e)'[i] = Pending(e)[i + 1]
  BY <1>1, PipeTypes
<1>8. /\ \A i \in DOMAIN stdout[e] : SentThen(stdout[e][i].call, stdout[e][i].kind)
      /\ \A i \in DOMAIN Pending(e) : SentThen(Pending(e)[i].call, Pending(e)[i].kind)
  BY PipeTypes, SentStays DEF OrderedPipe
<1>9. SentThen(answer.call, answer.kind)  BY <1>2, <1>8
<1> HIDE DEF answer
<1>10. \A i \in DOMAIN stdout'[e], j \in DOMAIN Pending(e)' :
           Precedes(stdout'[e][i], Pending(e)'[j])
  BY <1>4, <1>6, <1>7 DEF OrderedPipe
<1>11. \A i \in DOMAIN stdout'[e] : SentThen(stdout'[e][i].call, stdout'[e][i].kind)
  BY <1>6, <1>8, <1>9
<1>12. \A i \in DOMAIN Pending(e)' : SentThen(Pending(e)'[i].call, Pending(e)'[i].kind)
  BY <1>7, <1>8
<1> QED  BY <1>4, <1>5, <1>10, <1>11, <1>12 DEF OrderedPipe, InOrder, HasSent, SentThen

\* A step in which no call begins to talk to the engines.
NoneStarts ==
    \A k \in Numbers' : calls'[k].stage # "queued" => k \in Numbers /\ calls[k].stage # "queued"

\* A step that sends nothing to e, and neither takes nor adds an answer of its.
QuietFor(e) ==
    /\ stdout'[e] = stdout[e] /\ resolvers'[e] = resolvers[e] /\ applied'[e] = applied[e]
    /\ engine'[e] = "up" => engine[e] = "up" /\ stdin'[e] = stdin[e]
    /\ Pending(e)' = Pending(e) \/ Pending(e)' = <<>>
    /\ NoneStarts

\* The steps, by what they do to the pipes of one engine.
LEMMA PipeMoves ==
    ASSUME TypeOK, [Next]_vars, NEW e \in Engines
    PROVE  \/ QuietFor(e)
           \/ \E k \in Numbers, kind \in Kinds : Sends(k, kind)
           \/ Receive(e) /\ NoneStarts
           \/ Serve(e) /\ NoneStarts
<1>1. ASSUME UNCHANGED <<stdin, stdout, resolvers, applied, engine>>, NoneStarts
      PROVE  QuietFor(e)
  BY <1>1 DEF QuietFor, Pending
<1>2. ASSUME NEW caller \in Clients \cup {Stream}, Call(caller) PROVE QuietFor(e)
  <2>1. NoneStarts  BY <1>2, CallEffect DEF NoneStarts
  <2> QED  BY <1>1, <1>2, <2>1 DEF Call
<1>3. ASSUME NEW k \in Numbers, Start(k) PROVE Sends(k, "batch")
  BY <1>3 DEF Start, Sends
<1>4. ASSUME NEW k \in Numbers, BatchDone(k) PROVE Sends(k, "snapshot")
  BY <1>4 DEF BatchDone, Sends
<1>5. ASSUME NEW k \in Numbers, SnapshotDone(k) PROVE QuietFor(e)
  <2>1. NoneStarts  BY <1>5, StageEffect DEF SnapshotDone, Stages, NoneStarts
  <2> QED  BY <1>1, <1>5, <2>1 DEF SnapshotDone
<1>6. ASSUME NEW k \in Numbers, NEW d \in Engines, Timeout(k, d) PROVE QuietFor(e)
  <2>1. NoneStarts
    BY <1>6, StageEffect DEF Timeout, Reject, Running, Kinds, Stages, NoneStarts
  <2> QED  BY <1>1, <1>6, <2>1 DEF Timeout
<1>7. ASSUME UNCHANGED calls PROVE NoneStarts  BY <1>7 DEF NoneStarts, Numbers
<1>8. ASSUME NEW d \in Engines, Drained(d) PROVE QuietFor(e)
  <2>1. NoneStarts  BY <1>8, DrainedEffect DEF NoneStarts
  <2> QED  BY <1>1, <1>8, <2>1 DEF Drained
<1>9. ASSUME NEW d \in Engines, Receive(d) PROVE NoneStarts
  BY <1>9, ReceiveEffect DEF NoneStarts
<1>10. ASSUME NEW d \in Engines, Serve(d) PROVE NoneStarts  BY <1>7, <1>10 DEF Serve
<1>11. ASSUME NEW d \in Engines, Receive(d), d # e PROVE QuietFor(e)
  <2>1. resolvers'[e] = resolvers[e]
    <3>1. \/ UNCHANGED resolvers
          \/ \E kind : resolvers' = [resolvers EXCEPT ![d][kind] = Tail(@)]
      BY <1>11 DEF Receive
    <3> QED  BY <1>11, <3>1 DEF TypeOK
  <2>2. stdout'[e] = stdout[e] /\ UNCHANGED <<stdin, applied, engine>>
    BY <1>11 DEF Receive, TypeOK
  <2> QED  BY <1>9, <1>11, <2>1, <2>2 DEF QuietFor, Pending
<1>12. ASSUME NEW d \in Engines, Serve(d), d # e PROVE QuietFor(e)
  <2>1. applied'[e] = applied[e]
    <3>1. \/ UNCHANGED applied
          \/ \E k : applied' = [applied EXCEPT ![d] = Append(@, k)]
      BY <1>12 DEF Serve
    <3> QED  BY <1>12, <3>1 DEF TypeOK
  <2>2. /\ stdout'[e] = stdout[e] /\ stdin'[e] = stdin[e]
        /\ UNCHANGED <<resolvers, engine>>
    BY <1>12 DEF Serve, TypeOK
  <2> QED  BY <1>10, <1>12, <2>1, <2>2 DEF QuietFor, Pending
<1>13. ASSUME NEW d \in Engines, Exit(d) \/ ExitSeen(d) PROVE QuietFor(e)
  <2>1. NoneStarts  BY <1>7, <1>13 DEF Exit, ExitSeen
  <2>2. UNCHANGED <<stdout, resolvers, applied>>  BY <1>13 DEF Exit, ExitSeen
  <2> QED  BY <1>13, <2>1, <2>2 DEF Exit, ExitSeen, Pending, TypeOK, QuietFor
<1>14. ASSUME NEW d \in Engines, BrokenPipe(d) PROVE QuietFor(e)
  BY <1>1, <1>7, <1>14 DEF BrokenPipe
<1>15. ASSUME UNCHANGED vars PROVE QuietFor(e)  BY <1>1, <1>7, <1>15 DEF vars
<1>16. "batch" \in Kinds /\ "snapshot" \in Kinds  BY DEF Kinds
<1>17. CASE \E k \in DOMAIN calls : CallStep(k) \/ \E d \in Engines : Timeout(k, d)
  BY <1>3, <1>4, <1>5, <1>6, <1>16, <1>17, NumbersDomain DEF CallStep
<1>18. CASE \E d \in Engines : Drained(d) \/ Receive(d) \/ Serve(d)
  BY <1>8, <1>9, <1>10, <1>11, <1>12, <1>18
<1>19. CASE \E d \in Engines : Exit(d) \/ BrokenPipe(d) \/ ExitSeen(d)
  BY <1>13, <1>14, <1>19
<1> QED  BY <1>2, <1>15, <1>17, <1>18, <1>19 DEF Next

LEMMA PipeStep ==
    TypeOK /\ CallsInOrder /\ PipesInOrder /\ [Next]_vars => PipesInOrder'
<1> SUFFICES ASSUME TypeOK, CallsInOrder, PipesInOrder, [Next]_vars, NEW e \in Engines
             PROVE  OrderedPipe(e)'
  BY DEF PipesInOrder, OrderedPipe
<1>1. OrderedPipe(e) /\ StageSteps  BY StageStep DEF PipesInOrder, OrderedPipe
<1>2. ASSUME NEW k \in Numbers, NEW kind \in Kinds, Sends(k, kind) PROVE OrderedPipe(e)'
  BY <1>1, <1>2, PipeSend
<1>3. CASE Receive(e)
  <2>1. stdout[e] # <<>> /\ stdout'[e] = Tail(stdout[e]) /\ Pending(e)' = Pending(e)
    BY <1>3 DEF Receive, Pending, TypeOK
  <2> QED  BY <1>1, <2>1, PipeReceive
<1>4. CASE Serve(e)  BY <1>1, <1>4, PipeServe
<1> QED  BY <1>1, <1>2, <1>3, <1>4, PipeMoves, PipeQuiet DEF QuietFor

\* Commands and answers keep the order of the calls, a batch before its snapshot, also when
\* calls time out and answers come late (server.js:229-251, :423-427).
THEOREM PipesKeepOrder == Spec => []PipesInOrder
<1>1. Init => PipesInOrder  BY DEF Init, PipesInOrder, InOrder, Pending
<1> QED  BY <1>1, PipeStep, CallsTakeTurns, TypeCorrect, PTL DEF Spec
-----------------------------------------------------------------------------
(* Answers reach their calls. *)

Increasing(s) == \A i, j \in DOMAIN s : i < j => s[i] < s[j]

MatchedQueue(e, kind) ==
    LET queue == resolvers[e][kind]
    IN  /\ Increasing(queue)
        /\ \A i \in DOMAIN queue : HasSent(queue[i], kind)
        /\ Asked(e, kind) \subseteq ToSet(queue)
        /\ engine[e] = "up" => ToSet(queue) = Asked(e, kind)
        /\ \A lost \in ToSet(queue) \ Asked(e, kind), k \in Asked(e, kind) : k < lost

AllMatched == \A e \in Engines, kind \in Kinds : MatchedQueue(e, kind)

LEMMA MatchParts == ResolversMatch <=> AllMatched
  BY DEF ResolversMatch, MatchedQueue, Increasing, AllMatched

LEMMA QueueType ==
    ASSUME TypeOK, NEW e \in Engines, NEW kind \in Kinds
    PROVE  /\ resolvers[e][kind] \in Seq(Numbers)
           /\ ToSet(resolvers[e][kind]) \subseteq Numbers
           /\ \A i \in DOMAIN resolvers[e][kind] : resolvers[e][kind][i] \in Numbers
<1>1. resolvers[e][kind] \in Seq(Numbers)  BY DEF TypeOK
<1> QED  BY <1>1 DEF ToSet

\* Calls whose answer is in the pipe to the gateway, and calls with a command to serve.
Coming(e, kind) == {stdout[e][i].call : i \in {j \in DOMAIN stdout[e] : stdout[e][j].kind = kind}}
ToServe(e, kind) ==
    {Pending(e)[i].call : i \in {j \in DOMAIN Pending(e) : Pending(e)[j].kind = kind}}

AskedSplit ==
    \A e \in Engines, kind \in Kinds :
        /\ Asked(e, kind) = Coming(e, kind) \cup ToServe(e, kind)
        /\ Asked(e, kind) \subseteq Numbers

LEMMA AskedParts == TypeOK => AskedSplit
<1> SUFFICES ASSUME TypeOK, NEW e \in Engines, NEW kind \in Kinds
             PROVE  /\ Asked(e, kind) = Coming(e, kind) \cup ToServe(e, kind)
                    /\ Asked(e, kind) \subseteq Numbers
  BY DEF AskedSplit
<1>1. \A i \in DOMAIN Pending(e) : /\ Pending(e)[i] \in Commands
                                   /\ Pending(e)[i].call \in Numbers
  BY PipeTypes
<1>2. \A i \in DOMAIN Pending(e), k \in Numbers :
          Pending(e)[i] = [kind |-> kind, call |-> k] <=>
              Pending(e)[i].kind = kind /\ Pending(e)[i].call = k
  BY <1>1 DEF Commands
<1>3. \A i \in DOMAIN stdout[e] : stdout[e][i].call \in Numbers  BY PipeTypes
<1> QED  BY <1>1, <1>2, <1>3, NumbersDomain DEF Asked, Coming, ToServe

LEMMA AskedPartsNext == TypeOK' => AskedSplit'
  BY AskedParts, PTL

\* In order, an answer on its way precedes every command still to serve.
LEMMA ComingFirst ==
    ASSUME TypeOK, NEW e \in Engines, OrderedPipe(e), NEW kind \in Kinds,
           NEW j \in Coming(e, kind), NEW k \in ToServe(e, kind)
    PROVE  j < k
  BY PipeTypes DEF OrderedPipe, Coming, ToServe, Precedes, Kinds

LEMMA SentQueue ==
    ASSUME TypeOK, StageSteps, NEW e \in Engines, NEW kind \in Kinds, MatchedQueue(e, kind)
    PROVE  \A i \in DOMAIN resolvers[e][kind] : SentThen(resolvers[e][kind][i], kind)
  BY QueueType, SentStays DEF MatchedQueue

LEMMA MatchQuiet ==
    ASSUME TypeOK, TypeOK', StageSteps, NEW e \in Engines, NEW kind \in Kinds,
           OrderedPipe(e), MatchedQueue(e, kind), QuietFor(e)
    PROVE  MatchedQueue(e, kind)'
<1> DEFINE queue == resolvers[e][kind]
<1>1. /\ Asked(e, kind) = Coming(e, kind) \cup ToServe(e, kind)
      /\ Asked(e, kind)' = Coming(e, kind)' \cup ToServe(e, kind)'
  BY AskedParts, AskedPartsNext DEF AskedSplit
<1>2. Coming(e, kind)' = Coming(e, kind)  BY DEF QuietFor, Coming
<1>3. /\ ToServe(e, kind)' = ToServe(e, kind) \/ ToServe(e, kind)' = {}
      /\ engine'[e] = "up" => engine[e] = "up" /\ ToServe(e, kind)' = ToServe(e, kind)
  BY DEF QuietFor, ToServe, Pending
<1>4. resolvers'[e][kind] = queue  BY DEF QuietFor
<1>5. \A lost \in ToSet(queue) \ Asked(e, kind)', k \in Asked(e, kind)' : k < lost
  <2>1. \A lost \in ToServe(e, kind), k \in Coming(e, kind) : k < lost  BY ComingFirst
  <2> QED  BY <1>1, <1>2, <1>3, <2>1 DEF MatchedQueue
<1>6. \A i \in DOMAIN queue : SentThen(queue[i], kind)  BY SentQueue
<1> QED  BY <1>1, <1>2, <1>3, <1>4, <1>5, <1>6 DEF MatchedQueue, HasSent, SentThen, ToSet

LEMMA MatchSend ==
    ASSUME TypeOK, TypeOK', CallsInOrder, StageSteps, NEW k \in Numbers, NEW sent \in Kinds,
           Sends(k, sent), NEW e \in Engines, NEW kind \in Kinds,
           OrderedPipe(e), MatchedQueue(e, kind)
    PROVE  MatchedQueue(e, kind)'
<1> DEFINE queue == resolvers[e][kind]
           command == [kind |-> sent, call |-> k]
<1>0. resolvers'[e] = [resolvers[e] EXCEPT ![sent] = Append(@, k)]
  BY ZenonT(60), SendEffect DEF Sends
<1>1. /\ Asked(e, kind) = Coming(e, kind) \cup ToServe(e, kind)
      /\ Asked(e, kind)' = Coming(e, kind)' \cup ToServe(e, kind)'
      /\ Asked(e, kind) \subseteq Numbers
  BY AskedParts, AskedPartsNext DEF AskedSplit
<1>2. UNCHANGED <<stdout, engine>>  BY DEF Sends
<1>3. Coming(e, kind)' = Coming(e, kind)  BY <1>2 DEF Coming
<1>4. ToServe(e, kind)' =
          IF engine[e] = "up" /\ kind = sent THEN ToServe(e, kind) \cup {k} ELSE ToServe(e, kind)
  <2>1. CASE engine[e] # "up"  BY <1>2, <2>1 DEF ToServe, Pending
  <2>2. CASE engine[e] = "up"
    <3>1. Pending(e)' = Append(Pending(e), command)
      BY ZenonT(60), <1>2, <2>2, SendEffect DEF Sends, Pending
    <3>2. /\ DOMAIN Pending(e)' = DOMAIN Pending(e) \cup {Len(Pending(e)) + 1}
          /\ \A i \in DOMAIN Pending(e) : Pending(e)'[i] = Pending(e)[i]
          /\ Len(Pending(e)) + 1 \notin DOMAIN Pending(e)
          /\ Pending(e)'[Len(Pending(e)) + 1] = command
      BY <3>1, PipeTypes
    <3> QED  BY <2>2, <3>2 DEF ToServe
  <2> QED  BY <2>1, <2>2
<1>5. \A i \in DOMAIN queue : SentThen(queue[i], kind)  BY SentQueue
<1>6. CASE kind # sent
  <2>1. resolvers'[e][kind] = queue  BY <1>0, <1>6 DEF TypeOK
  <2> QED  BY <1>1, <1>2, <1>3, <1>4, <1>5, <1>6, <2>1
           DEF MatchedQueue, HasSent, SentThen, ToSet
<1>7. CASE kind = sent
  <2>1. resolvers'[e][kind] = Append(queue, k)  BY <1>0, <1>7 DEF TypeOK
  <2>2. \A i \in DOMAIN queue : queue[i] < k
    BY <1>7, QueueType, SentBefore DEF MatchedQueue, Sends, Kinds
  <2>3. /\ DOMAIN Append(queue, k) = DOMAIN queue \cup {Len(queue) + 1}
        /\ \A i \in DOMAIN queue : Append(queue, k)[i] = queue[i] /\ i < Len(queue) + 1
        /\ Append(queue, k)[Len(queue) + 1] = k
        /\ \A i \in DOMAIN queue : ~ (Len(queue) + 1 < i)
    BY QueueType
  <2>4. ToSet(Append(queue, k)) = ToSet(queue) \cup {k}  BY <2>3 DEF ToSet
  <2>5. Increasing(Append(queue, k))  BY <2>2, <2>3 DEF MatchedQueue, Increasing
  <2>6. SentThen(k, kind)
    <3>1. calls'[k].stage = kind  BY <1>7, SendEffect DEF Sends
    <3> QED  BY <3>1 DEF SentThen, Kinds
  <2>7. \A i \in DOMAIN Append(queue, k) : SentThen(Append(queue, k)[i], kind)
    BY <1>5, <2>3, <2>6
  <2>8. CASE engine[e] = "up"
    <3>1. ToSet(Append(queue, k)) = Asked(e, kind)'
      BY <1>1, <1>3, <1>4, <1>7, <2>4, <2>8 DEF MatchedQueue
    <3> QED  BY <1>2, <2>1, <2>5, <2>7, <3>1 DEF MatchedQueue, HasSent, SentThen
  <2>9. CASE engine[e] # "up"
    <3>1. Asked(e, kind)' = Asked(e, kind)  BY <1>1, <1>3, <1>4, <2>9
    <3>2. \A j \in Asked(e, kind) : j < k
      BY <2>2 DEF MatchedQueue, ToSet
    <3>3. /\ Asked(e, kind) \subseteq ToSet(Append(queue, k))
          /\ \A lost \in ToSet(Append(queue, k)) \ Asked(e, kind), j \in Asked(e, kind) : j < lost
      BY <2>4, <3>2 DEF MatchedQueue
    <3> QED  BY <1>2, <2>1, <2>5, <2>7, <2>9, <3>1, <3>3 DEF MatchedQueue, HasSent, SentThen
  <2> QED  BY <2>8, <2>9
<1> QED  BY <1>6, <1>7

\* The oldest answer is for the call of the oldest resolver of its kind.
LEMMA HeadMatches ==
    ASSUME TypeOK, NEW e \in Engines, stdout[e] # <<>>, OrderedPipe(e),
           MatchedQueue(e, Head(stdout[e]).kind)
    PROVE  LET answer == Head(stdout[e])
               queue  == resolvers[e][answer.kind]
           IN  queue # <<>> /\ Head(queue) = answer.call /\ answer.call \in Coming(e, answer.kind)
<1> DEFINE answer == Head(stdout[e])
           queue == resolvers[e][answer.kind]
<1>1. 1 \in DOMAIN stdout[e] /\ answer = stdout[e][1]  BY PipeTypes
<1>2. answer.kind \in Kinds /\ answer.call \in Numbers  BY <1>1, PipeTypes
<1>3. answer.call \in Coming(e, answer.kind)  BY <1>1 DEF Coming
<1>4. answer.call \in Asked(e, answer.kind)  BY <1>2, <1>3, AskedParts DEF AskedSplit
<1>5. PICK i \in DOMAIN queue : queue[i] = answer.call
  BY <1>4 DEF MatchedQueue, ToSet
<1>6. queue \in Seq(Numbers) /\ queue # <<>> /\ 1 \in DOMAIN queue /\ Head(queue) = queue[1]
      /\ queue[1] \in Numbers /\ (i = 1 \/ 1 < i)
  BY <1>2, <1>5, QueueType
<1>7. queue[1] <= answer.call
  <2>1. queue[1] = answer.call \/ queue[1] < answer.call
    BY <1>5, <1>6 DEF MatchedQueue, Increasing
  <2> QED  BY <1>2, <1>6, <2>1 DEF Numbers
<1>8. queue[1] = answer.call \/ answer.call < queue[1]
  <2>1. CASE queue[1] \notin Asked(e, answer.kind)
    BY <1>4, <1>6, <2>1 DEF MatchedQueue, ToSet
  <2>2. CASE queue[1] \in ToServe(e, answer.kind)
    BY <1>2, <1>3, <2>2, ComingFirst
  <2>3. CASE queue[1] \in Coming(e, answer.kind)
    <3>1. PICK j \in DOMAIN stdout[e] :
              stdout[e][j].kind = answer.kind /\ stdout[e][j].call = queue[1]
      BY <2>3 DEF Coming
    <3>2. j = 1 \/ 1 < j  BY PipeTypes, <3>1
    <3>3. CASE 1 < j
      <4>1. Precedes(answer, stdout[e][j])  BY <1>1, <3>3 DEF OrderedPipe, InOrder
      <4> QED  BY <3>1, <4>1 DEF Precedes
    <3> QED  BY <1>1, <3>1, <3>2, <3>3
  <2> QED  BY <1>2, <2>1, <2>2, <2>3, AskedParts DEF AskedSplit
<1>9. Head(queue) = answer.call  BY <1>2, <1>6, <1>7, <1>8 DEF Numbers
<1> QED  BY <1>3, <1>6, <1>9

LEMMA IncreasingTail ==
    ASSUME NEW s \in Seq(Nat), s # <<>>, Increasing(s)
    PROVE  Increasing(Tail(s)) /\ ToSet(Tail(s)) = ToSet(s) \ {Head(s)}
<1>1. \A i \in DOMAIN Tail(s) : i \in Nat /\ i + 1 \in DOMAIN s /\ Tail(s)[i] = s[i + 1]
  OBVIOUS
<1>2. \A i \in DOMAIN s : i = 1 \/ (1 < i /\ i - 1 \in DOMAIN Tail(s) /\ Tail(s)[i - 1] = s[i])
  OBVIOUS
<1>3. 1 \in DOMAIN s /\ Head(s) = s[1] /\ \A i \in DOMAIN s : s[i] \in Nat  OBVIOUS
<1>4. Increasing(Tail(s))
  <2> SUFFICES ASSUME NEW i \in DOMAIN Tail(s), NEW j \in DOMAIN Tail(s), i < j
               PROVE  s[i + 1] < s[j + 1]
    BY <1>1 DEF Increasing
  <2>1. i + 1 < j + 1  BY <1>1
  <2> QED  BY <1>1, <2>1 DEF Increasing
<1>5. ASSUME NEW i \in DOMAIN Tail(s) PROVE Tail(s)[i] \in ToSet(s) \ {Head(s)}
  <2>1. s[1] < s[i + 1]
    <3>1. 1 < i + 1  BY <1>1
    <3> QED  BY <1>1, <1>3, <3>1 DEF Increasing
  <2> QED  BY <1>1, <1>3, <2>1 DEF ToSet
<1>6. ASSUME NEW i \in DOMAIN s, s[i] # Head(s) PROVE s[i] \in ToSet(Tail(s))
  BY <1>2, <1>3, <1>6 DEF ToSet
<1> QED  BY <1>4, <1>5, <1>6 DEF ToSet

LEMMA MatchReceive ==
    ASSUME TypeOK, TypeOK', StageSteps, NEW e \in Engines, NEW kind \in Kinds, Receive(e),
           OrderedPipe(e), MatchedQueue(e, kind)
    PROVE  MatchedQueue(e, kind)'
<1> DEFINE queue == resolvers[e][kind]
           answer == Head(stdout[e])
<1>1. /\ Asked(e, kind) = Coming(e, kind) \cup ToServe(e, kind)
      /\ Asked(e, kind)' = Coming(e, kind)' \cup ToServe(e, kind)'
      /\ Asked(e, kind) \subseteq Numbers
  BY AskedParts, AskedPartsNext DEF AskedSplit
<1>2. stdout[e] # <<>> /\ stdout'[e] = Tail(stdout[e]) /\ UNCHANGED <<stdin, engine>>
  BY DEF Receive, TypeOK
<1>3. ToServe(e, kind)' = ToServe(e, kind)  BY <1>2 DEF ToServe, Pending
<1>4. /\ \A i \in DOMAIN stdout'[e] :
            i + 1 \in DOMAIN stdout[e] /\ i \in Nat \ {0} /\ stdout'[e][i] = stdout[e][i + 1]
      /\ \A i \in DOMAIN stdout[e] :
            i = 1 \/ (1 < i /\ i - 1 \in DOMAIN stdout'[e] /\ stdout'[e][i - 1] = stdout[e][i])
      /\ 1 \in DOMAIN stdout[e] /\ answer = stdout[e][1]
  BY <1>2, PipeTypes
<1>5. \A i \in DOMAIN queue : SentThen(queue[i], kind)  BY SentQueue
<1>6. CASE kind # answer.kind
  <2>1. Coming(e, kind)' = Coming(e, kind)  BY <1>4, <1>6 DEF Coming
  <2>2. resolvers'[e][kind] = queue
    <3>1. \/ UNCHANGED resolvers
          \/ resolvers' = [resolvers EXCEPT ![e][answer.kind] = Tail(@)]
      BY ReceiveEffect
    <3> QED  BY <1>6, <3>1 DEF TypeOK
  <2> QED  BY <1>1, <1>2, <1>3, <1>5, <2>1, <2>2
           DEF MatchedQueue, HasSent, SentThen, ToSet
<1>7. CASE kind = answer.kind
  <2>1. queue # <<>> /\ Head(queue) = answer.call /\ answer.call \in Coming(e, kind)
    BY <1>2, <1>7, HeadMatches
  <2>2. resolvers'[e][kind] = Tail(queue)
    <3>1. resolvers' = [resolvers EXCEPT ![e][answer.kind] = Tail(@)]
      BY <1>7, <2>1, ReceiveEffect
    <3> QED  BY <1>7, <3>1 DEF TypeOK
  <2>3. queue \in Seq(Nat)
    <3>1. Numbers \subseteq Nat  BY DEF Numbers
    <3> QED  BY <3>1, QueueType, SeqGrows
  <2>4. Increasing(Tail(queue)) /\ ToSet(Tail(queue)) = ToSet(queue) \ {answer.call}
    BY <2>1, <2>3, IncreasingTail DEF MatchedQueue
  <2>5. Coming(e, kind)' = Coming(e, kind) \ {answer.call}
    <3>1. ASSUME NEW i \in DOMAIN stdout[e], i # 1, stdout[e][i].kind = kind
          PROVE  stdout[e][i].call # answer.call
      <4>1. Precedes(answer, stdout[e][i])
        BY <1>4, <3>1 DEF OrderedPipe, InOrder
      <4>2. answer.call < stdout[e][i].call  BY <1>7, <3>1, <4>1 DEF Precedes
      <4> QED  BY <1>4, <4>2, PipeTypes DEF Numbers
    <3>2. \A i \in DOMAIN stdout'[e] : i + 1 # 1  BY <1>4
    <3> QED  BY <1>4, <1>7, <3>1, <3>2 DEF Coming
  <2>6. answer.call \notin ToServe(e, kind)
    <3>1. answer.call \in Numbers  BY <1>4, PipeTypes
    <3> QED  BY <2>1, <3>1, ComingFirst DEF Numbers
  <2>7. Asked(e, kind)' = Asked(e, kind) \ {answer.call}  BY <1>1, <1>3, <2>5, <2>6
  <2>8. \A i \in DOMAIN Tail(queue) : i + 1 \in DOMAIN queue /\ Tail(queue)[i] = queue[i + 1]
    BY <2>1, <2>3
  <2>9. \A i \in DOMAIN Tail(queue) : SentThen(Tail(queue)[i], kind)  BY <1>5, <2>8
  <2>10. /\ Asked(e, kind)' \subseteq ToSet(Tail(queue))
         /\ engine[e] = "up" => ToSet(Tail(queue)) = Asked(e, kind)'
         /\ \A lost \in ToSet(Tail(queue)) \ Asked(e, kind)', k \in Asked(e, kind)' : k < lost
    BY <2>4, <2>7 DEF MatchedQueue
  <2> QED  BY <1>2, <2>2, <2>4, <2>9, <2>10 DEF MatchedQueue, HasSent, SentThen
<1> QED  BY <1>6, <1>7

LEMMA MatchServe ==
    ASSUME TypeOK, TypeOK', StageSteps, NEW e \in Engines, NEW kind \in Kinds, Serve(e),
           OrderedPipe(e), MatchedQueue(e, kind)
    PROVE  MatchedQueue(e, kind)'
<1> DEFINE command == Head(stdin[e])
           answer == [kind |-> command.kind, call |-> command.call, book |-> applied'[e]]
<1>1. /\ Asked(e, kind) = Coming(e, kind) \cup ToServe(e, kind)
      /\ Asked(e, kind)' = Coming(e, kind)' \cup ToServe(e, kind)'
  BY AskedParts, AskedPartsNext DEF AskedSplit
<1>2. /\ Pending(e) = stdin[e] /\ stdin[e] # <<>> /\ Pending(e)' = Tail(Pending(e))
      /\ stdout'[e] = Append(stdout[e], answer)
      /\ UNCHANGED <<calls, resolvers, engine>>
  BY ServePipes
<1>3. /\ \A i \in DOMAIN Pending(e)' :
            /\ i \in Nat \ {0} /\ i + 1 \in DOMAIN Pending(e)
            /\ Pending(e)'[i] = Pending(e)[i + 1]
      /\ \A i \in DOMAIN Pending(e) :
            \/ i = 1
            \/ 1 < i /\ i - 1 \in DOMAIN Pending(e)' /\ Pending(e)'[i - 1] = Pending(e)[i]
      /\ 1 \in DOMAIN Pending(e) /\ command = Pending(e)[1]
  BY SMTT(30), <1>2, PipeTypes
<1>4. /\ DOMAIN stdout'[e] = DOMAIN stdout[e] \cup {Len(stdout[e]) + 1}
      /\ \A i \in DOMAIN stdout[e] : stdout'[e][i] = stdout[e][i]
      /\ Len(stdout[e]) + 1 \notin DOMAIN stdout[e]
      /\ stdout'[e][Len(stdout[e]) + 1] = answer
  BY <1>2, PipeTypes
<1>5. CASE kind = command.kind
  <2>1. Coming(e, kind)' = Coming(e, kind) \cup {command.call}
    BY <1>4, <1>5 DEF Coming
  <2>2. ToServe(e, kind) = ToServe(e, kind)' \cup {command.call}
    BY <1>3, <1>5 DEF ToServe
  <2>3. Asked(e, kind)' = Asked(e, kind)  BY <1>1, <2>1, <2>2
  <2> QED  BY <1>2, <2>3 DEF MatchedQueue, HasSent
<1>6. CASE kind # command.kind
  <2>1. Coming(e, kind)' = Coming(e, kind)  BY <1>4, <1>6 DEF Coming
  <2>2. ToServe(e, kind)' = ToServe(e, kind)  BY <1>3, <1>6 DEF ToServe
  <2>3. Asked(e, kind)' = Asked(e, kind)  BY <1>1, <2>1, <2>2
  <2> QED  BY <1>2, <2>3 DEF MatchedQueue, HasSent
<1> QED  BY <1>5, <1>6

LEMMA MatchStep ==
    TypeOK /\ TypeOK' /\ CallsInOrder /\ PipesInOrder /\ ResolversMatch /\ [Next]_vars
        => ResolversMatch'
<1> SUFFICES ASSUME TypeOK, TypeOK', CallsInOrder, PipesInOrder, ResolversMatch,
                    [Next]_vars, NEW e \in Engines, NEW kind \in Kinds
             PROVE  MatchedQueue(e, kind)'
  <2>1. AllMatched' => ResolversMatch'  BY MatchParts, PTL
  <2> QED  BY <2>1 DEF AllMatched
<1>1. OrderedPipe(e) /\ StageSteps /\ MatchedQueue(e, kind)
  BY StageStep, MatchParts DEF PipesInOrder, OrderedPipe, AllMatched
<1> QED  BY <1>1, PipeMoves, MatchQuiet, MatchSend, MatchReceive, MatchServe

\* The resolvers are in the order of the answers that will come (server.js:187-198).
THEOREM ResolversKeepOrder == Spec => []ResolversMatch
<1>1. Init => ResolversMatch
  BY DEF Init, ResolversMatch, Asked, Pending, ToSet
<1> QED  BY <1>1, MatchStep, PipesKeepOrder, CallsTakeTurns, TypeCorrect, PTL DEF Spec

\* The steps, by what they do to one answer a call holds, and to the stage of the call.
AnswerMoves(k, e) ==
    \/ /\ calls'[k].answer[e] = calls[k].answer[e]
       /\ \/ calls'[k].stage = calls[k].stage
          \/ calls'[k].stage = "rejected"
          \/ calls[k].stage = "snapshot" /\ calls'[k].stage = "resolved" /\ Answered(k)
    \/ calls'[k].answer[e] = NoAnswer /\ calls'[k].stage \in Kinds
    \/ /\ stdout[e] # <<>> /\ Head(stdout[e]).call = k
       /\ calls'[k].answer[e] = Head(stdout[e])
       /\ calls'[k].stage = calls[k].stage /\ calls[k].stage = Head(stdout[e]).kind

LEMMA AnswerStep ==
    ASSUME TypeOK, PipesInOrder, ResolversMatch, [Next]_vars, NEW e \in Engines
    PROVE  \A k \in Numbers' :
               IF k \in Numbers THEN AnswerMoves(k, e)
               ELSE calls'[k].stage = "queued" /\ calls'[k].answer[e] = NoAnswer
<1> DEFINE Goal == \A k \in Numbers' :
               IF k \in Numbers THEN AnswerMoves(k, e)
               ELSE calls'[k].stage = "queued" /\ calls'[k].answer[e] = NoAnswer
<1>1. ASSUME UNCHANGED calls PROVE Goal  BY <1>1 DEF AnswerMoves, Numbers
<1>2. ASSUME NEW caller \in Clients \cup {Stream}, Call(caller) PROVE Goal
  BY <1>2, CallEffect DEF AnswerMoves
<1>3. ASSUME NEW k \in Numbers, NEW kind \in Kinds, Send(k, kind) PROVE Goal
  <2>1. /\ Numbers' = Numbers /\ calls'[k].stage = kind
        /\ calls'[k].answer[e] = NoAnswer
        /\ \A j \in Numbers \ {k} : calls'[j] = calls[j]
    BY <1>3, SendEffect
  <2>2. AnswerMoves(k, e)  BY <2>1 DEF AnswerMoves
  <2>3. \A j \in Numbers \ {k} : AnswerMoves(j, e)  BY <2>1 DEF AnswerMoves
  <2> QED  BY <2>1, <2>2, <2>3
<1>4. ASSUME NEW k \in Numbers, SnapshotDone(k) PROVE Goal
  <2>1. /\ calls' = [calls EXCEPT ![k].stage = "resolved"] /\ "resolved" \in Stages
        /\ calls[k].stage = "snapshot" /\ Answered(k)
    BY <1>4 DEF SnapshotDone, Stages
  <2>2. /\ Numbers' = Numbers /\ calls'[k].stage = "resolved"
        /\ calls'[k].answer = calls[k].answer
        /\ \A j \in Numbers \ {k} : calls'[j] = calls[j]
    BY <2>1, StageEffect
  <2>3. AnswerMoves(k, e)  BY <2>1, <2>2 DEF AnswerMoves
  <2>4. \A j \in Numbers \ {k} : AnswerMoves(j, e)  BY <2>2 DEF AnswerMoves
  <2> QED  BY <2>2, <2>3, <2>4
<1>5. ASSUME NEW k \in Numbers, NEW d \in Engines, Timeout(k, d) PROVE Goal
  <2>1. calls' = [calls EXCEPT ![k].stage = "rejected"] /\ "rejected" \in Stages
    BY <1>5 DEF Timeout, Reject, Stages
  <2>2. /\ Numbers' = Numbers /\ calls'[k].stage = "rejected"
        /\ calls'[k].answer = calls[k].answer
        /\ \A j \in Numbers \ {k} : calls'[j] = calls[j]
    BY <2>1, StageEffect
  <2>3. AnswerMoves(k, e)  BY <2>2 DEF AnswerMoves
  <2>4. \A j \in Numbers \ {k} : AnswerMoves(j, e)  BY <2>2 DEF AnswerMoves
  <2> QED  BY <2>2, <2>3, <2>4
<1>6. ASSUME NEW d \in Engines, Drained(d) PROVE Goal
  BY <1>6, DrainedEffect DEF AnswerMoves
<1>7. ASSUME NEW d \in Engines, Receive(d) PROVE Goal
  <2> DEFINE answer == Head(stdout[d])
             waiting == resolvers[d][answer.kind]
  <2>1. /\ stdout[d] # <<>> /\ answer \in Answers /\ Numbers' = Numbers
        /\ \A j \in Numbers : calls'[j].stage = calls[j].stage
        /\ \A j \in Numbers :
              \/ calls'[j].answer[e] = calls[j].answer[e]
              \/ /\ waiting # <<>> /\ j = Head(waiting) /\ e = d
                 /\ calls[j].stage = answer.kind
                 /\ calls'[j].answer[e] = answer
    BY <1>7, ReceiveEffect
  <2>2. OrderedPipe(d) /\ answer.kind \in Kinds
    BY <2>1 DEF PipesInOrder, OrderedPipe, Answers
  <2>3. MatchedQueue(d, answer.kind)  BY <2>2, MatchParts DEF AllMatched
  <2>4. Head(waiting) = answer.call  BY <2>1, <2>2, <2>3, HeadMatches
  <2> QED  BY <2>1, <2>4 DEF AnswerMoves
<1>8. "batch" \in Kinds /\ "snapshot" \in Kinds  BY DEF Kinds
<1>9. ASSUME NEW k \in Numbers, Start(k) \/ BatchDone(k) PROVE Goal
  BY <1>3, <1>8, <1>9 DEF Start, BatchDone
<1> HIDE DEF Goal
<1> QED
  BY <1>1, <1>2, <1>4, <1>5, <1>6, <1>7, <1>9, NumbersDomain
     DEF Next, CallStep, Serve, Exit, BrokenPipe, ExitSeen, vars, Goal

\* Every answer reaches the call whose command it answers, also when earlier commands
\* timed out and their answers came late (server.js:187-198, :219-227).
THEOREM AnswersReachTheirCalls == Spec => []AnswersMatch
<1>1. Init => AnswersMatch  BY DEF Init, AnswersMatch
<1>2. TypeOK /\ TypeOK' /\ PipesInOrder /\ ResolversMatch /\ AnswersMatch /\ [Next]_vars
        => AnswersMatch'
  <2> SUFFICES ASSUME TypeOK, TypeOK', PipesInOrder, ResolversMatch, AnswersMatch, [Next]_vars,
                      NEW k \in Numbers', NEW e \in Engines, calls'[k].answer[e] # NoAnswer
               PROVE  calls'[k].answer[e].call = k
    <3>1. TypeOK' => (DOMAIN calls = Numbers)'  BY NumbersDomain, PTL
    <3> QED  BY <3>1 DEF AnswersMatch
  <2>1. k \in Numbers /\ AnswerMoves(k, e)  BY AnswerStep
  <2> QED  BY <2>1, NumbersDomain DEF AnswerMoves, AnswersMatch
<1> QED  BY <1>1, <1>2, ResolversKeepOrder, PipesKeepOrder, TypeCorrect, PTL DEF Spec
-----------------------------------------------------------------------------
(* Books of the same age. *)

EngineBook(e) ==
    LET n == Len(applied[e])
    IN  /\ applied[e] = [i \in 1..n |-> i]
        /\ n > 0 => calls[n].stage # "queued"
        /\ \A i \in DOMAIN Pending(e) :
              Pending(e)[i].call >= n /\ (Pending(e)[i].kind = "batch" => Pending(e)[i].call > n)
        /\ engine[e] = "up" => \A k \in Numbers :
              calls[k].stage # "queued" /\ k > n =>
                  \E i \in DOMAIN stdin[e] : stdin[e][i] = [kind |-> "batch", call |-> k]
        /\ \A i \in DOMAIN stdout[e] :
              stdout[e][i].kind = "snapshot" =>
                  stdout[e][i].book = [b \in 1..stdout[e][i].call |-> b]

CallBook(k, e) ==
    LET answer == calls[k].answer[e]
    IN  /\ Running(k) /\ answer # NoAnswer => answer.kind = calls[k].stage
        /\ calls[k].stage = "resolved" => answer.kind = "snapshot"
        /\ answer.kind = "snapshot" => answer.book = [b \in 1..k |-> b]

AllBooks == /\ \A e \in Engines : EngineBook(e)
            /\ \A k \in Numbers, e \in Engines : CallBook(k, e)

LEMMA BookParts == TypeOK => (BooksAgree <=> AllBooks)
  BY NumbersDomain DEF BooksAgree, AllBooks, EngineBook, CallBook

LEMMA CallBookStep ==
    ASSUME TypeOK, PipesInOrder, ResolversMatch, AllBooks, [Next]_vars,
           NEW k \in Numbers', NEW e \in Engines
    PROVE  CallBook(k, e)'
<1>1. CASE k \notin Numbers
  <2>1. calls'[k].stage = "queued" /\ calls'[k].answer[e] = NoAnswer
    BY <1>1, AnswerStep
  <2> QED  BY <2>1 DEF CallBook, Running, Kinds, NoAnswer
<1>2. CASE k \in Numbers
  <2>1. AnswerMoves(k, e) /\ CallBook(k, e) /\ EngineBook(e)
    BY <1>2, AnswerStep DEF AllBooks
  <2>2. CASE /\ calls'[k].answer[e] = calls[k].answer[e]
             /\ \/ calls'[k].stage = calls[k].stage
                \/ calls'[k].stage = "rejected"
                \/ calls[k].stage = "snapshot" /\ calls'[k].stage = "resolved" /\ Answered(k)
    BY <2>1, <2>2 DEF CallBook, Running, Kinds, Answered
  <2>3. CASE calls'[k].answer[e] = NoAnswer /\ calls'[k].stage \in Kinds
    BY <2>3 DEF CallBook, Kinds, NoAnswer
  <2>4. CASE /\ stdout[e] # <<>> /\ Head(stdout[e]).call = k
             /\ calls'[k].answer[e] = Head(stdout[e])
             /\ calls'[k].stage = calls[k].stage /\ calls[k].stage = Head(stdout[e]).kind
    <3>1. /\ 1 \in DOMAIN stdout[e] /\ Head(stdout[e]) = stdout[e][1]
          /\ Head(stdout[e]).kind \in Kinds
      BY <2>4, PipeTypes
    <3>2. /\ calls'[k].answer[e].kind = calls'[k].stage
          /\ calls'[k].stage # "resolved"
      BY <2>4, <3>1 DEF Kinds
    <3>3. Head(stdout[e]).kind = "snapshot" => Head(stdout[e]).book = [b \in 1..k |-> b]
      BY <2>1, <2>4, <3>1 DEF EngineBook
    <3> QED  BY <2>4, <3>2, <3>3 DEF CallBook
  <2> QED  BY <2>1, <2>2, <2>3, <2>4 DEF AnswerMoves
<1> QED  BY <1>1, <1>2

LEMMA BookTypes ==
    ASSUME TypeOK, NEW e \in Engines
    PROVE  /\ applied[e] \in Seq(Numbers) /\ Len(applied[e]) \in Nat
           /\ EngineBook(e) /\ Len(applied[e]) > 0 => Len(applied[e]) \in Numbers
<1>1. applied[e] \in Seq(Numbers) /\ Len(applied[e]) \in Nat  BY DEF TypeOK
<1>2. ASSUME EngineBook(e), Len(applied[e]) > 0 PROVE Len(applied[e]) \in Numbers
  <2>1. /\ applied[e][Len(applied[e])] \in Numbers
        /\ applied[e][Len(applied[e])] = Len(applied[e])
    BY <1>1, <1>2 DEF EngineBook
  <2> QED  BY <2>1
<1> QED  BY <1>1, <1>2

LEMMA BookQuiet ==
    ASSUME TypeOK, StageSteps, NEW e \in Engines, EngineBook(e), QuietFor(e)
    PROVE  EngineBook(e)'
<1> DEFINE n == Len(applied[e])
<1>1. applied'[e] = applied[e] /\ stdout'[e] = stdout[e]  BY DEF QuietFor
<1>2. n > 0 => calls'[n].stage # "queued"
  BY BookTypes, SentStays DEF EngineBook, HasSent, SentThen
<1>3. CASE Pending(e)' = <<>>
  <2>1. CASE engine'[e] = "up"
    <3>1. stdin'[e] = stdin[e] /\ engine[e] = "up"  BY <2>1 DEF QuietFor
    <3>2. \A k \in Numbers' : calls'[k].stage # "queued" /\ k > n =>
              \E i \in DOMAIN stdin'[e] : stdin'[e][i] = [kind |-> "batch", call |-> k]
      BY <3>1 DEF QuietFor, NoneStarts, EngineBook
    <3> QED  BY <1>1, <1>2, <1>3, <3>2 DEF EngineBook
  <2>2. CASE engine'[e] # "up"  BY <1>1, <1>2, <1>3, <2>2 DEF EngineBook
  <2> QED  BY <2>1, <2>2
<1>4. CASE Pending(e)' = Pending(e)
  <2>1. engine'[e] = "up" => \A k \in Numbers' : calls'[k].stage # "queued" /\ k > n =>
              \E i \in DOMAIN stdin'[e] : stdin'[e][i] = [kind |-> "batch", call |-> k]
    BY DEF QuietFor, NoneStarts, EngineBook
  <2> QED  BY <1>1, <1>2, <1>4, <2>1 DEF EngineBook
<1> QED  BY <1>3, <1>4 DEF QuietFor

LEMMA BookSend ==
    ASSUME TypeOK, CallsInOrder, StageSteps, NEW k \in Numbers, NEW kind \in Kinds,
           Sends(k, kind), NEW e \in Engines, EngineBook(e)
    PROVE  EngineBook(e)'
<1> DEFINE n == Len(applied[e])
           command == [kind |-> kind, call |-> k]
<1>1. UNCHANGED <<stdout, applied, engine>>  BY DEF Sends
<1>2. n > 0 => calls'[n].stage # "queued"
  BY BookTypes, SentStays DEF EngineBook, HasSent, SentThen
<1>3. k >= n /\ (kind = "batch" => k > n)
  <2>1. CASE n = 0  BY <2>1 DEF Numbers
  <2>2. CASE n # 0
    <3>0. n > 0 /\ n \in Numbers  BY <2>2, BookTypes
    <3>1. "batch" \in Kinds /\ HasSent(n, "batch")
      BY <3>0 DEF EngineBook, HasSent, Kinds
    <3>2. n < k \/ (n = k /\ kind = "snapshot")  BY <3>0, <3>1, SentBefore DEF Sends
    <3> QED  BY <3>0, <3>2 DEF Numbers, Kinds
  <2> QED  BY <2>1, <2>2
<1>4. CASE engine[e] # "up"
  <2>1. Pending(e)' = Pending(e)  BY <1>1, <1>4 DEF Pending
  <2> QED  BY <1>1, <1>2, <1>4, <2>1 DEF EngineBook
<1>5. CASE engine[e] = "up"
  <2>1. Pending(e) = stdin[e] /\ Pending(e)' = stdin'[e] /\ stdin'[e] = Append(stdin[e], command)
    BY <1>1, <1>5, SendEffect DEF Sends, Pending
  <2>2. /\ DOMAIN stdin'[e] = DOMAIN stdin[e] \cup {Len(stdin[e]) + 1}
        /\ \A i \in DOMAIN stdin[e] : stdin'[e][i] = stdin[e][i]
        /\ stdin'[e][Len(stdin[e]) + 1] = command
    BY <2>1, PipeTypes
  <2>3. \A i \in DOMAIN stdin'[e] :
            /\ stdin'[e][i].call >= n
            /\ stdin'[e][i].kind = "batch" => stdin'[e][i].call > n
    BY <1>3, <2>1, <2>2 DEF EngineBook
  <2>4. ASSUME NEW j \in Numbers', calls'[j].stage # "queued", j > n
        PROVE  \E i \in DOMAIN stdin'[e] : stdin'[e][i] = [kind |-> "batch", call |-> j]
    <3>1. Numbers' = Numbers /\ \A i \in Numbers \ {k} : calls'[i] = calls[i]
      BY SendEffect DEF Sends
    <3>2. CASE calls[j].stage # "queued"
      <4>1. PICK i \in DOMAIN stdin[e] : stdin[e][i] = [kind |-> "batch", call |-> j]
        BY <1>5, <2>4, <3>1, <3>2 DEF EngineBook
      <4> QED  BY <2>2, <4>1
    <3>3. CASE calls[j].stage = "queued"
      <4>1. j = k /\ kind = "batch"  BY <2>4, <3>1, <3>3 DEF Sends
      <4> QED  BY <2>2, <4>1
    <3> QED  BY <3>2, <3>3
  <2> QED  BY <1>1, <1>2, <1>5, <2>1, <2>3, <2>4 DEF EngineBook
<1> QED  BY <1>4, <1>5

LEMMA BookReceive ==
    ASSUME TypeOK, StageSteps, NoneStarts, NEW e \in Engines, EngineBook(e), Receive(e)
    PROVE  EngineBook(e)'
<1> DEFINE n == Len(applied[e])
<1>1. /\ stdout[e] # <<>> /\ stdout'[e] = Tail(stdout[e])
      /\ UNCHANGED <<stdin, applied, engine>>
  BY DEF Receive, TypeOK
<1>2. n > 0 => calls'[n].stage # "queued"
  BY BookTypes, SentStays DEF EngineBook, HasSent, SentThen
<1>3. \A i \in DOMAIN stdout'[e] :
          i + 1 \in DOMAIN stdout[e] /\ stdout'[e][i] = stdout[e][i + 1]
  BY <1>1, PipeTypes
<1>4. Pending(e)' = Pending(e)  BY <1>1 DEF Pending
<1>5. engine[e] = "up" => \A k \in Numbers' : calls'[k].stage # "queued" /\ k > n =>
          \E i \in DOMAIN stdin[e] : stdin[e][i] = [kind |-> "batch", call |-> k]
  BY DEF NoneStarts, EngineBook
<1>6. \A i \in DOMAIN stdout'[e] : stdout'[e][i].kind = "snapshot" =>
          stdout'[e][i].book = [b \in 1..stdout'[e][i].call |-> b]
  BY SMTT(30), <1>3 DEF EngineBook
<1> QED  BY <1>1, <1>2, <1>4, <1>5, <1>6 DEF EngineBook

\* The command an engine serves next is the next batch, or asks for the book as it is.
LEMMA NextCommand ==
    ASSUME TypeOK, CallsInOrder, NEW e \in Engines, EngineBook(e), OrderedPipe(e), Serve(e)
    PROVE  LET command == Head(stdin[e])
               n == Len(applied[e])
           IN  command.call = IF command.kind = "batch" THEN n + 1 ELSE n
<1> DEFINE command == Head(stdin[e])
           n == Len(applied[e])
<1>1. /\ engine[e] = "up" /\ Pending(e) = stdin[e] /\ stdin[e] # <<>> /\ n \in Nat
      /\ 1 \in DOMAIN stdin[e] /\ command = stdin[e][1]
      /\ command.call \in Numbers /\ command.kind \in Kinds
  <2>1. engine[e] = "up" /\ Pending(e) = stdin[e] /\ stdin[e] # <<>>
    BY ServeEffect DEF Pending
  <2>2. 1 \in DOMAIN stdin[e] /\ command = stdin[e][1]  BY <2>1, PipeTypes
  <2> QED  BY <2>1, <2>2, PipeTypes, BookTypes
<1>2. HasSent(command.call, command.kind)  BY <1>1 DEF OrderedPipe
<1>3. command.call >= n /\ (command.kind = "batch" => command.call > n)
  BY <1>1 DEF EngineBook
<1>4. ASSUME NEW k \in Numbers, k > n, k <= command.call
      PROVE  k = command.call /\ command.kind = "batch"
  <2>1. calls[k].stage # "queued"
    <3>1. CASE k = command.call  BY <1>2, <3>1 DEF HasSent
    <3>2. CASE k < command.call
      <4>1. Settled(k)  BY <1>1, <1>2, <3>2, NumbersDomain DEF CallsInOrder, HasSent
      <4> QED  BY <4>1 DEF Settled
    <3> QED  BY <1>1, <1>4, <3>1, <3>2 DEF Numbers
  <2>2. PICK i \in DOMAIN stdin[e] : stdin[e][i] = [kind |-> "batch", call |-> k]
    BY <1>1, <1>4, <2>1 DEF EngineBook
  <2>3. i = 1 \/ 1 < i  BY <1>1, PipeTypes
  <2>4. CASE i = 1  BY <1>1, <2>2, <2>4
  <2>5. CASE 1 < i
    <3>1. Precedes(command, stdin[e][i])  BY <1>1, <2>5 DEF OrderedPipe, InOrder
    <3>2. command.call < k  BY <2>2, <3>1 DEF Precedes
    <3> QED  BY <1>1, <1>4, <3>2 DEF Numbers
  <2> QED  BY <2>3, <2>4, <2>5
<1>5. CASE command.kind = "batch"
  <2>1. n + 1 \in Numbers /\ n + 1 > n /\ n + 1 <= command.call
    BY <1>1, <1>3, <1>5 DEF Numbers
  <2> QED  BY <1>4, <1>5, <2>1
<1>6. CASE command.kind # "batch"
  <2>1. ~ command.call > n  BY <1>1, <1>4, <1>6 DEF Numbers
  <2> QED  BY <1>1, <1>3, <1>6, <2>1 DEF Numbers
<1> QED  BY <1>5, <1>6

LEMMA BookServe ==
    ASSUME TypeOK, CallsInOrder, NEW e \in Engines, EngineBook(e), OrderedPipe(e), Serve(e)
    PROVE  EngineBook(e)'
<1> DEFINE command == Head(stdin[e])
           n == Len(applied[e])
           m == command.call
           answer == [kind |-> command.kind, call |-> command.call, book |-> applied'[e]]
<1>1. /\ engine[e] = "up" /\ engine' = engine /\ Numbers' = Numbers /\ calls' = calls
      /\ Pending(e) = stdin[e] /\ Pending(e)' = Tail(stdin[e]) /\ stdin[e] # <<>>
      /\ stdin'[e] = Tail(stdin[e]) /\ stdout'[e] = Append(stdout[e], answer)
  BY ServeEffect, ServePipes DEF Pending, TypeOK, Numbers
<1>2. /\ 1 \in DOMAIN stdin[e] /\ command = stdin[e][1] /\ n \in Nat
      /\ m \in Numbers /\ command.kind \in Kinds
  BY <1>1, PipeTypes, BookTypes
<1>3. m = IF command.kind = "batch" THEN n + 1 ELSE n  BY NextCommand
<1>4. applied'[e] = [b \in 1..m |-> b] /\ Len(applied'[e]) = m
  <2>1. applied[e] = [b \in 1..n |-> b]  BY DEF EngineBook
  <2>2. CASE command.kind = "batch"
    <3>1. /\ applied \in [Engines -> Seq(Numbers)]
          /\ applied' = [applied EXCEPT ![e] = Append(@, m)]
      BY <2>2, ServeEffect DEF TypeOK
    <3>2. applied'[e] = Append(applied[e], m)  BY <3>1
    <3>3. m = n + 1  BY <1>3, <2>2
    <3> QED  BY <1>2, <2>1, <3>2, <3>3
  <2>3. CASE command.kind # "batch"
    <3>1. applied'[e] = applied[e]  BY <2>3, ServeEffect
    <3> QED  BY <1>2, <1>3, <2>1, <2>3, <3>1
  <2> QED  BY <2>2, <2>3
<1>5. \A i \in DOMAIN stdin'[e] :
          i + 1 \in DOMAIN stdin[e] /\ 1 < i + 1 /\ stdin'[e][i] = stdin[e][i + 1]
  BY <1>1, PipeTypes
<1>6. \A i \in DOMAIN stdin[e] :
          i = 1 \/ (i - 1 \in DOMAIN stdin'[e] /\ stdin'[e][i - 1] = stdin[e][i])
  BY <1>1, PipeTypes
<1>7. ASSUME NEW i \in DOMAIN stdin'[e]
      PROVE  stdin'[e][i].call >= m /\ (stdin'[e][i].kind = "batch" => stdin'[e][i].call > m)
  <2>1. Precedes(command, stdin'[e][i])
    BY <1>1, <1>2, <1>5 DEF OrderedPipe, InOrder
  <2>2. stdin'[e][i].call \in Numbers
    BY <1>1, <1>5, PipeTypes
  <2> QED  BY <1>2, <2>1, <2>2 DEF Precedes, Numbers
<1>8. ASSUME NEW k \in Numbers, calls[k].stage # "queued", k > m
      PROVE  \E i \in DOMAIN stdin'[e] : stdin'[e][i] = [kind |-> "batch", call |-> k]
  <2>1. k > n  BY <1>2, <1>3, <1>8 DEF Numbers
  <2>2. PICK i \in DOMAIN stdin[e] : stdin[e][i] = [kind |-> "batch", call |-> k]
    BY <1>1, <1>8, <2>1 DEF EngineBook
  <2>3. i # 1  BY <1>2, <1>8, <2>2 DEF Numbers
  <2> QED  BY <1>6, <2>2, <2>3
<1>9. m > 0 /\ calls[m].stage # "queued"
  BY <1>1, <1>2 DEF OrderedPipe, HasSent, Numbers
<1>10. \A i \in DOMAIN stdout'[e] :
           \/ i \in DOMAIN stdout[e] /\ stdout'[e][i] = stdout[e][i]
           \/ stdout'[e][i] = answer
  BY <1>1, PipeTypes
<1>11. answer.book = [b \in 1..answer.call |-> b]  BY <1>4
<1> HIDE DEF answer
<1>12. \A i \in DOMAIN stdout'[e] : stdout'[e][i].kind = "snapshot" =>
           stdout'[e][i].book = [b \in 1..stdout'[e][i].call |-> b]
  BY <1>10, <1>11 DEF EngineBook
<1>13. \A i \in DOMAIN Pending(e)' :
           /\ Pending(e)'[i].call >= m
           /\ Pending(e)'[i].kind = "batch" => Pending(e)'[i].call > m
  BY <1>1, <1>7
<1> HIDE DEF command, n, m
<1> QED  BY <1>1, <1>4, <1>8, <1>9, <1>12, <1>13 DEF EngineBook

LEMMA BookStep ==
    TypeOK /\ TypeOK' /\ CallsInOrder /\ PipesInOrder /\ ResolversMatch /\ BooksAgree
        /\ [Next]_vars => BooksAgree'
<1> SUFFICES ASSUME TypeOK, CallsInOrder, PipesInOrder, ResolversMatch, AllBooks, [Next]_vars
             PROVE  AllBooks'
  <2>1. TypeOK' => (BooksAgree' <=> AllBooks')  BY BookParts, PTL
  <2> QED  BY <2>1, BookParts
<1>1. \A k \in Numbers', e \in Engines : CallBook(k, e)'  BY CallBookStep
<1>2. ASSUME NEW e \in Engines PROVE EngineBook(e)'
  <2>1. OrderedPipe(e) /\ EngineBook(e) /\ StageSteps
    BY StageStep DEF PipesInOrder, OrderedPipe, AllBooks
  <2> QED  BY <2>1, PipeMoves, BookQuiet, BookSend, BookReceive, BookServe
<1> QED  BY <1>1, <1>2 DEF AllBooks

\* Every engine's book holds a prefix of the batches sent, and every snapshot on its way
\* the batches up to its call (server.js:375-404).
THEOREM BooksKeepAge == Spec => []BooksAgree
<1>1. Init => BooksAgree
  BY DEF Init, BooksAgree, Pending
<1> QED
  BY <1>1, BookStep, ResolversKeepOrder, PipesKeepOrder, CallsTakeTurns, TypeCorrect, PTL DEF Spec

\* The two snapshots a call compares contain the same batches, those up to its own, for any
\* number of engines, callers and lost rounds (server.js:375-404).
THEOREM ComparedSnapshotsAgree == Spec => []SnapshotsComparable
<1>1. TypeOK /\ BooksAgree => SnapshotsComparable
  BY NumbersDomain DEF BooksAgree, SnapshotsComparable
<1> QED  BY <1>1, BooksKeepAge, TypeCorrect, PTL
=============================================================================
