-------------------------------- MODULE Gateway --------------------------------
(***************************************************************************)
(* web-dashboard/server.js: the gateway between browsers and the two engine *)
(* processes.  It is one event loop; what runs between two awaits is one    *)
(* step.  Each call of getOrderBookSnapshot chains behind the one before    *)
(* it, sends a batch to both engines, waits for both answers, asks both for *)
(* a snapshot, and waits again.  Answers carry no request number: the n-th  *)
(* answer of a kind belongs to the n-th resolver of that kind.              *)
(*                                                                          *)
(* An engine is here what the gateway sees of it (EngineParity has the      *)
(* rest): it reads its stdin in order, applies batches and answers each     *)
(* command once.  Of a book the model keeps the batches applied to it.      *)
(***************************************************************************)
EXTENDS Integers, Sequences, FiniteSets, SequencesExt, FiniteSetsExt

CONSTANTS Engines,       \* Rust and C++
          Clients,       \* browsers and HTTP clients that ask for a snapshot
          Stream,        \* streamMarketData, the loop that asks again and again
          CanExit,       \* TRUE: an engine process may end
          PipeLimit,     \* commands the pipe to an engine holds
          HighWater,     \* commands in Node's buffer from which write() returns false
          MaxCalls       \* BOUND: calls of getOrderBookSnapshot

ASSUME EnginesAssumption == IsFiniteSet(Engines) /\ Engines # {}
ASSUME StreamAssumption == Stream \notin Clients
ASSUME ExitAssumption == CanExit \in BOOLEAN
ASSUME BufferAssumption == PipeLimit \in Nat /\ HighWater \in Nat \ {0} /\ MaxCalls \in Nat

VARIABLES calls,      \* the calls so far, with the state of each
          stdin,      \* engine -> commands written and not yet read
          stdout,     \* engine -> answers not yet received
          resolvers,  \* engine -> kind -> batchResolvers, snapshotResolvers
          applied,    \* engine -> the batches in its book, in order
          engine,     \* engine -> "up"; "ended"; "gone" once the gateway knows
          gateway     \* "up", or "crashed" by an unhandled rejection or stream error

vars == <<calls, stdin, stdout, resolvers, applied, engine, gateway>>

Kinds == {"batch", "snapshot"}
NoAnswer == [kind |-> "none", call |-> 0, book |-> <<>>]
Settled(k) == calls[k].stage \in {"resolved", "rejected"}
Running(k) == calls[k].stage \in Kinds

Init ==
    /\ calls = <<>>
    /\ stdin = [e \in Engines |-> <<>>]
    /\ stdout = [e \in Engines |-> <<>>]
    /\ resolvers = [e \in Engines |-> [kind \in Kinds |-> <<>>]]
    /\ applied = [e \in Engines |-> <<>>]
    /\ engine = [e \in Engines |-> "up"]
    /\ gateway = "up"
-----------------------------------------------------------------------------
\* A caller awaits one call at a time: the stream loop sets its timer again in "finally",
\* and a client is one run of a request handler.  Call n starts after call n - 1.
Call(caller) ==
    /\ gateway = "up"
    /\ Len(calls) < MaxCalls
    /\ \A k \in DOMAIN calls : calls[k].caller = caller => Settled(k)
    /\ calls' = Append(calls, [caller |-> caller, stage |-> "queued",
                               drained |-> [e \in Engines |-> FALSE],
                               answer |-> [e \in Engines |-> NoAnswer]])
    /\ UNCHANGED <<stdin, stdout, resolvers, applied, engine, gateway>>

\* Push the resolver and write the command, to every engine.  write() returns false, and
\* the sender then waits for "drain", when Node's buffer reaches the high-water mark or
\* the stream is not open: Node destroys it when it learns that the process ended.
SendTo(k, kind, open) ==
    LET queue == [e \in Engines |-> IF e \in open
                     THEN Append(stdin[e], [kind |-> kind, call |-> k]) ELSE stdin[e]]
    IN  /\ resolvers' = [e \in Engines |-> [resolvers[e] EXCEPT ![kind] = Append(@, k)]]
        /\ stdin' = queue
        /\ calls' = [calls EXCEPT ![k] =
               [caller |-> @.caller, stage |-> kind,
                drained |-> [e \in Engines |->
                                e \in open /\ Len(queue[e]) - PipeLimit < HighWater],
                answer |-> [e \in Engines |-> NoAnswer]]]

\* Mutation: commands are queued in a stream that was destroyed.
SendRegardless(k, kind) == SendTo(k, kind, Engines)

Send(k, kind) == SendTo(k, kind, {e \in Engines : engine[e] # "gone"})

\* Mutations: the call does not wait for the one before it; it waits for ever when that
\* one was rejected.
StartAtOnce(k) ==
    /\ gateway = "up"
    /\ calls[k].stage = "queued"
    /\ Send(k, "batch")
    /\ UNCHANGED <<stdout, applied, engine, gateway>>

StartAfterSuccess(k) ==
    /\ gateway = "up"
    /\ calls[k].stage = "queued"
    /\ k > 1 => calls[k - 1].stage = "resolved"
    /\ Send(k, "batch")
    /\ UNCHANGED <<stdout, applied, engine, gateway>>

\* snapshotQueue.then: collectOrderBookSnapshot sends its batch.
Start(k) ==
    /\ gateway = "up"
    /\ calls[k].stage = "queued"
    /\ k > 1 => Settled(k - 1)
    /\ Send(k, "batch")
    /\ UNCHANGED <<stdout, applied, engine, gateway>>

\* Both commands are written and both are answered.
Answered(k) == \A e \in Engines : calls[k].drained[e] /\ calls[k].answer[e] # NoAnswer

BatchDone(k) ==
    /\ gateway = "up"
    /\ calls[k].stage = "batch" /\ Answered(k)
    /\ Send(k, "snapshot")
    /\ UNCHANGED <<stdout, applied, engine, gateway>>

SnapshotDone(k) ==
    /\ gateway = "up"
    /\ calls[k].stage = "snapshot" /\ Answered(k)
    /\ calls' = [calls EXCEPT ![k].stage = "resolved"]
    /\ UNCHANGED <<stdin, stdout, resolvers, applied, engine, gateway>>

\* The promise of call k is rejected.  The stream loop catches that; the handlers of
\* client requests do not, and Node ends a process with an unhandled rejection.
Reject(k) ==
    /\ calls' = [calls EXCEPT ![k].stage = "rejected"]
    /\ gateway' = IF calls[k].caller = Stream THEN "up" ELSE "crashed"

\* Mutation: the resolver of the command is taken off with it.
TimeoutForgets(k, e) ==
    /\ gateway = "up"
    /\ Running(k) /\ calls[k].drained[e] /\ calls[k].answer[e] = NoAnswer
    /\ Reject(k)
    /\ resolvers' = [resolvers EXCEPT ![e][calls[k].stage] =
                        SelectSeq(@, LAMBDA r : r # k)]
    /\ UNCHANGED <<stdin, stdout, applied, engine>>

\* withTimeout, which starts to run when the command is written.
Timeout(k, e) ==
    /\ gateway = "up"
    /\ Running(k) /\ calls[k].drained[e] /\ calls[k].answer[e] = NoAnswer
    /\ Reject(k)
    /\ UNCHANGED <<stdin, stdout, resolvers, applied, engine>>

\* "drain": Node's buffer is empty again; every sender that waited goes on.
Drained(e) ==
    /\ gateway = "up"
    /\ engine[e] = "up"
    /\ Len(stdin[e]) <= PipeLimit
    /\ \E k \in DOMAIN calls : Running(k) /\ ~ calls[k].drained[e]
    /\ calls' = [k \in DOMAIN calls |->
                    IF Running(k) THEN [calls[k] EXCEPT !.drained[e] = TRUE] ELSE calls[k]]
    /\ UNCHANGED <<stdin, stdout, resolvers, applied, engine, gateway>>

\* rl.on('line'): the answer goes to the oldest resolver of its kind.
Receive(e) ==
    /\ gateway = "up"
    /\ stdout[e] # <<>>
    /\ stdout' = [stdout EXCEPT ![e] = Tail(@)]
    /\ LET answer  == Head(stdout[e])
           waiting == resolvers[e][answer.kind]
       IN  IF waiting = <<>> THEN UNCHANGED <<calls, resolvers>>
           ELSE /\ resolvers' = [resolvers EXCEPT ![e][answer.kind] = Tail(@)]
                /\ calls' = IF calls[Head(waiting)].stage = answer.kind
                            THEN [calls EXCEPT ![Head(waiting)].answer[e] = answer]
                            ELSE calls
    /\ UNCHANGED <<stdin, applied, engine, gateway>>
-----------------------------------------------------------------------------
\* An engine process reads one command, obeys and answers.
Serve(e) ==
    /\ engine[e] = "up"
    /\ stdin[e] # <<>>
    /\ LET command == Head(stdin[e])
       IN  /\ applied' = IF command.kind = "batch"
                         THEN [applied EXCEPT ![e] = Append(@, command.call)] ELSE applied
           /\ stdout' = [stdout EXCEPT ![e] = Append(@,
                  [kind |-> command.kind, call |-> command.call, book |-> applied'[e]])]
    /\ stdin' = [stdin EXCEPT ![e] = Tail(@)]
    /\ UNCHANGED <<calls, resolvers, engine, gateway>>

\* The process ends, and with it what its pipe holds; Node's own buffer is not affected.
\* Nobody starts the engine again.
Exit(e) ==
    /\ CanExit
    /\ engine[e] = "up"
    /\ engine' = [engine EXCEPT ![e] = "ended"]
    /\ stdin' = [stdin EXCEPT ![e] = SubSeq(@, PipeLimit + 1, Len(@))]
    /\ UNCHANGED <<calls, stdout, resolvers, applied, gateway>>

\* Node writes to the broken pipe before it learns of the end: EPIPE, an "error" event
\* nobody listens to.
BrokenPipe(e) ==
    /\ gateway = "up"
    /\ engine[e] = "ended" /\ stdin[e] # <<>>
    /\ gateway' = "crashed"
    /\ UNCHANGED <<calls, stdin, stdout, resolvers, applied, engine>>

\* process.on('exit'), which logs; Node has destroyed the process's stdin.
ExitSeen(e) ==
    /\ gateway = "up"
    /\ engine[e] = "ended"
    /\ engine' = [engine EXCEPT ![e] = "gone"]
    /\ stdin' = [stdin EXCEPT ![e] = <<>>]
    /\ UNCHANGED <<calls, stdout, resolvers, applied, gateway>>

CallStep(k) == Start(k) \/ BatchDone(k) \/ SnapshotDone(k)

Next ==
    \/ \E caller \in Clients \cup {Stream} : Call(caller)
    \/ \E k \in DOMAIN calls : CallStep(k) \/ \E e \in Engines : Timeout(k, e)
    \/ \E e \in Engines : Drained(e) \/ Receive(e) \/ Serve(e)
    \/ \E e \in Engines : Exit(e) \/ BrokenPipe(e) \/ ExitSeen(e)

Spec == Init /\ [][Next]_vars

(***************************************************************************)
(* Fairness.  The event loop runs what is ready, and timers fire.  Nobody   *)
(* has to call.  That engines serve what they read is an assumption of its  *)
(* own.                                                                     *)
(***************************************************************************)
GatewayFair ==
    /\ \A k \in 1..MaxCalls :
          /\ WF_vars(k \in DOMAIN calls /\ CallStep(k))
          /\ \A e \in Engines : WF_vars(k \in DOMAIN calls /\ Timeout(k, e))
    /\ \A e \in Engines : WF_vars(Drained(e)) /\ WF_vars(Receive(e)) /\ WF_vars(ExitSeen(e))

GatewaySpec == Spec /\ GatewayFair
FairSpec == GatewaySpec /\ \A e \in Engines : WF_vars(Serve(e))
-----------------------------------------------------------------------------
Numbers == 1..Len(calls)
Commands == [kind : Kinds, call : Numbers]
Answers == [kind : Kinds, call : Numbers, book : Seq(Numbers)]
Stages == {"queued", "batch", "snapshot", "resolved", "rejected"}
CallRecords == [caller : Clients \cup {Stream}, stage : Stages,
                drained : [Engines -> BOOLEAN],
                answer : [Engines -> Answers \cup {NoAnswer}]]

TypeOK ==
    /\ calls \in Seq(CallRecords)
    /\ stdin \in [Engines -> Seq(Commands)]
    /\ stdout \in [Engines -> Seq(Answers)]
    /\ resolvers \in [Engines -> [Kinds -> Seq(Numbers)]]
    /\ applied \in [Engines -> Seq(Numbers)]
    /\ engine \in [Engines -> {"up", "ended", "gone"}]
    /\ gateway \in {"up", "crashed"}
    /\ \A e \in Engines : engine[e] = "gone" => stdin[e] = <<>>

\* Every answer reaches the call whose command it answers, also when earlier commands
\* timed out and their answers came late: a timeout leaves its resolver in the queue, to
\* swallow the late answer (server.js:187-198, :219-227).
AnswersMatch ==
    \A k \in DOMAIN calls : \A e \in Engines :
        calls[k].answer[e] # NoAnswer => calls[k].answer[e].call = k

\* "Single in-flight snapshot chain" (web-dashboard/README.md:17): whoever calls, and
\* however the calls before ended, one call at a time talks to the engines
\* (server.js:423-427).
OneInFlight == \A j, k \in DOMAIN calls : Running(j) /\ Running(k) => j = k

\* Both snapshots a call compares contain exactly the batches sent up to its own, those
\* of rejected calls included: the parity counters never compare books of different
\* age (server.js:375-404).
SnapshotsComparable ==
    \A k \in DOMAIN calls : calls[k].stage = "resolved" =>
        \A e \in Engines : calls[k].answer[e].book = [i \in 1..k |-> i]

-----------------------------------------------------------------------------
(* The invariants behind these three. *)

\* The commands an engine has still to serve; what waits for one that ended is lost.
Pending(e) == IF engine[e] = "up" THEN stdin[e] ELSE <<>>

\* The call of a command, or of a resolver, has sent it.
HasSent(k, kind) ==
    /\ calls[k].stage # "queued"
    /\ kind = "snapshot" => calls[k].stage # "batch"

Precedes(a, b) ==
    a.call < b.call \/ (a.call = b.call /\ a.kind = "batch" /\ b.kind = "snapshot")
InOrder(s) == \A i, j \in DOMAIN s : i < j => Precedes(s[i], s[j])

\* Commands and answers come in the order of the calls, a batch before its snapshot.
PipesInOrder ==
    \A e \in Engines :
        /\ InOrder(stdout[e]) /\ InOrder(Pending(e))
        /\ \A i \in DOMAIN stdout[e], j \in DOMAIN Pending(e) :
              Precedes(stdout[e][i], Pending(e)[j])
        /\ \A i \in DOMAIN stdout[e] : HasSent(stdout[e][i].call, stdout[e][i].kind)
        /\ \A i \in DOMAIN Pending(e) : HasSent(Pending(e)[i].call, Pending(e)[i].kind)

\* The calls with an answer of a kind on its way, or still to be given.
Asked(e, kind) ==
    {k \in DOMAIN calls :
        \/ \E i \in DOMAIN stdout[e] : stdout[e][i].kind = kind /\ stdout[e][i].call = k
        \/ \E i \in DOMAIN Pending(e) : Pending(e)[i] = [kind |-> kind, call |-> k]}

\* The resolvers of a kind are those calls, in order, and behind them the calls whose
\* command an engine did not live to serve (server.js:187-198, :237-251).
ResolversMatch ==
    \A e \in Engines : \A kind \in Kinds :
        LET queue == resolvers[e][kind]
        IN  /\ \A i, j \in DOMAIN queue : i < j => queue[i] < queue[j]
            /\ \A i \in DOMAIN queue : HasSent(queue[i], kind)
            /\ Asked(e, kind) \subseteq ToSet(queue)
            /\ engine[e] = "up" => ToSet(queue) = Asked(e, kind)
            /\ \A lost \in ToSet(queue) \ Asked(e, kind), k \in Asked(e, kind) : k < lost

\* An engine's book holds a prefix of the batches, and its stdin the rest of those sent;
\* a snapshot on its way holds the batches up to its call, and a call keeps an answer
\* of the kind it waits for (server.js:187-198, :375-404).
BooksAgree ==
    /\ \A e \in Engines :
          LET n == Len(applied[e])
          IN  /\ applied[e] = [i \in 1..n |-> i]
              /\ n > 0 => calls[n].stage # "queued"
              /\ \A i \in DOMAIN Pending(e) :
                    LET command == Pending(e)[i]
                    IN  command.call >= n /\ (command.kind = "batch" => command.call > n)
              /\ engine[e] = "up" => \A k \in DOMAIN calls :
                    calls[k].stage # "queued" /\ k > n =>
                        \E i \in DOMAIN stdin[e] : stdin[e][i] = [kind |-> "batch", call |-> k]
              /\ \A i \in DOMAIN stdout[e] :
                    LET answer == stdout[e][i]
                    IN  answer.kind = "snapshot" => answer.book = [b \in 1..answer.call |-> b]
    /\ \A k \in DOMAIN calls : \A e \in Engines :
          LET answer == calls[k].answer[e]
          IN  /\ Running(k) /\ answer # NoAnswer => answer.kind = calls[k].stage
              /\ calls[k].stage = "resolved" => answer.kind = "snapshot"
              /\ answer.kind = "snapshot" => answer.book = [b \in 1..k |-> b]
-----------------------------------------------------------------------------
\* Every call gets its snapshot or an error, or the gateway ends: what "bounded command
\* timeouts" promise (web-dashboard/README.md:15).
EveryCallSettles ==
    \A k \in 1..MaxCalls :
        k \in DOMAIN calls ~> gateway = "crashed" \/ (k \in DOMAIN calls /\ Settled(k))

\* It holds as long as both engines run: no rejection, timeout or back-pressure stops the
\* chain of calls (server.js:423-427).
CallsSettleWhileEnginesRun ==
    [](\A e \in Engines : engine[e] = "up") => EveryCallSettles

\* "Slow native rounds reduce emission frequency" (web-dashboard/README.md:17): they do
\* not end the gateway.
SlowRoundsAreSurvived == gateway = "up"
=============================================================================
