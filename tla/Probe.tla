--------------------------------- MODULE Probe ---------------------------------
(***************************************************************************)
(* The liveness probe: GET /k8s/probe calls IsAlive, which starts a        *)
(* goroutine that asks, and waits for an answer or its timeout.  One Watch *)
(* goroutine answers.  Both channels are unbuffered and shared by all      *)
(* calls, and nothing in an answer says whose question it answers.         *)
(***************************************************************************)
EXTENDS Integers, FiniteSets

CONSTANTS
    NoCall,
    Caller,   \* requests to the probe
    Context   \* bound: names for the contexts of calls that are not over

ASSUME ProbeAssumption == NoCall \notin [ctx : Context, down : BOOLEAN]

VARIABLES
    server,     \* HttpServer.isServerAlive; it is not asked before it is up
    watch,      \* the Watch goroutine, and what it found out
    probe,      \* probe[c]: the call of c: its context, and whether the
                \* server was down already when it began
    asking,     \* contexts whose goroutine has yet to send or to give up
    expired,    \* contexts that are done
    timedOut,   \* history: did a context expire before its answer?
    overlapped  \* history: did a call begin before another one ended?

probeVars == <<server, watch, probe, asking, expired, timedOut, overlapped>>

ProbeTypeOK ==
    /\ server \in {"new", "up", "down"}
    /\ watch \in [pc : {"receive", "ask", "answer"}, alive : BOOLEAN]
    /\ probe \in [Caller -> [ctx : Context, down : BOOLEAN] \cup {NoCall}]
    /\ asking \subseteq Context /\ expired \subseteq Context
    /\ timedOut \in BOOLEAN /\ overlapped \in BOOLEAN

ProbeInit ==
    /\ server = "new"
    /\ watch = [pc |-> "receive", alive |-> FALSE]
    /\ probe = [c \in Caller |-> NoCall]
    /\ asking = {} /\ expired = {}
    /\ timedOut = FALSE /\ overlapped = FALSE

Waiting == {c \in Caller : probe[c] # NoCall}

\* spawnServer marks the server before and after it listens; while its shutdown
\* times out there still are requests.
ServerMarks(from, to) ==
    /\ server = from /\ server' = to
    /\ UNCHANGED <<watch, probe, asking, expired, timedOut, overlapped>>

IsAlive(c) ==
    /\ server # "new" /\ probe[c] = NoCall
    /\ \E x \in Context \ asking :
        /\ \A d \in Waiting : probe[d].ctx # x
        /\ probe' = [probe EXCEPT ![c] = [ctx |-> x, down |-> server = "down"]]
        /\ asking' = asking \cup {x}
        /\ expired' = expired \ {x}
    /\ overlapped' = (overlapped \/ Waiting # {})
    /\ UNCHANGED <<server, watch, timedOut>>

\* Mutation: the goroutine asks until its context is done.
AsksAgain(x) ==
    /\ x \in asking /\ watch.pc = "receive"
    /\ watch' = [watch EXCEPT !.pc = "ask"]
    /\ UNCHANGED <<server, probe, asking, expired, timedOut, overlapped>>

\* The goroutine sends, though its context may be done: select takes either.
Ask(x) ==
    /\ x \in asking /\ watch.pc = "receive"
    /\ watch' = [watch EXCEPT !.pc = "ask"]
    /\ asking' = asking \ {x}
    /\ UNCHANGED <<server, probe, expired, timedOut, overlapped>>

GiveUp(x) ==
    /\ x \in asking \cap expired
    /\ asking' = asking \ {x}
    /\ UNCHANGED <<server, watch, probe, expired, timedOut, overlapped>>

\* Watch asks the service, which asks the server.
FindOut ==
    /\ watch.pc = "ask"
    /\ watch' = [pc |-> "answer", alive |-> server = "up"]
    /\ UNCHANGED <<server, probe, asking, expired, timedOut, overlapped>>

Ends(c) ==
    /\ probe' = [probe EXCEPT ![c] = NoCall]
    /\ expired' = expired \cup {probe[c].ctx}
    /\ UNCHANGED <<server, asking, timedOut, overlapped>>

\* Any waiting call may take the answer.
Answered(c) ==
    /\ c \in Waiting /\ watch.pc = "answer"
    /\ watch' = [watch EXCEPT !.pc = "receive"]
    /\ Ends(c)

\* The timeout of a call that has not returned.
Expire(c) ==
    /\ c \in Waiting /\ probe[c].ctx \notin expired
    /\ expired' = expired \cup {probe[c].ctx}
    /\ timedOut' = TRUE
    /\ UNCHANGED <<server, watch, probe, asking, overlapped>>

\* IsAlive returns false, or the answer that came at the same moment.
NotAnswered(c) ==
    /\ c \in Waiting /\ probe[c].ctx \in expired
    /\ Ends(c)
    /\ UNCHANGED watch

ProbeNext ==
    \/ ServerMarks("new", "up") \/ ServerMarks("up", "down")
    \/ FindOut
    \/ \E x \in Context : Ask(x) \/ GiveUp(x)
    \/ \E c \in Caller : IsAlive(c) \/ Answered(c) \/ Expire(c) \/ NotAnswered(c)

ProbeSpec == ProbeInit /\ [][ProbeNext]_probeVars

-----------------------------------------------------------------------------
\* Watch holds no answer that nobody waits for: the next caller would take it.
NoAnswerIsLeft == watch.pc # "receive" => Waiting # {}

\* The question of a caller is under way: it will not wait for its timeout.
NobodyIsForgotten ==
    \A c \in Waiting : probe[c].ctx \in asking \/ watch.pc # "receive"

\* A caller that came when the server was down is not told that it is up.
NobodyIsMisled ==
    \A c \in Waiting : probe[c].down /\ watch.pc = "answer" => ~watch.alive

\* As long as no probe timed out and no two overlapped, a probe is answered
\* with what was found out for it.  With either this fails: after one timeout
\* each call may get the answer to an earlier one, and of two overlapping calls
\* one may take the other's answer and withdraw its own question.
LoneProbeIsAnswered ==
    ~timedOut /\ ~overlapped =>
        NoAnswerIsLeft /\ NobodyIsForgotten /\ NobodyIsMisled
===============================================================================
