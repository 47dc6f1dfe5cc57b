--------------------------- MODULE McpConnections --------------------------
(***************************************************************************)
(* tools/mcp: MCPTool.invoke through the MCPConnectionPool (pool.py) and   *)
(* an MCPClient (client.py), for one configured server.                    *)
(*                                                                         *)
(* Threads that call tools share the client of the server.  A client is    *)
(* named by the call that spawned its process.  Requests and answers are   *)
(* lines of the process's pipes; whoever reads a line takes it.            *)
(***************************************************************************)
EXTENDS Naturals, Sequences

CONSTANTS
    McpCalls,    \* threads in MCPTool.invoke, one call each
    NoCall,      \* nobody, no client, a line that answers nothing
    ServerFaults \* what a server process may do: {"die", "error", "chatter"}

ASSUME McpAssumption ==
    /\ NoCall \notin McpCalls
    /\ ServerFaults \subseteq {"die", "error", "chatter"}

VARIABLES
    mcpCall,   \* the threads: [at, client, id, got]
    poolLock,  \* MCPConnectionPool._lock
    pooled,    \* _clients: the client of the server
    refs,      \* _refs of the server
    process,   \* the process of each client
    msgId,     \* _msg_id of each client
    owed,      \* requests each process has read: [id, from]
    output,    \* lines each process has written: [id, from]
    swallowed  \* history: calls whose answer another call's reader took

mcpVars == <<mcpCall, poolLock, pooled, refs, process, msgId, owed, output, swallowed>>

Line(id, from) == [id |-> id, from |-> from]

McpMove(t, to) == mcpCall' = [mcpCall EXCEPT ![t].at = to]

Alive(c) == c # NoCall /\ process[c] = "alive"

----------------------------------------------------------------------------
(* MCPConnectionPool.get_client.  The lock is held through the handshake.  *)

Invoke(t) ==
    /\ mcpCall[t].at = "new"
    /\ McpMove(t, "waiting")
    /\ UNCHANGED <<poolLock, pooled, refs, process, msgId, owed, output, swallowed>>

Acquire(t) ==
    /\ mcpCall[t].at = "waiting" /\ poolLock = NoCall
    /\ poolLock' = t
    /\ McpMove(t, "lookup")
    /\ UNCHANGED <<pooled, refs, process, msgId, owed, output, swallowed>>

Reuse(t) ==
    /\ mcpCall[t].at = "lookup" /\ Alive(pooled)
    /\ refs' = refs + 1
    /\ poolLock' = NoCall
    /\ mcpCall' = [mcpCall EXCEPT ![t].at = "ensure", ![t].client = pooled]
    /\ UNCHANGED <<pooled, process, msgId, owed, output, swallowed>>

\* _disconnect_locked of a dead client, then a new client whose connect spawns
\* the process and sends the initialize request.
Connect(t) ==
    /\ mcpCall[t].at = "lookup" /\ ~Alive(pooled)
    /\ pooled' = NoCall /\ refs' = 0
    /\ process' = [c \in McpCalls |->
         IF c = t THEN "alive" ELSE IF c = pooled THEN "closed" ELSE process[c]]
    /\ msgId' = [msgId EXCEPT ![t] = 1]
    /\ owed' = [owed EXCEPT ![t] = {Line(1, t)}]
    /\ mcpCall' = [mcpCall EXCEPT ![t].at = "test", ![t].client = t, ![t].id = 1]
    /\ UNCHANGED <<poolLock, output, swallowed>>

\* Is t still in the handshake of its own client?
Handshaking(t) == mcpCall[t].client = t /\ mcpCall[t].id = 1

Connected(t) ==
    /\ mcpCall[t].at = "answered" /\ Handshaking(t)
    /\ pooled' = t /\ refs' = 1
    /\ poolLock' = NoCall
    /\ mcpCall' = [mcpCall EXCEPT ![t].at = "ensure", ![t].id = 0, ![t].got = NoCall]
    /\ UNCHANGED <<process, msgId, owed, output, swallowed>>

\* Mutant: the lock is released on success only.
KeptLock(t) == t

ReleasedLock(t) == NoCall

\* The MCPError escapes invoke; the process goes on, known to nobody.
ConnectFailed(t) ==
    /\ mcpCall[t].at = "failed" /\ Handshaking(t)
    /\ poolLock' = ReleasedLock(t)
    /\ McpMove(t, "raised")
    /\ UNCHANGED <<pooled, refs, process, msgId, owed, output, swallowed>>

----------------------------------------------------------------------------
(* MCPClient.call_tool.                                                    *)

\* Mutant: every request of a client has the number of the handshake's next.
SameId(n) == 2

NextId(n) == n + 1

\* _ensure_connected, and _next_id under the lock of the client.
Number(t) ==
    LET c == mcpCall[t].client IN
    /\ mcpCall[t].at = "ensure"
    /\ IF Alive(c)
       THEN /\ msgId' = [msgId EXCEPT ![c] = NextId(@)]
            /\ mcpCall' = [mcpCall EXCEPT ![t].at = "send", ![t].id = NextId(msgId[c])]
       ELSE McpMove(t, "failed") /\ UNCHANGED msgId
    /\ UNCHANGED <<poolLock, pooled, refs, process, owed, output, swallowed>>

\* A write to a dead process raises, and so does a client disconnected since.
Send(t) ==
    LET c == mcpCall[t].client IN
    /\ mcpCall[t].at = "send"
    /\ IF Alive(c)
       THEN /\ owed' = [owed EXCEPT ![c] = @ \cup {Line(mcpCall[t].id, t)}]
            /\ McpMove(t, "test")
       ELSE McpMove(t, "failed") /\ UNCHANGED owed
    /\ UNCHANGED <<poolLock, pooled, refs, process, msgId, output, swallowed>>

\* The deadline is looked at between two lines, not while readline waits.
TestDeadline(t) ==
    /\ mcpCall[t].at = "test"
    /\ McpMove(t, "readline")
    /\ UNCHANGED <<poolLock, pooled, refs, process, msgId, owed, output, swallowed>>

Expire(t) ==
    /\ mcpCall[t].at = "test"
    /\ McpMove(t, "failed")
    /\ UNCHANGED <<poolLock, pooled, refs, process, msgId, owed, output, swallowed>>

\* Mutant: the first answer is taken for one's own.
AnyAnswer(line, id) == line.id # 0

IsAnswer(line, id) == line.id = id

\* A line, if there is one.  A line for another id is dropped.
ReadLine(t) ==
    LET c == mcpCall[t].client
        line == Head(output[c])
        mine == IsAnswer(line, mcpCall[t].id)
    IN
    /\ mcpCall[t].at = "readline" /\ process[c] # "closed" /\ output[c] # <<>>
    /\ output' = [output EXCEPT ![c] = Tail(@)]
    /\ mcpCall' = IF mine
                  THEN [mcpCall EXCEPT ![t].at = "answered", ![t].got = line.from]
                  ELSE [mcpCall EXCEPT ![t].at = "test"]
    /\ swallowed' = IF mine THEN swallowed ELSE swallowed \cup ({line.from} \ {NoCall, t})
    /\ UNCHANGED <<poolLock, pooled, refs, process, msgId, owed>>

\* readline at the end of a dead process's output returns at once, and raises
\* when the pipe was closed.
ReadEnd(t) ==
    LET c == mcpCall[t].client IN
    /\ mcpCall[t].at = "readline"
    /\ \/ process[c] = "dead" /\ output[c] = <<>> /\ McpMove(t, "test")
       \/ process[c] = "closed" /\ McpMove(t, "failed")
    /\ UNCHANGED <<poolLock, pooled, refs, process, msgId, owed, output, swallowed>>

\* release_client waits for the lock of the pool.
Release(t) ==
    /\ mcpCall[t].at \in {"answered", "failed"} /\ ~Handshaking(t)
    /\ poolLock = NoCall
    /\ refs' = IF refs = 0 THEN 0 ELSE refs - 1
    /\ McpMove(t, IF mcpCall[t].at = "answered" THEN "returned" ELSE "error")
    /\ UNCHANGED <<poolLock, pooled, process, msgId, owed, output, swallowed>>

----------------------------------------------------------------------------
(* The server process.                                                     *)

\* It answers a request, or says something nobody asked for.
Answer(c) ==
    \E request \in owed[c] :
        /\ Alive(c)
        /\ owed' = [owed EXCEPT ![c] = @ \ {request}]
        /\ output' = [output EXCEPT ![c] = Append(@, request)]
        /\ UNCHANGED <<mcpCall, poolLock, pooled, refs, process, msgId, swallowed>>

Chatter(c) ==
    /\ "chatter" \in ServerFaults /\ Alive(c) /\ output[c] = <<>>
    /\ output' = [output EXCEPT ![c] = <<Line(0, NoCall)>>]
    /\ UNCHANGED <<mcpCall, poolLock, pooled, refs, process, msgId, owed, swallowed>>

\* An error object for an answer makes the call fail.
AnswerError(t) ==
    /\ "error" \in ServerFaults
    /\ mcpCall[t].at = "answered"
    /\ McpMove(t, "failed")
    /\ UNCHANGED <<poolLock, pooled, refs, process, msgId, owed, output, swallowed>>

Die(c) ==
    /\ "die" \in ServerFaults /\ Alive(c)
    /\ process' = [process EXCEPT ![c] = "dead"]
    /\ owed' = [owed EXCEPT ![c] = {}]
    /\ UNCHANGED <<mcpCall, poolLock, pooled, refs, msgId, output, swallowed>>

----------------------------------------------------------------------------
McpInit ==
    /\ mcpCall = [t \in McpCalls |-> [at |-> "new", client |-> NoCall, id |-> 0, got |-> NoCall]]
    /\ poolLock = NoCall /\ pooled = NoCall /\ refs = 0
    /\ process = [c \in McpCalls |-> "none"]
    /\ msgId = [c \in McpCalls |-> 0]
    /\ owed = [c \in McpCalls |-> {}]
    /\ output = [c \in McpCalls |-> <<>>]
    /\ swallowed = {}

\* Steps a running thread takes sooner or later.
McpStep(t) ==
    \/ Acquire(t) \/ Reuse(t) \/ Connect(t) \/ Connected(t) \/ ConnectFailed(t)
    \/ Number(t) \/ Send(t) \/ TestDeadline(t) \/ ReadLine(t) \/ ReadEnd(t) \/ Release(t)

McpNext ==
    \E t \in McpCalls :
        Invoke(t) \/ McpStep(t) \/ Expire(t)
        \/ Answer(t) \/ Chatter(t) \/ AnswerError(t) \/ Die(t)

\* Threads are scheduled; a reader that keeps coming back to its deadline meets
\* it; a server that lives answers what it reads.
McpFairness ==
    \A t \in McpCalls :
        /\ WF_mcpVars(McpStep(t))
        /\ SF_mcpVars(Expire(t))
        /\ WF_mcpVars(Answer(t))

McpSpec == McpInit /\ [][McpNext]_mcpVars /\ McpFairness

----------------------------------------------------------------------------
(* Properties.                                                             *)

\* Whatever the overlap of calls, their numbers and reconnections, a call that
\* returns an answer returns the answer to its own request.
AnswersItsOwn ==
    \A t \in McpCalls : mcpCall[t].at \in {"answered", "returned"} => mcpCall[t].got = t

McpOver(t) == mcpCall[t].at \in {"returned", "error", "raised"}

\* A call that starts ends, with an answer or an error, through deaths of the
\* server, failed handshakes and reconnections, as long as no reader took the
\* answer to the call of another thread, which then waits in readline for ever
\* while the server lives.
CallsEnd ==
    \A t \in McpCalls :
        mcpCall[t].at # "new" ~> McpOver(t) \/ swallowed # {}
=============================================================================
