------------------------------ MODULE TrustProofs -----------------------------
(***************************************************************************)
(* What a caller may trust, whatever overlaps, dies or repeats:            *)
(*   - an answer an MCP call returns is its own (McpConnections);          *)
(*   - a plugin that nothing disturbs is loaded as it was signed           *)
(*     (PluginPackages);                                                   *)
(*   - a coder session runs what its user trusts or granted, and its file  *)
(*     tells the truth (CoderSession);                                     *)
(*   - what the views say of a run is so (RunReports);                     *)
(*   - a snapshot that verifies is the repository, and was scanned         *)
(*     (SnapshotArchive).                                                  *)
(***************************************************************************)
EXTENDS McpConnections, PluginPackages, CoderSession, RunReports, SnapshotArchive,
        SequenceTheorems, FiniteSetTheorems, WellFoundedInduction, TLAPS

----------------------------------------------------------------------------
(* McpConnections: a call that returns an answer returns its own.          *)

Places == {"new", "waiting", "lookup", "ensure", "send", "test", "readline", "answered",
           "failed", "returned", "error", "raised"}

Lines == [id : Nat, from : McpCalls \cup {NoCall}]

CallRecords ==
    [at : Places, client : McpCalls \cup {NoCall}, id : Nat, got : McpCalls \cup {NoCall}]

McpTypeOK ==
    /\ mcpCall \in [McpCalls -> CallRecords]
    /\ pooled \in McpCalls \cup {NoCall}
    /\ process \in [McpCalls -> {"none", "alive", "dead", "closed"}]
    /\ msgId \in [McpCalls -> Nat]
    /\ owed \in [McpCalls -> SUBSET Lines]
    /\ output \in [McpCalls -> Seq(Lines)]

Unserved == {"new", "waiting", "lookup"}

\* A call has a client once get_client has given it one; that client was
\* spawned by a call that still has it, and its handshake used the number 1.
GivenTo(t) ==
    /\ mcpCall[t].at \in Unserved => mcpCall[t].client = NoCall /\ mcpCall[t].id = 0
    /\ mcpCall[t].at \notin Unserved => mcpCall[t].client # NoCall
    /\ mcpCall[t].client # NoCall =>
         /\ mcpCall[mcpCall[t].client].client = mcpCall[t].client
         /\ msgId[mcpCall[t].client] >= 1

ClientsGiven == \A t \in McpCalls : GivenTo(t)

\* A client that no call has was never spawned: nobody knows of it.
FreshClients ==
    \A c \in McpCalls : mcpCall[c].client # c =>
        process[c] = "none" /\ pooled # c /\ owed[c] = {} /\ output[c] = <<>>

\* The numbers of the requests of one client differ, 1 is that of the
\* handshake of the call that spawned it, and a request is numbered once.
NumberedWell(t) ==
    /\ mcpCall[t].at = "ensure" => mcpCall[t].id = 0
    /\ mcpCall[t].at \in {"send", "test", "readline"} => mcpCall[t].id > 0
    /\ mcpCall[t].id = 1 => mcpCall[t].client = t
    /\ mcpCall[t].id > 0 => mcpCall[t].id <= msgId[mcpCall[t].client]

NumbersDiffer ==
    /\ \A t \in McpCalls : NumberedWell(t)
    /\ \A t, u \in McpCalls :
         mcpCall[t].client = mcpCall[u].client /\ mcpCall[t].id = mcpCall[u].id
           /\ mcpCall[t].id > 1 => t = u

\* A line with a number belongs to the call that sent the request.
Owner(c, line) ==
    line.id > 0 =>
        /\ line.from # NoCall
        /\ line.id = 1 => line.from = c
        /\ line.id > 1 => mcpCall[line.from].client = c /\ mcpCall[line.from].id = line.id

LinesOwned ==
    \A c \in McpCalls :
        /\ \A line \in owed[c] : Owner(c, line)
        /\ \A n \in 1..Len(output[c]) : Owner(c, output[c][n])

McpInv ==
    /\ McpTypeOK /\ ClientsGiven /\ FreshClients /\ NumbersDiffer /\ LinesOwned
    /\ AnswersItsOwn

LEMMA McpInvInit == McpInit => McpInv
  BY McpAssumption DEF McpInit, McpInv, McpTypeOK, CallRecords, ClientsGiven, GivenTo, NumberedWell, FreshClients, NumbersDiffer,
     LinesOwned, Owner, AnswersItsOwn, Places, Unserved, Lines

\* The call t goes on with the same client and number: what is said of clients
\* and numbers stays true, and so does the owner of every line.
LEMMA SameNumbers ==
  ASSUME McpInv, NEW t \in McpCalls, msgId' = msgId,
         \A u \in McpCalls : /\ mcpCall'[u].client = mcpCall[u].client
                             /\ mcpCall'[u].id = mcpCall[u].id
                             /\ u # t => mcpCall'[u] = mcpCall[u],
         mcpCall'[t].at \in Unserved <=> mcpCall[t].at \in Unserved,
         mcpCall'[t].at # "ensure",
         mcpCall'[t].at \in {"send", "test", "readline"} => mcpCall[t].id > 0
  PROVE  /\ ClientsGiven' /\ NumbersDiffer'
         /\ \A c \in McpCalls, line \in Lines : Owner(c, line) => Owner(c, line)'
<1>1. ClientsGiven'
  <2>1. SUFFICES ASSUME NEW u \in McpCalls PROVE GivenTo(u)' BY DEF ClientsGiven
  <2>2. GivenTo(u) /\ mcpCall[u].client \in McpCalls \cup {NoCall}
    BY DEF McpInv, ClientsGiven, McpTypeOK, CallRecords
  <2>3. mcpCall'[u].at \in Unserved <=> mcpCall[u].at \in Unserved OBVIOUS
  <2>4. mcpCall'[u].client # NoCall =>
          /\ mcpCall'[mcpCall'[u].client].client = mcpCall'[u].client
          /\ msgId'[mcpCall'[u].client] >= 1
    BY <2>2 DEF GivenTo
  <2> QED BY <2>2, <2>3, <2>4 DEF GivenTo
<1>2. NumbersDiffer' BY DEF McpInv, NumbersDiffer, NumberedWell
<1>3. \A c \in McpCalls, line \in Lines : Owner(c, line) => Owner(c, line)'
  BY DEF Owner, Lines
<1> QED BY <1>1, <1>2, <1>3

\* The thread of a call goes on without touching clients, numbers or lines.
LEMMA GoesOn ==
  ASSUME McpInv, NEW t \in McpCalls, NEW to \in Places, McpMove(t, to),
         mcpCall[t].at \in Unserved <=> to \in Unserved, to # "ensure",
         to \in {"send", "test", "readline"} => mcpCall[t].id > 0,
         to \in {"answered", "returned"} => mcpCall[t].at \in {"answered", "returned"},
         UNCHANGED <<pooled, process, msgId, owed, output>>
  PROVE  McpInv'
<1>1. /\ \A u \in McpCalls : /\ mcpCall'[u].client = mcpCall[u].client
                             /\ mcpCall'[u].id = mcpCall[u].id
                             /\ mcpCall'[u].got = mcpCall[u].got
                             /\ u # t => mcpCall'[u] = mcpCall[u]
      /\ mcpCall'[t].at = to
  BY DEF McpMove, McpInv, McpTypeOK, CallRecords
<1>2. McpTypeOK' BY DEF McpInv, McpTypeOK, CallRecords, McpMove
<1>3. FreshClients' BY <1>1 DEF McpInv, FreshClients
<1>4. /\ ClientsGiven' /\ NumbersDiffer'
      /\ \A c \in McpCalls, line \in Lines : Owner(c, line) => Owner(c, line)'
  BY <1>1, SameNumbers
<1>5. LinesOwned' BY <1>4 DEF McpInv, LinesOwned, McpTypeOK
<1>6. AnswersItsOwn' BY <1>1 DEF McpInv, AnswersItsOwn
<1> QED BY <1>2, <1>3, <1>4, <1>5, <1>6 DEF McpInv

LEMMA ReuseKeeps ==
  ASSUME McpInv, NEW t \in McpCalls, Reuse(t)
  PROVE  McpInv'
<1>1. /\ mcpCall[t].at = "lookup" /\ pooled \in McpCalls /\ process[pooled] = "alive"
      /\ UNCHANGED <<pooled, process, msgId, owed, output>>
  BY DEF Reuse, Alive, McpInv, McpTypeOK
<1>2. /\ \A u \in McpCalls \ {t} : mcpCall'[u] = mcpCall[u]
      /\ mcpCall'[t] = [mcpCall[t] EXCEPT !.at = "ensure", !.client = pooled]
  BY <1>1 DEF Reuse, McpInv, McpTypeOK
<1>3. /\ mcpCall'[t].at = "ensure" /\ mcpCall'[t].client = pooled
      /\ mcpCall'[t].id = 0 /\ mcpCall[t].id = 0 /\ mcpCall[t].client = NoCall
  BY <1>1, <1>2 DEF McpInv, McpTypeOK, ClientsGiven, GivenTo, Unserved
<1>4. mcpCall[pooled].client = pooled /\ msgId[pooled] >= 1 /\ pooled # t
  BY <1>1, <1>3, McpAssumption DEF McpInv, FreshClients, ClientsGiven, GivenTo
<1>5. McpTypeOK'
  <2>1. mcpCall[t] \in CallRecords /\ mcpCall'[t] \in CallRecords
    BY <1>1, <1>2 DEF McpInv, McpTypeOK, CallRecords, Places
  <2>2. mcpCall' \in [McpCalls -> CallRecords]
    BY <2>1, <1>2 DEF Reuse, McpInv, McpTypeOK
  <2> QED BY <2>2, <1>1 DEF McpInv, McpTypeOK
<1>6. ClientsGiven'
  <2>1. SUFFICES ASSUME NEW u \in McpCalls PROVE GivenTo(u)' BY DEF ClientsGiven
  <2>2. CASE u = t
    <3>1. mcpCall'[mcpCall'[t].client].client = pooled /\ msgId'[mcpCall'[t].client] >= 1
      BY <1>1, <1>2, <1>3, <1>4
    <3>2. pooled # NoCall BY <1>1, McpAssumption
    <3> QED BY <2>2, <3>1, <3>2, <1>3 DEF GivenTo, Unserved
  <2>3. CASE u # t
    <3>1. GivenTo(u) /\ mcpCall[u].client \in McpCalls \cup {NoCall}
      BY DEF McpInv, ClientsGiven, McpTypeOK, CallRecords
    <3>2. mcpCall[u].client # t BY <3>1, <1>3, McpAssumption DEF GivenTo
    <3> QED BY <3>1, <3>2, <2>3, <1>1, <1>2 DEF GivenTo
  <2> QED BY <2>2, <2>3
<1>7. FreshClients' BY <1>1, <1>2, <1>3, <1>4, McpAssumption DEF McpInv, FreshClients
<1>8. NumbersDiffer'
  <2>1. ASSUME NEW u \in McpCalls PROVE NumberedWell(u)'
    <3>1. CASE u = t BY <3>1, <1>3 DEF NumberedWell
    <3>2. CASE u # t BY <3>2, <1>1, <1>2 DEF McpInv, NumbersDiffer, NumberedWell
    <3> QED BY <3>1, <3>2
  <2>2. ASSUME NEW u \in McpCalls, NEW v \in McpCalls, mcpCall'[u].id > 1,
               mcpCall'[u].client = mcpCall'[v].client, mcpCall'[u].id = mcpCall'[v].id
        PROVE  u = v
    <3>1. u # t /\ v # t BY <2>2, <1>3
    <3> QED BY <3>1, <2>2, <1>2 DEF McpInv, NumbersDiffer
  <2> QED BY <2>1, <2>2 DEF NumbersDiffer
<1>9. LinesOwned'
  <2>1. \A c \in McpCalls, line \in Lines : Owner(c, line) => Owner(c, line)'
    BY <1>2, <1>3 DEF Owner, Lines
  <2> QED BY <2>1, <1>1 DEF McpInv, LinesOwned, McpTypeOK
<1>10. AnswersItsOwn' BY <1>2, <1>3 DEF McpInv, AnswersItsOwn
<1> QED BY <1>5, <1>6, <1>7, <1>8, <1>9, <1>10 DEF McpInv

LEMMA ConnectKeeps ==
  ASSUME McpInv, NEW t \in McpCalls, Connect(t)
  PROVE  McpInv'
<1>1. /\ mcpCall[t].at = "lookup" /\ pooled' = NoCall
      /\ msgId' = [msgId EXCEPT ![t] = 1]
      /\ owed' = [owed EXCEPT ![t] = {Line(1, t)}] /\ output' = output
  BY DEF Connect
<1>2. /\ \A u \in McpCalls \ {t} : mcpCall'[u] = mcpCall[u]
      /\ mcpCall'[t] = [mcpCall[t] EXCEPT !.at = "test", !.client = t, !.id = 1]
  BY DEF Connect, McpInv, McpTypeOK
<1>3. /\ mcpCall'[t].at = "test" /\ mcpCall'[t].client = t /\ mcpCall'[t].id = 1
      /\ mcpCall[t].id = 0 /\ mcpCall[t].client = NoCall
  BY <1>1, <1>2 DEF McpInv, McpTypeOK, ClientsGiven, GivenTo, Unserved
<1>4. /\ output[t] = <<>> /\ pooled # t
      /\ \A u \in McpCalls : mcpCall[u].client # t
  BY <1>3, McpAssumption DEF McpInv, FreshClients, ClientsGiven, GivenTo
<1>5. /\ \A c \in McpCalls \ {t} : msgId'[c] = msgId[c] /\ owed'[c] = owed[c]
      /\ msgId'[t] = 1 /\ owed'[t] = {Line(1, t)}
      /\ \A c \in McpCalls \ {t} : process[c] = "none" /\ pooled # c => process'[c] = "none"
  BY <1>1 DEF Connect, McpInv, McpTypeOK
<1>6. McpTypeOK'
  <2>1. Line(1, t) \in Lines BY DEF Line, Lines
  <2>2. mcpCall' \in [McpCalls -> CallRecords]
    <3> DEFINE r == [mcpCall[t] EXCEPT !.at = "test", !.client = t]
    <3>1. mcpCall[t] \in CallRecords BY DEF McpInv, McpTypeOK
    <3>2. r \in CallRecords /\ mcpCall'[t] = [r EXCEPT !.id = 1]
      BY <3>1, <1>2 DEF CallRecords, Places
    <3> HIDE DEF r
    <3>3. mcpCall'[t] \in CallRecords BY <3>2 DEF CallRecords
    <3> QED BY <3>3, <1>2 DEF Connect, McpInv, McpTypeOK
  <2>3. process' \in [McpCalls -> {"none", "alive", "dead", "closed"}]
    BY DEF Connect, McpInv, McpTypeOK
  <2> QED BY <1>1, <2>1, <2>2, <2>3 DEF McpInv, McpTypeOK
<1>7. ClientsGiven'
  <2>1. SUFFICES ASSUME NEW u \in McpCalls PROVE GivenTo(u)' BY DEF ClientsGiven
  <2>2. CASE u = t
    <3>1. mcpCall'[mcpCall'[t].client].client = t /\ msgId'[mcpCall'[t].client] = 1 /\ t # NoCall
      BY <1>3, <1>5, McpAssumption
    <3> QED BY <2>2, <3>1, <1>3 DEF GivenTo, Unserved
  <2>3. CASE u # t
    <3>1. GivenTo(u) /\ mcpCall[u].client \in McpCalls \cup {NoCall}
      BY DEF McpInv, ClientsGiven, McpTypeOK, CallRecords
    <3> QED BY <3>1, <2>3, <1>2, <1>4, <1>5 DEF GivenTo
  <2> QED BY <2>2, <2>3
<1>8. FreshClients'
  <2>1. SUFFICES ASSUME NEW c \in McpCalls, mcpCall'[c].client # c
                 PROVE  process'[c] = "none" /\ pooled' # c /\ owed'[c] = {} /\ output'[c] = <<>>
    BY DEF FreshClients
  <2>2. c # t /\ mcpCall[c].client # c BY <2>1, <1>2, <1>3
  <2>3. process[c] = "none" /\ pooled # c /\ owed[c] = {} /\ output[c] = <<>>
    BY <2>2 DEF McpInv, FreshClients
  <2> QED BY <2>2, <2>3, <1>1, <1>5, McpAssumption
<1>9. NumbersDiffer'
  <2>1. ASSUME NEW u \in McpCalls, u # t, mcpCall[u].id > 0
        PROVE  mcpCall[u].client \in McpCalls \ {t}
    <3>1. mcpCall[u].client \in McpCalls \cup {NoCall} /\ GivenTo(u)
      BY DEF McpInv, McpTypeOK, CallRecords, ClientsGiven
    <3> QED BY <3>1, <2>1, <1>4 DEF GivenTo
  <2>2. ASSUME NEW u \in McpCalls PROVE NumberedWell(u)'
    <3>1. CASE u = t BY <3>1, <1>3, <1>5 DEF NumberedWell
    <3>2. CASE u # t BY <3>2, <2>1, <1>2, <1>5 DEF McpInv, NumbersDiffer, NumberedWell
    <3> QED BY <3>1, <3>2
  <2>3. ASSUME NEW u \in McpCalls, NEW v \in McpCalls, mcpCall'[u].id > 1,
               mcpCall'[u].client = mcpCall'[v].client, mcpCall'[u].id = mcpCall'[v].id
        PROVE  u = v
    <3>1. u # t /\ v # t BY <2>3, <1>3
    <3> QED BY <3>1, <2>3, <1>2 DEF McpInv, NumbersDiffer, NumberedWell
  <2> QED BY <2>2, <2>3 DEF NumbersDiffer
<1>10. LinesOwned'
  <2>1. \A c \in McpCalls, line \in Lines : Owner(c, line) => Owner(c, line)'
    BY <1>2, <1>3 DEF Owner, Lines
  <2>2. Owner(t, Line(1, t))' BY McpAssumption DEF Owner, Line
  <2> QED BY <2>1, <2>2, <1>1, <1>5 DEF McpInv, LinesOwned, McpTypeOK
<1>11. AnswersItsOwn' BY <1>2, <1>3 DEF McpInv, AnswersItsOwn
<1> QED BY <1>6, <1>7, <1>8, <1>9, <1>10, <1>11 DEF McpInv

LEMMA ConnectedKeeps ==
  ASSUME McpInv, NEW t \in McpCalls, Connected(t)
  PROVE  McpInv'
<1>1. /\ mcpCall[t].at = "answered" /\ mcpCall[t].client = t /\ mcpCall[t].id = 1
      /\ pooled' = t /\ UNCHANGED <<process, msgId, owed, output>>
  BY DEF Connected, Handshaking
<1>2. /\ \A u \in McpCalls \ {t} : mcpCall'[u] = mcpCall[u]
      /\ mcpCall'[t].at = "ensure" /\ mcpCall'[t].client = t
      /\ mcpCall'[t].id = 0 /\ mcpCall'[t].got = NoCall
  BY <1>1 DEF Connected, McpInv, McpTypeOK, CallRecords
<1>3. McpTypeOK'
  <2> DEFINE r == [mcpCall[t] EXCEPT !.at = "ensure", !.id = 0]
  <2>1. mcpCall[t] \in CallRecords BY DEF McpInv, McpTypeOK
  <2>2. r \in CallRecords /\ mcpCall' = [mcpCall EXCEPT ![t] = [r EXCEPT !.got = NoCall]]
    BY <2>1 DEF CallRecords, Places, Connected
  <2> HIDE DEF r
  <2>3. [r EXCEPT !.got = NoCall] \in CallRecords BY <2>2 DEF CallRecords
  <2> QED BY <2>2, <2>3, <1>1 DEF McpInv, McpTypeOK
<1>4. ClientsGiven'
  <2>1. SUFFICES ASSUME NEW u \in McpCalls PROVE GivenTo(u)' BY DEF ClientsGiven
  <2>2. GivenTo(u) /\ mcpCall[u].client \in McpCalls \cup {NoCall}
    BY DEF McpInv, ClientsGiven, McpTypeOK, CallRecords
  <2>3. /\ mcpCall'[u].client = mcpCall[u].client
        /\ \A v \in McpCalls : mcpCall'[v].client = mcpCall[v].client
    BY <1>1, <1>2
  <2>4. /\ mcpCall'[u].at \in Unserved <=> mcpCall[u].at \in Unserved
        /\ mcpCall'[u].at \in Unserved => mcpCall'[u].id = mcpCall[u].id
    BY <1>1, <1>2 DEF Unserved
  <2>5. mcpCall'[u].client # NoCall =>
          /\ mcpCall'[mcpCall'[u].client].client = mcpCall'[u].client
          /\ msgId'[mcpCall'[u].client] >= 1
    BY <2>2, <2>3, <1>1 DEF GivenTo
  <2> QED BY <2>2, <2>3, <2>4, <2>5 DEF GivenTo
<1>5. FreshClients' BY <1>1, <1>2 DEF McpInv, FreshClients
<1>6. NumbersDiffer'
  <2>1. ASSUME NEW u \in McpCalls PROVE NumberedWell(u)'
    <3>1. CASE u = t BY <3>1, <1>2 DEF NumberedWell
    <3>2. CASE u # t BY <3>2, <1>1, <1>2 DEF McpInv, NumbersDiffer, NumberedWell
    <3> QED BY <3>1, <3>2
  <2>2. ASSUME NEW u \in McpCalls, NEW v \in McpCalls, mcpCall'[u].id > 1,
               mcpCall'[u].client = mcpCall'[v].client, mcpCall'[u].id = mcpCall'[v].id
        PROVE  u = v
    <3>1. u # t /\ v # t BY <2>2, <1>2
    <3> QED BY <3>1, <2>2, <1>2 DEF McpInv, NumbersDiffer
  <2> QED BY <2>1, <2>2 DEF NumbersDiffer
<1>7. LinesOwned'
  <2>1. \A c \in McpCalls, line \in Lines : Owner(c, line) => Owner(c, line)'
    BY <1>1, <1>2 DEF Owner, Lines
  <2> QED BY <2>1, <1>1 DEF McpInv, LinesOwned, McpTypeOK
<1>8. AnswersItsOwn' BY <1>1, <1>2 DEF McpInv, AnswersItsOwn
<1> QED BY <1>3, <1>4, <1>5, <1>6, <1>7, <1>8 DEF McpInv

LEMMA NumberKeeps ==
  ASSUME McpInv, NEW t \in McpCalls, Number(t), Alive(mcpCall[t].client)
  PROVE  McpInv'
<1>1. PICK c \in McpCalls : c = mcpCall[t].client
  BY DEF Alive, McpInv, McpTypeOK, CallRecords
<1>2. PICK n \in Nat : n = msgId[c] BY DEF McpInv, McpTypeOK
<1>3. /\ mcpCall[t].at = "ensure" /\ mcpCall[t].id = 0 /\ n >= 1 /\ c # NoCall
      /\ UNCHANGED <<pooled, process, owed, output>>
  BY <1>1, <1>2, McpAssumption DEF Number, McpInv, NumbersDiffer, NumberedWell, ClientsGiven, GivenTo
<1>4. /\ msgId' = [msgId EXCEPT ![c] = n + 1]
      /\ mcpCall' = [mcpCall EXCEPT ![t].at = "send", ![t].id = n + 1]
  BY <1>1, <1>2 DEF Number, NextId
<1>5. /\ \A u \in McpCalls \ {t} : mcpCall'[u] = mcpCall[u]
      /\ mcpCall'[t].at = "send" /\ mcpCall'[t].client = c /\ mcpCall'[t].id = n + 1
      /\ mcpCall'[t].got = mcpCall[t].got
  BY <1>1, <1>4 DEF McpInv, McpTypeOK, CallRecords
<1>6. /\ \A d \in McpCalls : msgId'[d] >= msgId[d] /\ msgId'[d] \in Nat
      /\ msgId'[c] = n + 1
  BY <1>2, <1>4 DEF McpInv, McpTypeOK
<1>7. McpTypeOK'
  <2> DEFINE r == [mcpCall[t] EXCEPT !.at = "send"]
  <2>1. mcpCall[t] \in CallRecords BY DEF McpInv, McpTypeOK
  <2>2. r \in CallRecords /\ mcpCall' = [mcpCall EXCEPT ![t] = [r EXCEPT !.id = n + 1]]
    BY <2>1, <1>4 DEF CallRecords, Places
  <2> HIDE DEF r
  <2>3. [r EXCEPT !.id = n + 1] \in CallRecords BY <2>2 DEF CallRecords
  <2> QED BY <2>2, <2>3, <1>3, <1>4 DEF McpInv, McpTypeOK
<1>8. ClientsGiven'
  <2>1. SUFFICES ASSUME NEW u \in McpCalls PROVE GivenTo(u)' BY DEF ClientsGiven
  <2>2. GivenTo(u) /\ mcpCall[u].client \in McpCalls \cup {NoCall}
    BY DEF McpInv, ClientsGiven, McpTypeOK, CallRecords
  <2>3. \A v \in McpCalls : mcpCall'[v].client = mcpCall[v].client BY <1>1, <1>5
  <2>4. /\ mcpCall'[u].at \in Unserved <=> mcpCall[u].at \in Unserved
        /\ mcpCall'[u].at \in Unserved => mcpCall'[u].id = mcpCall[u].id
    BY <1>3, <1>5 DEF Unserved
  <2>5. ASSUME mcpCall'[u].client # NoCall
        PROVE  /\ mcpCall'[mcpCall'[u].client].client = mcpCall'[u].client
               /\ msgId'[mcpCall'[u].client] >= 1
    <3>1. PICK d \in McpCalls : d = mcpCall[u].client BY <2>2, <2>3, <2>5
    <3>2. mcpCall[d].client = d /\ msgId[d] >= 1 /\ msgId[d] \in Nat
      BY <3>1, <2>2, <2>3, <2>5 DEF GivenTo, McpInv, McpTypeOK
    <3> QED BY <3>1, <3>2, <2>3, <1>6
  <2> QED BY <2>2, <2>3, <2>4, <2>5 DEF GivenTo
<1>9. FreshClients' BY <1>1, <1>3, <1>5 DEF McpInv, FreshClients
<1>10. NumbersDiffer'
  <2>1. ASSUME NEW u \in McpCalls, u # t
        PROVE  /\ NumberedWell(u)'
               /\ mcpCall[u].client = c => mcpCall[u].id < n + 1
    <3>1. /\ mcpCall[u].id \in Nat /\ NumberedWell(u) /\ GivenTo(u) /\ GivenTo(t)
          /\ mcpCall[u].client \in McpCalls \cup {NoCall}
      BY DEF McpInv, McpTypeOK, CallRecords, NumbersDiffer, ClientsGiven
    <3>2. ASSUME mcpCall[u].id > 0
          PROVE  mcpCall[u].client \in McpCalls /\ msgId[mcpCall[u].client] \in Nat
      BY <3>1, <3>2 DEF GivenTo, McpInv, McpTypeOK
    <3>3. mcpCall[u].id > 0 => mcpCall[u].id <= msgId'[mcpCall[u].client]
      BY <3>1, <3>2, <1>6 DEF NumberedWell
    <3>4. mcpCall[u].client = c => mcpCall[u].id < n + 1 BY <3>1, <1>2 DEF NumberedWell
    <3> QED BY <2>1, <3>1, <3>3, <3>4, <1>5 DEF NumberedWell
  <2>2. NumberedWell(t)' BY <1>3, <1>5, <1>6 DEF NumberedWell
  <2>3. ASSUME NEW u \in McpCalls, NEW v \in McpCalls, mcpCall'[u].id > 1,
               mcpCall'[u].client = mcpCall'[v].client, mcpCall'[u].id = mcpCall'[v].id
        PROVE  u = v
    <3>1. CASE u # t /\ v # t BY <3>1, <2>3, <1>5 DEF McpInv, NumbersDiffer
    <3>2. CASE u = t /\ v # t
      BY <3>2, <2>1, <2>3, <1>5 DEF McpInv, McpTypeOK, CallRecords
    <3>3. CASE u # t /\ v = t
      BY <3>3, <2>1, <2>3, <1>5 DEF McpInv, McpTypeOK, CallRecords
    <3> QED BY <3>1, <3>2, <3>3
  <2> QED BY <2>1, <2>2, <2>3 DEF NumbersDiffer
<1>11. LinesOwned'
  <2>1. \A d \in McpCalls, line \in Lines : Owner(d, line) => Owner(d, line)'
    BY <1>3, <1>5 DEF Owner, Lines
  <2> QED BY <2>1, <1>3 DEF McpInv, LinesOwned, McpTypeOK
<1>12. AnswersItsOwn' BY <1>5 DEF McpInv, AnswersItsOwn
<1> QED BY <1>7, <1>8, <1>9, <1>10, <1>11, <1>12 DEF McpInv

\* Lines are added for the call that sent a request, or for nobody.
LEMMA SendKeeps ==
  ASSUME McpInv, NEW t \in McpCalls, Send(t), Alive(mcpCall[t].client)
  PROVE  McpInv'
<1>1. PICK c \in McpCalls : c = mcpCall[t].client
  BY DEF Alive, McpInv, McpTypeOK, CallRecords
<1>2. PICK n \in Nat : n = mcpCall[t].id BY DEF McpInv, McpTypeOK, CallRecords
<1>3. /\ mcpCall[t].at = "send" /\ McpMove(t, "test") /\ n > 0
      /\ owed' = [owed EXCEPT ![c] = @ \cup {Line(n, t)}]
      /\ UNCHANGED <<pooled, process, msgId, output>>
  BY <1>1, <1>2 DEF Send, McpInv, NumbersDiffer, NumberedWell
<1>4. /\ \A u \in McpCalls : /\ mcpCall'[u].client = mcpCall[u].client
                             /\ mcpCall'[u].id = mcpCall[u].id
                             /\ mcpCall'[u].got = mcpCall[u].got
                             /\ u # t => mcpCall'[u] = mcpCall[u]
      /\ mcpCall'[t].at = "test"
  BY <1>3 DEF McpMove, McpInv, McpTypeOK, CallRecords
<1>5. McpTypeOK'
  <2>1. Line(n, t) \in Lines BY DEF Line, Lines
  <2>2. mcpCall' \in [McpCalls -> CallRecords]
    <3>1. mcpCall[t] \in CallRecords /\ mcpCall \in [McpCalls -> CallRecords]
      BY DEF McpInv, McpTypeOK
    <3>2. [mcpCall[t] EXCEPT !.at = "test"] \in CallRecords
      BY <3>1 DEF CallRecords, Places
    <3> QED BY <3>1, <3>2, <1>3 DEF McpMove
  <2> QED BY <1>3, <2>1, <2>2 DEF McpInv, McpTypeOK
<1>6. FreshClients'
  <2>1. mcpCall[c].client = c BY <1>1, McpAssumption DEF McpInv, ClientsGiven, GivenTo
  <2> QED BY <2>1, <1>3, <1>4 DEF McpInv, FreshClients, McpTypeOK
<1>7. /\ ClientsGiven' /\ NumbersDiffer'
      /\ \A d \in McpCalls, line \in Lines : Owner(d, line) => Owner(d, line)'
  <2>1. mcpCall'[t].at \in Unserved <=> mcpCall[t].at \in Unserved
    BY <1>3, <1>4 DEF Unserved
  <2>2. msgId' = msgId /\ mcpCall[t].id > 0 /\ mcpCall'[t].at # "ensure"
    BY <1>2, <1>3, <1>4
  <2> QED BY <1>4, <2>1, <2>2, SameNumbers
<1>8. LinesOwned'
  <2>1. Owner(c, Line(n, t))'
    <3>1. t # NoCall /\ (n = 1 => t = c)
      BY <1>1, <1>2, McpAssumption DEF McpInv, NumbersDiffer, NumberedWell
    <3>2. Line(n, t).id = n /\ Line(n, t).from = t BY DEF Line
    <3> QED BY <3>1, <3>2, <1>1, <1>2, <1>4 DEF Owner
  <2>2. \A d \in McpCalls : owed'[d] \subseteq owed[d] \cup {Line(n, t)}
                            /\ (d # c => owed'[d] = owed[d])
    BY <1>3 DEF McpInv, McpTypeOK
  <2> QED BY <2>1, <2>2, <1>3, <1>7 DEF McpInv, LinesOwned, McpTypeOK
<1>9. AnswersItsOwn' BY <1>4 DEF McpInv, AnswersItsOwn
<1> QED BY <1>5, <1>6, <1>7, <1>8, <1>9 DEF McpInv

LEMMA ReadLineKeeps ==
  ASSUME McpInv, NEW t \in McpCalls, ReadLine(t)
  PROVE  McpInv'
<1>1. PICK c \in McpCalls : c = mcpCall[t].client
  <2>1. mcpCall[t].client # NoCall /\ mcpCall[t].client \in McpCalls \cup {NoCall}
    BY DEF ReadLine, McpInv, McpTypeOK, CallRecords, ClientsGiven, GivenTo, Unserved
  <2> QED BY <2>1
<1>2. output[c] # <<>> /\ output[c] \in Seq(Lines)
  BY <1>1 DEF ReadLine, McpInv, McpTypeOK
<1>3. PICK line \in Lines : line = Head(output[c]) /\ Owner(c, line)
  BY <1>2 DEF McpInv, LinesOwned
<1>4. PICK n \in Nat : n = mcpCall[t].id BY DEF McpInv, McpTypeOK, CallRecords
<1>5. /\ mcpCall[t].at = "readline" /\ n > 0
      /\ output' = [output EXCEPT ![c] = Tail(@)]
      /\ UNCHANGED <<pooled, process, msgId, owed>>
      /\ mcpCall' = IF line.id = n
                    THEN [mcpCall EXCEPT ![t].at = "answered", ![t].got = line.from]
                    ELSE [mcpCall EXCEPT ![t].at = "test"]
  BY <1>1, <1>3, <1>4 DEF ReadLine, IsAnswer, McpInv, NumbersDiffer, NumberedWell
<1>6. line.from \in McpCalls \cup {NoCall} /\ line.id \in Nat BY DEF Lines
<1>7. /\ \A u \in McpCalls : /\ mcpCall'[u].client = mcpCall[u].client
                             /\ mcpCall'[u].id = mcpCall[u].id
                             /\ u # t => mcpCall'[u] = mcpCall[u]
      /\ \/ line.id = n /\ mcpCall'[t].at = "answered" /\ mcpCall'[t].got = line.from
         \/ mcpCall'[t].at = "test"
  BY <1>5 DEF McpInv, McpTypeOK, CallRecords
<1>8. McpTypeOK'
  <2>1. mcpCall' \in [McpCalls -> CallRecords]
    <3>1. mcpCall[t] \in CallRecords /\ mcpCall \in [McpCalls -> CallRecords]
      BY DEF McpInv, McpTypeOK
    <3>2. CASE line.id = n
      <4> DEFINE r == [mcpCall[t] EXCEPT !.at = "answered"]
      <4>1. r \in CallRecords /\ mcpCall' = [mcpCall EXCEPT ![t] = [r EXCEPT !.got = line.from]]
        BY <3>1, <3>2, <1>5 DEF CallRecords, Places
      <4> HIDE DEF r
      <4>2. [r EXCEPT !.got = line.from] \in CallRecords BY <4>1, <1>6 DEF CallRecords
      <4> QED BY <4>1, <4>2, <3>1
    <3>3. CASE line.id # n BY <3>1, <3>3, <1>5 DEF CallRecords, Places
    <3> QED BY <3>2, <3>3
  <2> QED BY <2>1, <1>2, <1>5 DEF McpInv, McpTypeOK
<1>9. FreshClients'
  <2>1. mcpCall[c].client = c BY <1>1, McpAssumption DEF McpInv, ClientsGiven, GivenTo
  <2> QED BY <2>1, <1>5, <1>7 DEF McpInv, FreshClients, McpTypeOK
<1>10. /\ ClientsGiven' /\ NumbersDiffer'
       /\ \A d \in McpCalls, l \in Lines : Owner(d, l) => Owner(d, l)'
  <2>1. mcpCall'[t].at \in Unserved <=> mcpCall[t].at \in Unserved
    BY <1>5, <1>7 DEF Unserved
  <2>2. msgId' = msgId /\ mcpCall[t].id > 0 /\ mcpCall'[t].at # "ensure"
    BY <1>4, <1>5, <1>7
  <2> QED BY <1>7, <2>1, <2>2, SameNumbers
<1>11. LinesOwned'
  <2>1. ASSUME NEW d \in McpCalls, NEW k \in 1..Len(output'[d])
        PROVE  \E j \in 1..Len(output[d]) : output'[d][k] = output[d][j]
    <3>1. CASE d # c BY <3>1, <2>1, <1>5 DEF McpInv, McpTypeOK
    <3>2. CASE d = c
      <4>1. output'[c] = Tail(output[c]) BY <1>5 DEF McpInv, McpTypeOK
      <4>2. /\ Len(Tail(output[c])) = Len(output[c]) - 1 /\ Len(output[c]) \in Nat
            /\ \A m \in 1..(Len(output[c]) - 1) : Tail(output[c])[m] = output[c][m + 1]
        BY <1>2
      <4>3. k \in 1..(Len(output[c]) - 1) BY <4>1, <4>2, <3>2
      <4>4. k + 1 \in 1..Len(output[c]) /\ output'[c][k] = output[c][k + 1]
        BY <4>1, <4>2, <4>3
      <4> QED BY <4>4, <3>2
    <3> QED BY <3>1, <3>2
  <2>2. ASSUME NEW d \in McpCalls, NEW k \in 1..Len(output'[d])
        PROVE  Owner(d, output[d][k])'
    <3>1. PICK j \in 1..Len(output[d]) : output'[d][k] = output[d][j] BY <2>1, <2>2
    <3>2. Owner(d, output[d][j]) /\ output[d][j] \in Lines
      BY DEF McpInv, LinesOwned, McpTypeOK
    <3>3. PICK l \in Lines : l = output[d][j] /\ l = output'[d][k] BY <3>1, <3>2
    <3>4. Owner(d, l)' BY <3>2, <3>3, <1>10
    <3> QED BY <3>3, <3>4 DEF Owner
  <2>3. \A d \in McpCalls : \A l \in owed[d] : l \in Lines /\ Owner(d, l)
    BY DEF McpInv, LinesOwned, McpTypeOK
  <2> QED BY <2>2, <2>3, <1>5, <1>10 DEF LinesOwned
<1>12. AnswersItsOwn'
  <2>1. ASSUME mcpCall'[t].at = "answered" PROVE mcpCall'[t].got = t
    <3>1. line.id = n /\ mcpCall'[t].got = line.from BY <2>1, <1>7
    <3>2. CASE n = 1
      BY <3>1, <3>2, <1>1, <1>3, <1>4 DEF Owner, McpInv, NumbersDiffer, NumberedWell
    <3>3. CASE n > 1
      BY <3>1, <3>3, <1>1, <1>3, <1>4, <1>6 DEF Owner, McpInv, NumbersDiffer
    <3> QED BY <3>2, <3>3, <1>5
  <2> QED BY <2>1, <1>7 DEF McpInv, AnswersItsOwn
<1> QED BY <1>8, <1>9, <1>10, <1>11, <1>12 DEF McpInv

\* What the server does: it moves a request to its output, adds a line without
\* a number, or dies with the requests it has.
LEMMA ServerKeeps ==
  ASSUME McpInv, NEW c \in McpCalls, Answer(c) \/ Chatter(c) \/ Die(c)
  PROVE  McpInv'
<1>1. /\ UNCHANGED <<mcpCall, pooled, msgId>> /\ process[c] = "alive"
  BY DEF Answer, Chatter, Die, Alive
<1>2. process' \in [McpCalls -> {"none", "alive", "dead", "closed"}]
      /\ \A d \in McpCalls \ {c} : process'[d] = process[d]
  BY DEF Answer, Chatter, Die, McpInv, McpTypeOK
<1>3. /\ mcpCall[c].client = c
      /\ owed[c] \subseteq Lines /\ output[c] \in Seq(Lines)
      /\ \A l \in owed[c] : Owner(c, l)
  BY <1>1 DEF McpInv, McpTypeOK, FreshClients, LinesOwned
<1>4. /\ owed' \in [McpCalls -> SUBSET Lines]
      /\ \A d \in McpCalls : owed'[d] \subseteq owed[d]
      /\ \A d \in McpCalls \ {c} : owed'[d] = owed[d]
  BY DEF Answer, Chatter, Die, McpInv, McpTypeOK
<1>5. /\ output' \in [McpCalls -> Seq(Lines)]
      /\ \A d \in McpCalls \ {c} : output'[d] = output[d]
      /\ \A k \in 1..Len(output'[c]) :
           \/ k \in 1..Len(output[c]) /\ output'[c][k] = output[c][k]
           \/ Owner(c, output'[c][k])
  <2>1. CASE Answer(c)
    <3>1. PICK l \in owed[c] : output' = [output EXCEPT ![c] = Append(@, l)]
      BY <2>1 DEF Answer
    <3>2. l \in Lines /\ Owner(c, l) /\ output'[c] = Append(output[c], l)
      BY <3>1, <1>3 DEF McpInv, McpTypeOK
    <3>3. Append(output[c], l) \in Seq(Lines) /\ Len(Append(output[c], l)) = Len(output[c]) + 1
          /\ \A k \in 1..Len(output[c]) : Append(output[c], l)[k] = output[c][k]
          /\ Append(output[c], l)[Len(output[c]) + 1] = l
      BY <3>2, <1>3
    <3> QED BY <3>1, <3>2, <3>3, <1>3 DEF McpInv, McpTypeOK
  <2>2. CASE Chatter(c)
    <3>1. Line(0, NoCall) \in Lines /\ Owner(c, Line(0, NoCall))
      BY DEF Line, Lines, Owner
    <3>2. output' = [output EXCEPT ![c] = <<Line(0, NoCall)>>] BY <2>2 DEF Chatter
    <3> QED BY <3>1, <3>2 DEF McpInv, McpTypeOK
  <2>3. CASE Die(c) BY <2>3 DEF Die, McpInv, McpTypeOK
  <2> QED BY <2>1, <2>2, <2>3
<1>6. McpTypeOK' BY <1>1, <1>2, <1>4, <1>5 DEF McpInv, McpTypeOK
<1>7. ClientsGiven' /\ NumbersDiffer' /\ AnswersItsOwn'
  BY <1>1 DEF McpInv, ClientsGiven, GivenTo, NumbersDiffer, NumberedWell, AnswersItsOwn
<1>8. FreshClients' BY <1>1, <1>2, <1>3, <1>4, <1>5 DEF McpInv, FreshClients
<1>9. LinesOwned'
  <2>1. \A d \in McpCalls : \A l : Owner(d, l) => Owner(d, l)' BY <1>1 DEF Owner
  <2>2. ASSUME NEW d \in McpCalls, NEW k \in 1..Len(output'[d])
        PROVE  Owner(d, output'[d][k])
    <3>1. CASE d = c BY <3>1, <2>2, <1>5 DEF McpInv, LinesOwned
    <3>2. CASE d # c BY <3>2, <2>2, <1>5 DEF McpInv, LinesOwned
    <3> QED BY <3>1, <3>2
  <2>3. ASSUME NEW d \in McpCalls, NEW k \in 1..Len(output'[d])
        PROVE  Owner(d, output[d][k])'
    <3>1. PICK l : l = output'[d][k] OBVIOUS
    <3>2. Owner(d, l)' BY <3>1, <2>1, <2>2, <2>3
    <3> QED BY <3>1, <3>2 DEF Owner
  <2>4. \A d \in McpCalls : \A l \in owed[d] : Owner(d, l) BY DEF McpInv, LinesOwned
  <2> QED BY <2>1, <2>3, <2>4, <1>4 DEF LinesOwned
<1> QED BY <1>6, <1>7, <1>8, <1>9 DEF McpInv

LEMMA McpInvNext == McpInv /\ [McpNext]_mcpVars => McpInv'
<1> SUFFICES ASSUME McpInv, [McpNext]_mcpVars PROVE McpInv' OBVIOUS
<1>1. ASSUME UNCHANGED mcpVars PROVE McpInv'
  BY <1>1 DEF mcpVars, McpInv, McpTypeOK, ClientsGiven, GivenTo, FreshClients, NumbersDiffer,
     NumberedWell, LinesOwned, Owner, AnswersItsOwn
<1>2. ASSUME NEW t \in McpCalls, Invoke(t) PROVE McpInv'
  BY <1>2, GoesOn DEF Invoke, Places, Unserved
<1>3. ASSUME NEW t \in McpCalls, Acquire(t) PROVE McpInv'
  BY <1>3, GoesOn DEF Acquire, Places, Unserved
<1>4. ASSUME NEW t \in McpCalls, ConnectFailed(t) PROVE McpInv'
  BY <1>4, GoesOn DEF ConnectFailed, Places, Unserved
<1>5. ASSUME NEW t \in McpCalls, Number(t) PROVE McpInv'
  <2>1. CASE Alive(mcpCall[t].client) BY <1>5, <2>1, NumberKeeps
  <2>2. CASE ~Alive(mcpCall[t].client)
    BY <1>5, <2>2, GoesOn DEF Number, Places, Unserved
  <2> QED BY <2>1, <2>2
<1>6. ASSUME NEW t \in McpCalls, Send(t) PROVE McpInv'
  <2>1. CASE Alive(mcpCall[t].client) BY <1>6, <2>1, SendKeeps
  <2>2. CASE ~Alive(mcpCall[t].client) BY <1>6, <2>2, GoesOn DEF Send, Places, Unserved
  <2> QED BY <2>1, <2>2
<1>7. ASSUME NEW t \in McpCalls, TestDeadline(t) \/ Expire(t) \/ ReadEnd(t) PROVE McpInv'
  <2>1. /\ mcpCall[t].at \in {"test", "readline"} /\ mcpCall[t].id > 0
        /\ UNCHANGED <<pooled, process, msgId, owed, output>>
    BY <1>7 DEF TestDeadline, Expire, ReadEnd, McpInv, NumbersDiffer, NumberedWell
  <2>2. PICK to \in {"readline", "failed", "test"} : McpMove(t, to)
    BY <1>7 DEF TestDeadline, Expire, ReadEnd
  <2>3. to \in Places /\ to \notin Unserved /\ mcpCall[t].at \notin Unserved
    BY <2>1, <2>2 DEF Places, Unserved
  <2> QED BY <2>1, <2>2, <2>3, GoesOn
<1>8. ASSUME NEW t \in McpCalls, Release(t) PROVE McpInv'
  <2>1. PICK to \in {"returned", "error"} :
          McpMove(t, to) /\ (to = "returned" => mcpCall[t].at = "answered")
    BY <1>8 DEF Release
  <2>2. to \in Places /\ to \notin Unserved /\ mcpCall[t].at \notin Unserved
        /\ UNCHANGED <<pooled, process, msgId, owed, output>>
    BY <1>8, <2>1 DEF Release, Places, Unserved
  <2> QED BY <2>1, <2>2, GoesOn
<1>9. ASSUME NEW t \in McpCalls, AnswerError(t) PROVE McpInv'
  BY <1>9, GoesOn DEF AnswerError, Places, Unserved
<1>10. ASSUME NEW t \in McpCalls, McpStep(t) PROVE McpInv'
  BY <1>10, <1>3, <1>4, <1>5, <1>6, <1>7, <1>8, ReuseKeeps, ConnectKeeps, ConnectedKeeps,
     ReadLineKeeps DEF McpStep
<1> QED BY <1>1, <1>2, <1>7, <1>9, <1>10, ServerKeeps DEF McpNext

\* However calls overlap, give up, share a client or spawn a new one, and
\* whatever the server answers, says unasked or leaves unanswered when it dies: a
\* call of MCPTool.invoke that returns an answer returns the one to its own
\* request, for any number of threads.
THEOREM AnswersNotMixed == McpSpec => []AnswersItsOwn
<1>1. McpInv => AnswersItsOwn BY DEF McpInv
<1> QED BY <1>1, McpInvInit, McpInvNext, PTL DEF McpSpec

----------------------------------------------------------------------------
(* PluginPackages: a load that nothing disturbs loads what was signed.     *)

CallPlaces == {"new", "canonical", "fill", "message", "finish", "seal", "verify", "import", "over"}

LoadPlaces == {"verify", "canonical", "fill", "message", "import", "over"}

Files == Nat \cup {Nil}

Messages == [text : Nat, holds : BOOLEAN, entry : Files, bytecode : Files]

Signatures == [key : SigningKeys, over : Messages]

Manifests == [text : Nat, signature : Signatures \cup {Nil}]

Outcomes == {"none", "signed", "refused", "no entry point", "loaded", "raised", "died"}

PackageRecords ==
    [at : CallPlaces, op : {"none", "sign", "load"}, key : SigningKeys \cup {Nil},
     read : Manifests, signature : Signatures \cup {Nil}, alone : BOOLEAN,
     asSigned : BOOLEAN, outcome : Outcomes, module : Files]

PackageTypeOK ==
    /\ manifest \in Manifests
    /\ entry \in Files /\ bytecode \in Files /\ modules \in Files
    /\ packageCalls \in [PackageCalls -> PackageRecords]
    /\ revisions \in Nat
    /\ signed \subseteq Signatures

\* A signature is in the manifest, or in the hands of a call, because
\* somebody made it.
SignaturesMade ==
    /\ manifest.signature \in signed \cup {Nil}
    /\ \A c \in PackageCalls :
         /\ packageCalls[c].read.signature \in signed \cup {Nil}
         /\ packageCalls[c].signature \in signed \cup {Nil}

\* A call that is alone has the package to itself.
AloneIsAlone ==
    \A c, d \in PackageCalls : InProgress(c) /\ packageCalls[c].alone /\ InProgress(d) => c = d

\* What call c has read is what the named key has signed, but for the manifest,
\* which is about to be written.
HoldsWhatWasSigned(c) ==
    /\ packageCalls[c].signature # Nil
    /\ packageCalls[c].signature.key = NamedKey
    /\ packageCalls[c].signature.over =
         [text |-> packageCalls[c].read.text, holds |-> FALSE, entry |-> entry,
          bytecode |-> bytecode]
    /\ packageCalls[c].read.signature = Nil

\* How far an undisturbed load has come on its way to the import.
LoadOnItsWay(c) ==
    packageCalls[c].op = "load" =>
      /\ packageCalls[c].at \in LoadPlaces
      /\ packageCalls[c].at \in {"canonical", "fill", "message"} => packageCalls[c].signature # Nil
      /\ packageCalls[c].alone =>
           /\ packageCalls[c].at = "import" =>
                \E s \in signed : s.key = NamedKey /\ s.over.entry = entry
           /\ packageCalls[c].outcome = "loaded" =>
                \E s \in signed : s.key = NamedKey /\ s.over.entry = packageCalls[c].module
           /\ packageCalls[c].asSigned =>
                /\ packageCalls[c].outcome # "refused"
                /\ packageCalls[c].at = "verify" => AsSigned
                /\ packageCalls[c].at \in {"canonical", "fill", "message"} => HoldsWhatWasSigned(c)
                /\ packageCalls[c].at = "message" => manifest = packageCalls[c].read

\* What a call that has not begun, one that is not over and one that signs hold.
OutcomesTell ==
    \A c \in PackageCalls :
        /\ packageCalls[c].at = "new" => packageCalls[c].op = "none"
        /\ packageCalls[c].at # "over" => packageCalls[c].outcome = "none"
        /\ packageCalls[c].op = "sign" => packageCalls[c].key \in SigningKeys

PackageInv ==
    /\ PackageTypeOK /\ SignaturesMade /\ AloneIsAlone /\ OutcomesTell
    /\ \A c \in PackageCalls : LoadOnItsWay(c)

LEMMA IdleIs ==
  /\ Idle \in PackageRecords
  /\ Idle.at = "new" /\ Idle.op = "none" /\ Idle.outcome = "none"
  /\ Idle.read.signature = Nil /\ Idle.signature = Nil
<1>1. Idle \in PackageRecords
  BY DEF Idle, PackageRecords, CallPlaces, Outcomes, Files, Manifest, Manifests
<1> QED BY <1>1 DEF Idle, Manifest

LEMMA PackageInvInit == PackagesInit => PackageInv
<1> SUFFICES ASSUME PackagesInit PROVE PackageInv OBVIOUS
<1>1. manifest \in Manifests /\ manifest.signature = Nil
  BY DEF PackagesInit, Manifest, Manifests
<1> QED
  BY <1>1, IdleIs DEF PackagesInit, PackageInv, PackageTypeOK, SignaturesMade, AloneIsAlone,
     OutcomesTell, LoadOnItsWay, InProgress, Files

\* While a call is in progress, whatever it does leaves the other loads on
\* their way: those that are alone are over.
LEMMA OtherLoads ==
  ASSUME PackageInv, NEW c \in PackageCalls, NEW d \in PackageCalls, c # d, InProgress(c),
         packageCalls'[d] = packageCalls[d], signed \subseteq signed'
  PROVE  LoadOnItsWay(d)'
<1>1. LoadOnItsWay(d) BY DEF PackageInv
<1>2. packageCalls[d].alone => packageCalls[d].at \in {"new", "over"}
  BY DEF PackageInv, AloneIsAlone, InProgress
<1> QED BY <1>1, <1>2 DEF LoadOnItsWay, LoadPlaces

\* A call in progress that is disturbed is not alone any more, and else as it was.
Disturbed(d) ==
    /\ packageCalls'[d] \in PackageRecords
    /\ packageCalls'[d].at = packageCalls[d].at /\ packageCalls'[d].op = packageCalls[d].op
    /\ packageCalls'[d].read = packageCalls[d].read
    /\ packageCalls'[d].signature = packageCalls[d].signature
    /\ packageCalls'[d].outcome = packageCalls[d].outcome
    /\ packageCalls'[d].key = packageCalls[d].key
    /\ InProgress(d) => ~packageCalls'[d].alone

LEMMA Disturbing ==
  ASSUME PackageInv, NEW d \in PackageCalls,
         packageCalls'[d] = IF InProgress(d) THEN [packageCalls[d] EXCEPT !.alone = FALSE]
                            ELSE packageCalls[d]
  PROVE  Disturbed(d)
<1>1. packageCalls[d] \in PackageRecords BY DEF PackageInv, PackageTypeOK
<1>2. CASE InProgress(d) BY <1>1, <1>2 DEF PackageRecords, Disturbed
<1>3. CASE ~InProgress(d) BY <1>1, <1>3 DEF Disturbed
<1> QED BY <1>2, <1>3

\* A load that is disturbed, or over, or has not begun.
LEMMA DisturbedLoads ==
  ASSUME PackageInv, NEW d \in PackageCalls, signed \subseteq signed',
         packageCalls'[d] = IF InProgress(d) THEN [packageCalls[d] EXCEPT !.alone = FALSE]
                            ELSE packageCalls[d]
  PROVE  LoadOnItsWay(d)'
<1>1. LoadOnItsWay(d) /\ packageCalls[d] \in PackageRecords
  BY DEF PackageInv, PackageTypeOK
<1>2. CASE InProgress(d)
  <2>1. /\ ~packageCalls'[d].alone /\ packageCalls'[d].op = packageCalls[d].op
        /\ packageCalls'[d].at = packageCalls[d].at
        /\ packageCalls'[d].signature = packageCalls[d].signature
    BY <1>1, <1>2 DEF PackageRecords
  <2> QED BY <1>1, <2>1 DEF LoadOnItsWay
<1>3. CASE ~InProgress(d) BY <1>1, <1>3 DEF LoadOnItsWay, LoadPlaces, InProgress
<1> QED BY <1>2, <1>3

\* Call c, in progress, goes on as r.
LEMMA CallMoves ==
  ASSUME PackageInv, NEW c \in PackageCalls, InProgress(c), NEW r \in PackageRecords,
         packageCalls' = [packageCalls EXCEPT ![c] = r],
         r.alone = packageCalls[c].alone, r.at # "new", r.at # "over" => r.outcome = "none",
         r.read.signature \in signed' \cup {Nil}, r.signature \in signed' \cup {Nil},
         manifest' \in Manifests, manifest'.signature \in signed' \cup {Nil},
         entry' \in Files, bytecode' \in Files, modules' \in Files, revisions' = revisions,
         signed \subseteq signed', signed' \subseteq Signatures,
         r.op = "sign" => r.key \in SigningKeys, LoadOnItsWay(c)'
  PROVE  PackageInv'
<1>1. packageCalls'[c] = r /\ \A d \in PackageCalls \ {c} : packageCalls'[d] = packageCalls[d]
  BY DEF PackageInv, PackageTypeOK
<1>2. PackageTypeOK' BY DEF PackageInv, PackageTypeOK
<1>3. SignaturesMade' BY <1>1 DEF PackageInv, SignaturesMade
<1>4. AloneIsAlone' BY <1>1 DEF PackageInv, AloneIsAlone, InProgress
<1>5. OutcomesTell' BY <1>1 DEF PackageInv, OutcomesTell
<1>6. \A d \in PackageCalls : LoadOnItsWay(d)' BY <1>1, OtherLoads
<1> QED BY <1>2, <1>3, <1>4, <1>5, <1>6 DEF PackageInv

\* Call c begins as r; calls in progress are not alone any more.
LEMMA CallBegins ==
  ASSUME PackageInv, NEW c \in PackageCalls, AtPackage(c, "new"), NEW r \in PackageRecords,
         Begin(c, r), r.at # "new", r.at # "over" => r.outcome = "none",
         r.read.signature \in signed \cup {Nil}, r.signature \in signed \cup {Nil},
         UNCHANGED <<manifest, entry, bytecode, modules, revisions, signed>>,
         r.op = "sign" => r.key \in SigningKeys, LoadOnItsWay(c)'
  PROVE  PackageInv'
<1> DEFINE s == [r EXCEPT !.alone = {d \in PackageCalls : InProgress(d)} = {}]
<1>1. /\ s \in PackageRecords /\ s.at = r.at /\ s.outcome = r.outcome /\ s.op = r.op
      /\ s.read = r.read /\ s.signature = r.signature /\ s.key = r.key
      /\ s.alone <=> \A d \in PackageCalls : ~InProgress(d)
  BY DEF PackageRecords
<1>2. /\ packageCalls'[c] = s
      /\ \A d \in PackageCalls \ {c} :
           packageCalls'[d] = IF InProgress(d) THEN [packageCalls[d] EXCEPT !.alone = FALSE]
                              ELSE packageCalls[d]
  BY DEF Begin
<1> HIDE DEF s
<1>3. \A d \in PackageCalls \ {c} : Disturbed(d) BY <1>2, Disturbing
<1>4. PackageTypeOK'
  <2>1. packageCalls' \in [PackageCalls -> PackageRecords]
    <3>1. \A d \in PackageCalls : packageCalls'[d] \in PackageRecords
      BY <1>1, <1>2, <1>3 DEF Disturbed
    <3> QED BY <3>1 DEF Begin
  <2> QED BY <2>1 DEF PackageInv, PackageTypeOK
<1>5. SignaturesMade' BY <1>1, <1>2, <1>3 DEF Disturbed, PackageInv, SignaturesMade
<1>6. AloneIsAlone' BY <1>1, <1>2, <1>3 DEF Disturbed, AloneIsAlone, InProgress
<1>7. OutcomesTell' BY <1>1, <1>2, <1>3 DEF Disturbed, PackageInv, OutcomesTell
<1>8. \A d \in PackageCalls : LoadOnItsWay(d)' BY <1>2, DisturbedLoads
<1> QED BY <1>4, <1>5, <1>6, <1>7, <1>8 DEF PackageInv

LEMMA MessageIs == PackageInv => PackageMessage \in Messages
  BY DEF PackageInv, PackageTypeOK, PackageMessage, Messages, Manifests

\* The steps of sign_package.
LEMMA BeginSigningKeeps ==
  ASSUME PackageInv, NEW c \in PackageCalls, NEW key \in SigningKeys, BeginSigning(c, key)
  PROVE  PackageInv'
<1>1. PICK to \in {"over", "canonical"}, what \in {"refused", "none"} :
        /\ to = IF manifest.text = 0 THEN "over" ELSE "canonical"
        /\ what = IF manifest.text = 0 THEN "refused" ELSE "none"
  OBVIOUS
<1> DEFINE r == [Idle EXCEPT !.op = "sign", !.key = key, !.read = manifest, !.at = to,
                             !.outcome = what]
<1>2. /\ r \in PackageRecords /\ r.at # "new"
      /\ r.at # "over" => r.outcome = "none"
      /\ r.read = manifest /\ r.signature = Nil /\ r.op = "sign" /\ r.key = key
  <2> DEFINE one == [Idle EXCEPT !.op = "sign", !.key = key]
             two == [one EXCEPT !.read = manifest]
             three == [two EXCEPT !.at = to]
  <2>1. one \in PackageRecords /\ one.op = "sign" /\ one.key = key /\ one.signature = Nil
    BY IdleIs DEF PackageRecords
  <2>2. r = [three EXCEPT !.outcome = what] OBVIOUS
  <2> HIDE DEF one, r
  <2>3. /\ two \in PackageRecords /\ two.op = "sign" /\ two.key = key
        /\ two.signature = Nil /\ two.read = manifest
    BY <2>1 DEF PackageRecords, PackageInv, PackageTypeOK
  <2> HIDE DEF two
  <2>4. /\ three \in PackageRecords /\ three.op = "sign" /\ three.key = key /\ three.signature = Nil
        /\ three.read = manifest /\ three.at = to
    BY <2>3 DEF PackageRecords, CallPlaces
  <2> HIDE DEF three
  <2> QED BY <1>1, <2>2, <2>4 DEF PackageRecords, Outcomes
<1>3. Begin(c, r) /\ UNCHANGED <<manifest, entry, bytecode, modules, revisions, signed>>
  BY <1>1 DEF BeginSigning, FilesStay
<1> HIDE DEF r
<1>4. packageCalls'[c].op = "sign" BY <1>2, <1>3 DEF Begin, PackageRecords
<1>5. LoadOnItsWay(c)' BY <1>4 DEF LoadOnItsWay
<1>6. r.read.signature \in signed \cup {Nil} /\ r.signature \in signed \cup {Nil}
  BY <1>2 DEF PackageInv, SignaturesMade
<1> QED BY <1>2, <1>3, <1>5, <1>6, CallBegins DEF BeginSigning

\* Step of call c to a place or its end, with what it holds.
LEMMA MoveOnIs ==
  ASSUME PackageInv, NEW c \in PackageCalls, NEW place \in CallPlaces
  PROVE  /\ MoveOn(c, place) \in PackageRecords
         /\ MoveOn(c, place).at = place
         /\ MoveOn(c, place).op = packageCalls[c].op
         /\ MoveOn(c, place).key = packageCalls[c].key
         /\ MoveOn(c, place).read = packageCalls[c].read
         /\ MoveOn(c, place).signature = packageCalls[c].signature
         /\ MoveOn(c, place).alone = packageCalls[c].alone
         /\ MoveOn(c, place).asSigned = packageCalls[c].asSigned
         /\ MoveOn(c, place).outcome = packageCalls[c].outcome
         /\ MoveOn(c, place).module = packageCalls[c].module
<1>1. packageCalls[c] \in PackageRecords BY DEF PackageInv, PackageTypeOK
<1> QED BY <1>1 DEF MoveOn, PackageRecords

LEMMA PackageOverIs ==
  ASSUME PackageInv, NEW c \in PackageCalls, NEW outcome \in Outcomes
  PROVE  /\ PackageOver(c, outcome) \in PackageRecords
         /\ PackageOver(c, outcome).at = "over"
         /\ PackageOver(c, outcome).op = packageCalls[c].op
         /\ PackageOver(c, outcome).key = packageCalls[c].key
         /\ PackageOver(c, outcome).read = packageCalls[c].read
         /\ PackageOver(c, outcome).signature = packageCalls[c].signature
         /\ PackageOver(c, outcome).alone = packageCalls[c].alone
         /\ PackageOver(c, outcome).asSigned = packageCalls[c].asSigned
         /\ PackageOver(c, outcome).outcome = outcome
         /\ PackageOver(c, outcome).module = packageCalls[c].module
<1>1. packageCalls[c] \in PackageRecords BY DEF PackageInv, PackageTypeOK
<1> DEFINE r == [packageCalls[c] EXCEPT !.at = "over"]
<1>2. /\ r \in PackageRecords /\ r.at = "over" /\ r.op = packageCalls[c].op
      /\ r.key = packageCalls[c].key /\ r.read = packageCalls[c].read /\ r.signature = packageCalls[c].signature
      /\ r.alone = packageCalls[c].alone /\ r.asSigned = packageCalls[c].asSigned
      /\ r.module = packageCalls[c].module
  BY <1>1 DEF PackageRecords, CallPlaces
<1>3. PackageOver(c, outcome) = [r EXCEPT !.outcome = outcome]
  BY <1>1 DEF PackageOver, PackageRecords
<1> HIDE DEF r
<1> QED BY <1>2, <1>3 DEF PackageRecords

\* A call that is over ends well for the property unless it says it loaded or
\* refused something.
LEMMA CallEnds ==
  ASSUME PackageInv, NEW c \in PackageCalls, InProgress(c),
         NEW outcome \in Outcomes \ {"none", "refused", "loaded"},
         Now(c, PackageOver(c, outcome)),
         manifest' \in Manifests, manifest'.signature \in signed \cup {Nil},
         bytecode' \in Files, modules' \in Files, UNCHANGED <<entry, revisions, signed>>
  PROVE  PackageInv'
<1> DEFINE r == PackageOver(c, outcome)
<1>1. /\ r \in PackageRecords /\ r.at = "over" /\ r.alone = packageCalls[c].alone
      /\ r.outcome = outcome /\ r.read = packageCalls[c].read
      /\ r.signature = packageCalls[c].signature
      /\ r.op = "sign" => r.key \in SigningKeys
  BY PackageOverIs DEF PackageInv, OutcomesTell
<1>2. packageCalls' = [packageCalls EXCEPT ![c] = r] BY DEF Now
<1> HIDE DEF r
<1>3. packageCalls'[c] = r BY <1>2 DEF PackageInv, PackageTypeOK
<1>4. LoadOnItsWay(c)' BY <1>1, <1>3 DEF LoadOnItsWay, LoadPlaces
<1>5. r.read.signature \in signed \cup {Nil} /\ r.signature \in signed \cup {Nil}
  BY <1>1 DEF PackageInv, SignaturesMade
<1> QED BY <1>1, <1>2, <1>4, <1>5, CallMoves DEF PackageInv, PackageTypeOK

LEMMA EmptyManifestKeeps ==
  ASSUME PackageInv, NEW c \in PackageCalls, EmptyManifest(c)
  PROVE  PackageInv'
<1>1. PICK place \in {"canonical", "finish"} :
        /\ packageCalls[c].at = place /\ manifest' = Manifest(0, Nil)
        /\ Now(c, MoveOn(c, IF place = "canonical" THEN "fill" ELSE "seal"))
        /\ UNCHANGED <<entry, bytecode, modules, revisions, signed>>
  BY DEF EmptyManifest, AtPackage, FilesStay
<1>2. PICK to \in {"fill", "seal"} : to = IF place = "canonical" THEN "fill" ELSE "seal"
  OBVIOUS
<1> DEFINE r == MoveOn(c, to)
<1>3. /\ r \in PackageRecords /\ r.at = to /\ r.op = packageCalls[c].op
      /\ r.read = packageCalls[c].read /\ r.signature = packageCalls[c].signature
      /\ r.alone = packageCalls[c].alone /\ r.asSigned = packageCalls[c].asSigned
      /\ r.outcome = packageCalls[c].outcome /\ r.module = packageCalls[c].module
      /\ r.op = "sign" => r.key \in SigningKeys
  BY MoveOnIs DEF CallPlaces, PackageInv, OutcomesTell
<1>4. packageCalls' = [packageCalls EXCEPT ![c] = r] BY <1>1, <1>2 DEF Now
<1> HIDE DEF r
<1>5. packageCalls'[c] = r BY <1>4 DEF PackageInv, PackageTypeOK
<1>6. InProgress(c) /\ packageCalls[c].outcome = "none"
  BY <1>1 DEF InProgress, PackageInv, OutcomesTell
<1>7. LoadOnItsWay(c)'
  <2>1. LoadOnItsWay(c) BY DEF PackageInv
  <2> QED
    BY <2>1, <1>1, <1>2, <1>3, <1>5, <1>6 DEF LoadOnItsWay, LoadPlaces, HoldsWhatWasSigned
<1>8. /\ r.read.signature \in signed \cup {Nil} /\ r.signature \in signed \cup {Nil}
      /\ manifest' \in Manifests /\ manifest'.signature \in signed \cup {Nil}
  BY <1>1, <1>3 DEF PackageInv, SignaturesMade, Manifest, Manifests
<1> QED
  BY <1>1, <1>2, <1>3, <1>4, <1>6, <1>7, <1>8, CallMoves DEF PackageInv, PackageTypeOK

LEMMA WriteCanonicalKeeps ==
  ASSUME PackageInv, NEW c \in PackageCalls, WriteCanonical(c)
  PROVE  PackageInv'
<1>1. /\ packageCalls[c].at = "fill" /\ manifest' = packageCalls[c].read
      /\ Now(c, MoveOn(c, "message"))
      /\ UNCHANGED <<entry, bytecode, modules, revisions, signed>>
  BY DEF WriteCanonical, AtPackage, FilesStay
<1> DEFINE r == MoveOn(c, "message")
<1>2. /\ r \in PackageRecords /\ r.at = "message" /\ r.op = packageCalls[c].op
      /\ r.read = packageCalls[c].read /\ r.signature = packageCalls[c].signature
      /\ r.alone = packageCalls[c].alone /\ r.asSigned = packageCalls[c].asSigned
      /\ r.outcome = packageCalls[c].outcome /\ r.module = packageCalls[c].module
      /\ r.op = "sign" => r.key \in SigningKeys
  BY MoveOnIs DEF CallPlaces, PackageInv, OutcomesTell
<1>3. packageCalls' = [packageCalls EXCEPT ![c] = r] BY <1>1 DEF Now
<1> HIDE DEF r
<1>4. packageCalls'[c] = r BY <1>3 DEF PackageInv, PackageTypeOK
<1>5. InProgress(c) /\ packageCalls[c].outcome = "none"
  BY <1>1 DEF InProgress, PackageInv, OutcomesTell
<1>6. LoadOnItsWay(c)'
  <2>1. LoadOnItsWay(c) BY DEF PackageInv
  <2> QED
    BY <2>1, <1>1, <1>2, <1>4, <1>5 DEF LoadOnItsWay, LoadPlaces, HoldsWhatWasSigned
<1>7. /\ r.read.signature \in signed \cup {Nil} /\ r.signature \in signed \cup {Nil}
      /\ manifest' \in Manifests /\ manifest'.signature \in signed \cup {Nil}
  BY <1>1, <1>2 DEF PackageInv, SignaturesMade, PackageTypeOK, PackageRecords
<1> QED BY <1>1, <1>2, <1>3, <1>5, <1>6, <1>7, CallMoves DEF PackageInv, PackageTypeOK

LEMMA SignMessageKeeps ==
  ASSUME PackageInv, NEW c \in PackageCalls, SignMessage(c)
  PROVE  PackageInv'
<1>1. PICK s : s = [key |-> packageCalls[c].key, over |-> PackageMessage] OBVIOUS
<1>2. /\ packageCalls[c].at = "message" /\ packageCalls[c].op = "sign"
      /\ Now(c, [MoveOn(c, "finish") EXCEPT !.signature = s]) /\ signed' = signed \cup {s}
      /\ UNCHANGED <<manifest, entry, bytecode, modules, revisions>>
  BY <1>1 DEF SignMessage, AtPackage, FilesStay
<1>3. s \in Signatures
  <2>1. packageCalls[c].key \in SigningKeys BY <1>2 DEF PackageInv, OutcomesTell
  <2> QED BY <1>1, <2>1, MessageIs DEF Signatures
<1> DEFINE m == MoveOn(c, "finish")
           r == [m EXCEPT !.signature = s]
<1>4. /\ m \in PackageRecords /\ m.at = "finish" /\ m.op = "sign"
      /\ m.read = packageCalls[c].read /\ m.alone = packageCalls[c].alone
      /\ m.outcome = packageCalls[c].outcome /\ m.key \in SigningKeys
  BY <1>2, MoveOnIs DEF CallPlaces, PackageInv, OutcomesTell
<1> HIDE DEF m
<1>5. /\ r \in PackageRecords /\ r.at = "finish" /\ r.op = "sign"
      /\ r.read = packageCalls[c].read /\ r.alone = packageCalls[c].alone
      /\ r.outcome = packageCalls[c].outcome /\ r.signature = s
      /\ r.key \in SigningKeys
  BY <1>3, <1>4 DEF PackageRecords
<1>6. packageCalls' = [packageCalls EXCEPT ![c] = r] BY <1>2 DEF Now, m
<1> HIDE DEF r
<1>7. packageCalls'[c] = r BY <1>6 DEF PackageInv, PackageTypeOK
<1>8. InProgress(c) /\ packageCalls[c].outcome = "none"
  BY <1>2 DEF InProgress, PackageInv, OutcomesTell
<1>9. LoadOnItsWay(c)' BY <1>5, <1>7 DEF LoadOnItsWay
<1>10. /\ r.read.signature \in signed' \cup {Nil} /\ r.signature \in signed' \cup {Nil}
       /\ manifest'.signature \in signed' \cup {Nil} /\ signed' \subseteq Signatures
  BY <1>2, <1>3, <1>5 DEF PackageInv, SignaturesMade, PackageTypeOK
<1> QED BY <1>2, <1>5, <1>6, <1>8, <1>9, <1>10, CallMoves DEF PackageInv, PackageTypeOK

LEMMA WriteSignatureKeeps ==
  ASSUME PackageInv, NEW c \in PackageCalls, WriteSignature(c)
  PROVE  PackageInv'
<1>1. /\ packageCalls[c].at = "seal" /\ Now(c, PackageOver(c, "signed"))
      /\ manifest' = Manifest(packageCalls[c].read.text, packageCalls[c].signature)
      /\ UNCHANGED <<entry, bytecode, modules, revisions, signed>>
  BY DEF WriteSignature, AtPackage, FilesStay
<1>2. /\ packageCalls[c] \in PackageRecords
      /\ packageCalls[c].signature \in signed \cup {Nil}
  BY DEF PackageInv, PackageTypeOK, SignaturesMade
<1>3. packageCalls[c].read.text \in Nat /\ packageCalls[c].signature \in Signatures \cup {Nil}
  BY <1>2 DEF PackageRecords, Manifests
<1>4. manifest' \in Manifests /\ manifest'.signature \in signed \cup {Nil}
  BY <1>1, <1>2, <1>3 DEF Manifest, Manifests
<1>5. InProgress(c) /\ "signed" \in Outcomes \ {"none", "refused", "loaded"}
  BY <1>1 DEF InProgress, Outcomes
<1> QED BY <1>1, <1>4, <1>5, CallEnds DEF PackageInv, PackageTypeOK

\* The message of the package when its manifest holds no signature.
LEMMA UnsignedMessageIs ==
  ASSUME PackageInv
  PROVE  [PackageMessage EXCEPT !.holds = FALSE] =
           [text |-> manifest.text, holds |-> FALSE, entry |-> entry, bytecode |-> bytecode]
<1> DEFINE m == PackageMessage
           r == [m EXCEPT !.holds = FALSE]
<1>1. m \in Messages /\ m.text = manifest.text /\ m.entry = entry /\ m.bytecode = bytecode
  BY MessageIs DEF PackageMessage
<1> HIDE DEF m
<1>2. /\ r \in Messages /\ r.text = m.text /\ r.entry = m.entry /\ r.bytecode = m.bytecode
      /\ r.holds = FALSE
  BY <1>1 DEF Messages
<1> HIDE DEF r
<1>3. r = [text |-> m.text, holds |-> FALSE, entry |-> m.entry, bytecode |-> m.bytecode]
  BY <1>2 DEF Messages
<1> QED BY <1>1, <1>3 DEF r, m

\* The steps of load.
LEMMA BeginLoadKeeps ==
  ASSUME PackageInv, NEW c \in PackageCalls, BeginLoad(c)
  PROVE  PackageInv'
<1>1. PICK refused \in BOOLEAN, as \in BOOLEAN :
        /\ refused <=> manifest.signature = Nil \/ NamedKey \notin TrustedKeys
        /\ as = AsSigned
  <2>1. AsSigned \in BOOLEAN BY DEF AsSigned
  <2> QED BY <2>1
<1>2. PICK to \in {"over", "verify"}, what \in {"refused", "none"} :
        /\ to = IF refused THEN "over" ELSE "verify"
        /\ what = IF refused THEN "refused" ELSE "none"
  OBVIOUS
<1> DEFINE r == [Idle EXCEPT !.op = "load", !.asSigned = as, !.at = to, !.outcome = what]
<1>3. /\ r \in PackageRecords /\ r.at = to /\ r.outcome = what /\ r.op = "load"
      /\ r.asSigned = as /\ r.read.signature = Nil /\ r.signature = Nil
  <2> DEFINE one == [Idle EXCEPT !.op = "load"]
             two == [one EXCEPT !.asSigned = as]
             three == [two EXCEPT !.at = to]
  <2>1. /\ one \in PackageRecords /\ one.op = "load" /\ one.signature = Nil
        /\ one.read.signature = Nil
    BY IdleIs DEF PackageRecords
  <2>2. r = [three EXCEPT !.outcome = what] OBVIOUS
  <2> HIDE DEF one, r
  <2>3. /\ two \in PackageRecords /\ two.op = "load" /\ two.signature = Nil
        /\ two.read.signature = Nil /\ two.asSigned = as
    BY <2>1 DEF PackageRecords
  <2> HIDE DEF two
  <2>4. /\ three \in PackageRecords /\ three.op = "load" /\ three.signature = Nil
        /\ three.read.signature = Nil /\ three.asSigned = as /\ three.at = to
    BY <2>3, <1>2 DEF PackageRecords, CallPlaces
  <2> HIDE DEF three
  <2> QED BY <1>2, <2>2, <2>4 DEF PackageRecords, Outcomes
<1>4. /\ AtPackage(c, "new") /\ Begin(c, r)
      /\ UNCHANGED <<manifest, entry, bytecode, modules, revisions, signed>>
  BY <1>1, <1>2 DEF BeginLoad, FilesStay
<1> HIDE DEF r
<1>5. /\ packageCalls'[c].op = "load" /\ packageCalls'[c].at = to
      /\ packageCalls'[c].outcome = what /\ packageCalls'[c].asSigned = as
  BY <1>3, <1>4 DEF Begin, PackageRecords
<1>6. AsSigned' <=> AsSigned BY <1>4 DEF AsSigned, PackageMessage
<1>7. AsSigned => ~refused BY <1>1 DEF AsSigned
<1>8. LoadOnItsWay(c)' BY <1>1, <1>2, <1>5, <1>6, <1>7 DEF LoadOnItsWay, LoadPlaces
<1> QED BY <1>2, <1>3, <1>4, <1>8, CallBegins

LEMMA ReadSignatureKeeps ==
  ASSUME PackageInv, NEW c \in PackageCalls, ReadSignature(c)
  PROVE  PackageInv'
<1>1. /\ packageCalls[c].at = "verify" /\ packageCalls[c].outcome = "none" /\ InProgress(c)
      /\ UNCHANGED <<entry, bytecode, modules, revisions, manifest, signed>>
  BY DEF ReadSignature, AtPackage, FilesStay, PackageInv, OutcomesTell, InProgress
<1>2. LoadOnItsWay(c) /\ manifest \in Manifests /\ manifest.signature \in signed \cup {Nil}
  BY DEF PackageInv, PackageTypeOK, SignaturesMade
<1>3. CASE manifest.signature = Nil
  <2> DEFINE r == PackageOver(c, "refused")
  <2>1. /\ r \in PackageRecords /\ r.at = "over" /\ r.op = packageCalls[c].op
        /\ r.outcome = "refused" /\ r.read = packageCalls[c].read
        /\ r.signature = packageCalls[c].signature /\ r.alone = packageCalls[c].alone
        /\ r.asSigned = packageCalls[c].asSigned
        /\ r.op = "sign" => r.key \in SigningKeys
    <3>1. "refused" \in Outcomes BY DEF Outcomes
    <3> QED BY <3>1, PackageOverIs DEF PackageInv, OutcomesTell
  <2>2. packageCalls' = [packageCalls EXCEPT ![c] = r] BY <1>3 DEF ReadSignature, Now
  <2> HIDE DEF r
  <2>3. packageCalls'[c] = r BY <2>2 DEF PackageInv, PackageTypeOK
  <2>4. ~AsSigned BY <1>3 DEF AsSigned
  <2>5. LoadOnItsWay(c)' BY <1>1, <1>2, <2>1, <2>3, <2>4 DEF LoadOnItsWay, LoadPlaces
  <2>6. r.read.signature \in signed \cup {Nil} /\ r.signature \in signed \cup {Nil}
    BY <2>1 DEF PackageInv, SignaturesMade
  <2> QED
    BY <1>1, <2>1, <2>2, <2>5, <2>6, CallMoves DEF PackageInv, PackageTypeOK, SignaturesMade
<1>4. CASE manifest.signature # Nil
  <2>1. PICK m \in Manifests : /\ m = Stripped(manifest) /\ m.text = manifest.text
                               /\ m.signature = Nil
    <3>1. /\ Stripped(manifest) \in Manifests /\ Stripped(manifest).text = manifest.text
          /\ Stripped(manifest).signature = Nil
      BY <1>2 DEF Stripped, Manifests
    <3> QED BY <3>1
  <2>2. PICK s \in Signatures : s = manifest.signature /\ s \in signed /\ s # Nil
    BY <1>2, <1>4 DEF Manifests
  <2> DEFINE one == MoveOn(c, "canonical")
             two == [one EXCEPT !.read = m]
             r == [two EXCEPT !.signature = s]
  <2>3. /\ one \in PackageRecords /\ one.at = "canonical" /\ one.op = packageCalls[c].op
        /\ one.alone = packageCalls[c].alone /\ one.asSigned = packageCalls[c].asSigned
        /\ one.outcome = "none"
        /\ one.op = "sign" => one.key \in SigningKeys
    BY <1>1, MoveOnIs DEF CallPlaces, PackageInv, OutcomesTell
  <2>4. packageCalls' = [packageCalls EXCEPT ![c] = r]
    BY <1>4, <2>1, <2>2 DEF ReadSignature, Now, WithoutSignature
  <2> HIDE DEF one, r
  <2>5. /\ two \in PackageRecords /\ two.at = "canonical" /\ two.op = packageCalls[c].op
        /\ two.alone = packageCalls[c].alone /\ two.asSigned = packageCalls[c].asSigned
        /\ two.outcome = "none" /\ two.read = m
        /\ two.op = "sign" => two.key \in SigningKeys
    BY <2>3 DEF PackageRecords
  <2> HIDE DEF two
  <2>6. /\ r \in PackageRecords /\ r.at = "canonical" /\ r.op = packageCalls[c].op
        /\ r.alone = packageCalls[c].alone /\ r.asSigned = packageCalls[c].asSigned
        /\ r.outcome = "none" /\ r.read = m /\ r.signature = s
        /\ r.op = "sign" => r.key \in SigningKeys
    BY <2>5 DEF PackageRecords, r
  <2>7. packageCalls'[c] = r BY <2>4 DEF PackageInv, PackageTypeOK
  <2>8. ASSUME AsSigned PROVE HoldsWhatWasSigned(c)'
    <3>1. s.key = NamedKey /\ s.over = [PackageMessage EXCEPT !.holds = FALSE]
      BY <2>2, <2>8 DEF AsSigned
    <3>2. s.over = [text |-> m.text, holds |-> FALSE, entry |-> entry, bytecode |-> bytecode]
      BY <3>1, <2>1, UnsignedMessageIs
    <3>3. /\ packageCalls'[c].signature = s /\ packageCalls'[c].read = m
          /\ UNCHANGED <<entry, bytecode>>
      BY <1>1, <2>6, <2>7
    <3> QED BY <3>1, <3>2, <3>3, <2>1, <2>2 DEF HoldsWhatWasSigned
  <2>9. LoadOnItsWay(c)'
    BY <1>1, <1>2, <2>2, <2>6, <2>7, <2>8 DEF LoadOnItsWay, LoadPlaces
  <2> QED
    BY <1>1, <1>2, <2>1, <2>2, <2>4, <2>6, <2>9, CallMoves DEF PackageInv, PackageTypeOK
<1> QED BY <1>3, <1>4

LEMMA CheckMessageKeeps ==
  ASSUME PackageInv, NEW c \in PackageCalls, CheckMessage(c)
  PROVE  PackageInv'
<1>1. /\ packageCalls[c].at = "message" /\ packageCalls[c].op = "load"
      /\ packageCalls[c].outcome = "none" /\ InProgress(c)
      /\ UNCHANGED <<entry, bytecode, modules, revisions, manifest, signed>>
  BY DEF CheckMessage, AtPackage, FilesStay, PackageInv, OutcomesTell, InProgress
<1>2. /\ LoadOnItsWay(c) /\ manifest.signature \in signed \cup {Nil}
      /\ packageCalls[c].read.signature \in signed \cup {Nil}
      /\ packageCalls[c].signature \in signed \cup {Nil}
  BY DEF PackageInv, SignaturesMade
<1>3. CASE Matches(packageCalls[c].signature, NamedKey, PackageMessage)
  <2> DEFINE r == MoveOn(c, "import")
  <2>1. /\ r \in PackageRecords /\ r.at = "import" /\ r.op = "load" /\ r.outcome = "none"
        /\ r.read = packageCalls[c].read /\ r.signature = packageCalls[c].signature
        /\ r.alone = packageCalls[c].alone /\ r.asSigned = packageCalls[c].asSigned
    BY <1>1, MoveOnIs DEF CallPlaces
  <2>2. packageCalls' = [packageCalls EXCEPT ![c] = r] BY <1>3 DEF CheckMessage, Now
  <2> HIDE DEF r
  <2>3. packageCalls'[c] = r BY <2>2 DEF PackageInv, PackageTypeOK
  <2>4. \E s \in signed : s.key = NamedKey /\ s.over.entry = entry
    <3>1. packageCalls[c].signature \in signed BY <1>1, <1>2 DEF LoadOnItsWay
    <3>2. PackageMessage.entry = entry BY DEF PackageMessage
    <3> QED BY <3>1, <3>2, <1>3 DEF Matches
  <2>5. LoadOnItsWay(c)' BY <1>1, <1>2, <2>1, <2>3, <2>4 DEF LoadOnItsWay, LoadPlaces
  <2> QED BY <1>1, <1>2, <2>1, <2>2, <2>5, CallMoves DEF PackageInv, PackageTypeOK
<1>4. CASE ~Matches(packageCalls[c].signature, NamedKey, PackageMessage)
  <2> DEFINE r == PackageOver(c, "refused")
  <2>1. /\ r \in PackageRecords /\ r.at = "over" /\ r.op = "load" /\ r.outcome = "refused"
        /\ r.read = packageCalls[c].read /\ r.signature = packageCalls[c].signature
        /\ r.alone = packageCalls[c].alone /\ r.asSigned = packageCalls[c].asSigned
    BY <1>1, PackageOverIs DEF Outcomes
  <2>2. packageCalls' = [packageCalls EXCEPT ![c] = r] BY <1>4 DEF CheckMessage, Now
  <2> HIDE DEF r
  <2>3. packageCalls'[c] = r BY <2>2 DEF PackageInv, PackageTypeOK
  <2>4. ASSUME packageCalls[c].alone, packageCalls[c].asSigned PROVE FALSE
    <3>1. HoldsWhatWasSigned(c) /\ manifest = packageCalls[c].read
      BY <1>1, <1>2, <2>4 DEF LoadOnItsWay
    <3>2. PackageMessage = [text |-> packageCalls[c].read.text, holds |-> FALSE,
                            entry |-> entry, bytecode |-> bytecode]
      BY <3>1 DEF HoldsWhatWasSigned, PackageMessage
    <3> QED BY <3>1, <3>2, <1>4 DEF HoldsWhatWasSigned, Matches
  <2>5. LoadOnItsWay(c)' BY <1>1, <1>2, <2>1, <2>3, <2>4 DEF LoadOnItsWay, LoadPlaces
  <2> QED BY <1>1, <1>2, <2>1, <2>2, <2>5, CallMoves DEF PackageInv, PackageTypeOK
<1> QED BY <1>3, <1>4

LEMMA ImportEntryKeeps ==
  ASSUME PackageInv, NEW c \in PackageCalls, ImportEntry(c)
  PROVE  PackageInv'
<1>1. /\ packageCalls[c].at = "import" /\ packageCalls[c].outcome = "none" /\ InProgress(c)
      /\ UNCHANGED <<manifest, entry, revisions, signed>>
      /\ bytecode' \in Files /\ modules' \in Files
      /\ manifest \in Manifests /\ manifest.signature \in signed \cup {Nil}
  BY DEF ImportEntry, AtPackage, PackageInv, PackageTypeOK, SignaturesMade, OutcomesTell, InProgress
<1>2. CASE Now(c, PackageOver(c, "no entry point")) \/ Now(c, PackageOver(c, "raised"))
  <2>1. {"no entry point", "raised"} \subseteq Outcomes \ {"none", "refused", "loaded"}
    BY DEF Outcomes
  <2> QED BY <1>1, <1>2, <2>1, CallEnds
<1>3. CASE Now(c, [PackageOver(c, "loaded") EXCEPT !.module = entry])
  <2> DEFINE one == PackageOver(c, "loaded")
             r == [one EXCEPT !.module = entry]
  <2>1. /\ one \in PackageRecords /\ one.at = "over" /\ one.op = packageCalls[c].op
        /\ one.outcome = "loaded" /\ one.read = packageCalls[c].read
        /\ one.signature = packageCalls[c].signature /\ one.alone = packageCalls[c].alone
        /\ one.asSigned = packageCalls[c].asSigned
        /\ one.op = "sign" => one.key \in SigningKeys
    <3>1. "loaded" \in Outcomes BY DEF Outcomes
    <3> QED BY <3>1, PackageOverIs DEF PackageInv, OutcomesTell
  <2> HIDE DEF one
  <2>2. /\ r \in PackageRecords /\ r.at = "over" /\ r.op = packageCalls[c].op
        /\ r.outcome = "loaded" /\ r.read = packageCalls[c].read
        /\ r.signature = packageCalls[c].signature /\ r.alone = packageCalls[c].alone
        /\ r.asSigned = packageCalls[c].asSigned /\ r.module = entry
        /\ r.op = "sign" => r.key \in SigningKeys
    BY <2>1 DEF PackageRecords, PackageInv, PackageTypeOK
  <2>3. packageCalls' = [packageCalls EXCEPT ![c] = r] BY <1>3 DEF Now, one
  <2> HIDE DEF r
  <2>4. packageCalls'[c] = r BY <2>3 DEF PackageInv, PackageTypeOK
  <2>5. LoadOnItsWay(c)'
    <3>1. LoadOnItsWay(c) BY DEF PackageInv
    <3> QED BY <3>1, <1>1, <2>2, <2>4 DEF LoadOnItsWay, LoadPlaces
  <2>6. r.read.signature \in signed \cup {Nil} /\ r.signature \in signed \cup {Nil}
    BY <2>2 DEF PackageInv, SignaturesMade
  <2> QED BY <1>1, <2>2, <2>3, <2>5, <2>6, CallMoves DEF PackageInv, PackageTypeOK
<1> QED BY <1>2, <1>3 DEF ImportEntry

----------------------------------------------------------------------------
LEMMA CallDiesKeeps ==
  ASSUME PackageInv, NEW c \in PackageCalls, CallDies(c)
  PROVE  PackageInv'
<1>1. /\ InProgress(c) /\ Now(c, PackageOver(c, "died"))
      /\ UNCHANGED <<manifest, entry, bytecode, modules, revisions, signed>>
  BY DEF CallDies, FilesStay
<1>2. "died" \in Outcomes \ {"none", "refused", "loaded"} BY DEF Outcomes
<1> QED BY <1>1, <1>2, CallEnds DEF PackageInv, PackageTypeOK, SignaturesMade

LEMMA UnloadKeeps ==
  ASSUME PackageInv, Unload
  PROVE  PackageInv'
<1>1. /\ modules' = Nil
      /\ UNCHANGED <<manifest, entry, bytecode, packageCalls, revisions, signed>>
  BY DEF Unload
<1>2. PackageTypeOK' /\ SignaturesMade' /\ OutcomesTell'
  BY <1>1 DEF PackageInv, PackageTypeOK, SignaturesMade, OutcomesTell, Files
<1>3. AloneIsAlone' BY <1>1 DEF PackageInv, AloneIsAlone, InProgress
<1>4. ASSUME NEW c \in PackageCalls PROVE LoadOnItsWay(c)'
  <2>1. LoadOnItsWay(c) BY DEF PackageInv
  <2>2. AsSigned' <=> AsSigned BY <1>1 DEF AsSigned, PackageMessage
  <2>3. HoldsWhatWasSigned(c)' <=> HoldsWhatWasSigned(c) BY <1>1 DEF HoldsWhatWasSigned
  <2> QED BY <1>1, <2>1, <2>2, <2>3 DEF LoadOnItsWay
<1> QED BY <1>2, <1>3, <1>4 DEF PackageInv

\* An edit disturbs every call in progress.
LEMMA EditPackageKeeps ==
  ASSUME PackageInv, EditPackage
  PROVE  PackageInv'
<1>1. /\ manifest' \in Manifests /\ manifest'.signature \in signed \cup {Nil}
      /\ entry' \in Files /\ revisions' \in Nat /\ UNCHANGED <<bytecode, modules, signed>>
  <2>1. /\ revisions + 1 \in Nat /\ manifest \in Manifests
        /\ manifest.signature \in signed \cup {Nil}
    BY DEF PackageInv, PackageTypeOK, SignaturesMade
  <2>2. \A s \in {Nil, manifest.signature} : /\ Manifest(revisions + 1, s) \in Manifests
                                            /\ Manifest(revisions + 1, s).signature = s
    BY <2>1 DEF Manifest, Manifests
  <2>3. /\ \/ entry' = revisions + 1 /\ manifest' = manifest
           \/ /\ manifest' \in {Manifest(revisions + 1, s) : s \in {Nil, manifest.signature}}
              /\ entry' = entry
        /\ revisions' = revisions + 1 /\ UNCHANGED <<bytecode, modules, signed>>
    BY DEF EditPackage
  <2>4. entry \in Files /\ Nat \subseteq Files BY DEF PackageInv, PackageTypeOK, Files
  <2> QED BY <2>1, <2>2, <2>3, <2>4
<1>2. \A d \in PackageCalls :
        packageCalls'[d] = IF InProgress(d) THEN [packageCalls[d] EXCEPT !.alone = FALSE]
                           ELSE packageCalls[d]
  BY DEF EditPackage
<1>3. \A d \in PackageCalls : Disturbed(d) BY <1>2, Disturbing
<1>4. PackageTypeOK'
  <2>1. packageCalls' \in [PackageCalls -> PackageRecords]
    <3>1. \A d \in PackageCalls : packageCalls'[d] \in PackageRecords
      BY <1>3 DEF Disturbed
    <3> QED BY <3>1 DEF EditPackage
  <2> QED BY <1>1, <2>1 DEF PackageInv, PackageTypeOK
<1>5. SignaturesMade' BY <1>1, <1>3 DEF Disturbed, PackageInv, SignaturesMade
<1>6. AloneIsAlone' BY <1>3 DEF Disturbed, AloneIsAlone, InProgress
<1>7. OutcomesTell' BY <1>3 DEF Disturbed, PackageInv, OutcomesTell
<1>8. \A d \in PackageCalls : LoadOnItsWay(d)' BY <1>1, <1>2, DisturbedLoads
<1> QED BY <1>4, <1>5, <1>6, <1>7, <1>8 DEF PackageInv

LEMMA PackageStutters == PackageInv /\ UNCHANGED packageVars => PackageInv'
<1> SUFFICES ASSUME PackageInv, UNCHANGED packageVars PROVE PackageInv' OBVIOUS
<1>1. UNCHANGED <<manifest, entry, bytecode, modules, packageCalls, revisions, signed>>
  BY DEF packageVars
<1>2. PackageTypeOK' /\ SignaturesMade' /\ OutcomesTell'
  BY <1>1 DEF PackageInv, PackageTypeOK, SignaturesMade, OutcomesTell
<1>3. AloneIsAlone' BY <1>1 DEF PackageInv, AloneIsAlone, InProgress
<1>4. ASSUME NEW c \in PackageCalls PROVE LoadOnItsWay(c)'
  <2>1. LoadOnItsWay(c) BY DEF PackageInv
  <2>2. AsSigned' <=> AsSigned BY <1>1 DEF AsSigned, PackageMessage
  <2>3. HoldsWhatWasSigned(c)' <=> HoldsWhatWasSigned(c) BY <1>1 DEF HoldsWhatWasSigned
  <2> QED BY <1>1, <2>1, <2>2, <2>3 DEF LoadOnItsWay
<1> QED BY <1>2, <1>3, <1>4 DEF PackageInv

LEMMA PackageInvNext == PackageInv /\ [PackagesNext]_packageVars => PackageInv'
<1> SUFFICES ASSUME PackageInv, [PackagesNext]_packageVars PROVE PackageInv' OBVIOUS
<1>1. ASSUME NEW c \in PackageCalls, NEW key \in SigningKeys, BeginSigning(c, key)
      PROVE  PackageInv'
  BY <1>1, BeginSigningKeeps
<1>2. ASSUME NEW c \in PackageCalls, EmptyManifest(c) PROVE PackageInv'
  BY <1>2, EmptyManifestKeeps
<1>3. ASSUME NEW c \in PackageCalls, WriteCanonical(c) PROVE PackageInv'
  BY <1>3, WriteCanonicalKeeps
<1>4. ASSUME NEW c \in PackageCalls, SignMessage(c) PROVE PackageInv'
  BY <1>4, SignMessageKeeps
<1>5. ASSUME NEW c \in PackageCalls, WriteSignature(c) PROVE PackageInv'
  BY <1>5, WriteSignatureKeeps
<1>6. ASSUME NEW c \in PackageCalls, BeginLoad(c) PROVE PackageInv'
  BY <1>6, BeginLoadKeeps
<1>7. ASSUME NEW c \in PackageCalls, ReadSignature(c) PROVE PackageInv'
  BY <1>7, ReadSignatureKeeps
<1>8. ASSUME NEW c \in PackageCalls, CheckMessage(c) PROVE PackageInv'
  BY <1>8, CheckMessageKeeps
<1>9. ASSUME NEW c \in PackageCalls, ImportEntry(c) PROVE PackageInv'
  BY <1>9, ImportEntryKeeps
<1>10. ASSUME NEW c \in PackageCalls, CallDies(c) PROVE PackageInv'
  BY <1>10, CallDiesKeeps
<1>11. CASE Unload BY <1>11, UnloadKeeps
<1>12. CASE EditPackage BY <1>12, EditPackageKeeps
<1>13. CASE UNCHANGED packageVars BY <1>13, PackageStutters
<1> QED
  BY <1>1, <1>2, <1>3, <1>4, <1>5, <1>6, <1>7, <1>8, <1>9, <1>10, <1>11, <1>12, <1>13
     DEF PackagesNext

\* PluginManager.load: what a load that nothing disturbs has imported is an
\* entry point that the named key has signed, and a package that is as it was
\* signed is not refused; whatever calls sign, load and die, and however its
\* author edits the package in between.
THEOREM SignedIsLoaded == PackagesSpec => []LoadsWhatWasSigned
<1>1. PackageInv => LoadsWhatWasSigned
  BY DEF PackageInv, LoadOnItsWay, LoadsWhatWasSigned
<1> QED BY <1>1, PackageInvInit, PackageInvNext, PTL DEF PackagesSpec

----------------------------------------------------------------------------
(* CoderSession: a session keeps faith with its user.                      *)

RequestPlaces ==
    {"new", "plan", "act", "invoke", "save", "write", "report", "saved", "refused", "raised", "died"}

Work == [at : RequestPlaces, id : Nat \cup {None}, session : SessionRecords \cup {None}]

SessionTypeOK ==
    /\ trust \in TrustModes /\ saved \in SessionRecords \cup {None}
    /\ work \in [Requests -> Work]
    /\ questions \in Nat /\ answers \in Nat
    /\ asked \in Seq(PlannedCalls) /\ granted \in Seq(Nat) /\ times \in Seq(Nat)
    /\ Len(granted) = Len(asked) /\ Len(times) = Len(asked)
    /\ denied \subseteq Ids /\ disturbed \in BOOLEAN

\* The approval that session s waits for is the one that was asked for, and is
\* of the action its plan has reached.
Fits(s) ==
    s.pending # None =>
      /\ s.pending.id \in Ids /\ asked[s.pending.id] = s.pending.call
      /\ s.pending.index = s.index /\ s.index < Len(s.plan) /\ s.pending.call = NextCall(s)

\* What SavedSessionCoherent says of session.json, and that its approval fits.
Sound(s) ==
    /\ Fits(s)
    /\ s.status = "awaiting_approval" => s.pending # None
    /\ s.pending # None => s.status \in {"awaiting_approval", "failed"}
    /\ s.status = "completed" => s.index = Len(s.plan)

SavedFits == saved # None => Sound(saved)

\* A request holds a copy of the session that fits what it is about to do.
RequestFits(r) ==
    /\ work[r].at \notin Ended => work[r].session # None
    /\ work[r].at = "plan" => Fits(work[r].session)
    /\ work[r].at = "act" => /\ work[r].session.pending = None
                             /\ work[r].session.index <= Len(work[r].session.plan)
    /\ work[r].at = "invoke" => /\ work[r].session.pending # None /\ Fits(work[r].session)
                                /\ work[r].id = work[r].session.pending.id
    /\ work[r].at \in {"save", "write", "report"} => Sound(work[r].session)

\* The requests that are about to run the call of approval id: a grant each.
Carrying(id) == {r \in Requests : work[r].at = "invoke" /\ work[r].id = id}

GrantsSuffice == \A id \in Ids : times[id] + Cardinality(Carrying(id)) <= granted[id]

AskedInTrust == asked # <<>> => trust = "ask"

\* Session s waits for an approval that nobody has decided or used.
Undecided(s) == s.pending # None => times[s.pending.id] = 0 /\ s.pending.id \notin denied

Waiting(s) == IF s.pending = None THEN 0 ELSE 1

\* What the copy of a request says while nothing disturbs it.
TellsUser(r) ==
    /\ written \subseteq work[r].session.changed /\ Undecided(work[r].session)
    /\ work[r].at \in {"plan", "act", "invoke"} => answers + 1 <= questions
    /\ work[r].at \in {"save", "write", "report"} =>
         answers + Waiting(work[r].session) <= questions
    /\ work[r].at = "report" => saved = work[r].session

\* What session.json and its report say between requests.
SavedTells ==
    /\ saved # None /\ written \subseteq saved.changed /\ Undecided(saved)
    /\ answers + Waiting(saved) <= questions
    /\ report = ReportStatus(saved)

Undisturbed ==
    ~disturbed =>
      /\ \A r, q \in Active : r = q
      /\ Active = {} => SavedTells
      /\ \A r \in Active : TellsUser(r)

SessionInv ==
    /\ SessionTypeOK /\ SavedFits /\ \A r \in Requests : RequestFits(r)
    /\ RunsWhatWasGranted /\ GrantsSuffice /\ AskedInTrust
    /\ ApprovalDecidedOnce /\ Undisturbed

\* SessionInv says what the property says.
LEMMA SessionInvSays == SessionInv => SessionsKeepFaith
<1> SUFFICES ASSUME SessionInv PROVE SessionsKeepFaith OBVIOUS
<1>1. SavedSessionCoherent
  BY DEF SessionInv, SavedFits, Sound, Fits, SavedSessionCoherent
<1>2. NothingUntold
  <2> SUFFICES ASSUME ~disturbed, Active = {}
               PROVE  /\ saved # None /\ written \subseteq saved.changed
                      /\ answers <= questions /\ report = ReportStatus(saved)
    BY DEF NothingUntold
  <2>1. SavedTells /\ answers \in Nat /\ questions \in Nat
    BY DEF SessionInv, Undisturbed, SessionTypeOK
  <2> QED BY <2>1 DEF SavedTells, Waiting
<1> QED
  BY <1>1, <1>2 DEF SessionInv, SessionsKeepFaith, ApprovalsRespected, SavedSessionTrue

\* The call the plan of a session has reached.
LEMMA NextCallIs ==
  ASSUME NEW s \in SessionRecords, s.index < Len(s.plan)
  PROVE  NextCall(s) \in PlannedCalls
<1>1. s.plan \in Plans /\ Len(s.plan) \in Nat /\ s.index \in Nat
  BY SessionAssumption DEF SessionRecords
<1>2. s.index + 1 \in 1..Len(s.plan) BY <1>1
<1> QED BY <1>1, <1>2 DEF NextCall, PlannedCalls

\* What the policy of the coder allows is free of risk, or the user trusts the
\* workspace; it asks in the trust mode ask only.
LEMMA PolicyIs ==
  ASSUME trust \in TrustModes, NEW call
  PROVE  /\ Decision(call) = "allow" => Trusted(call)
         /\ Decision(call) = "ask" => trust = "ask"
<1> DEFINE rules == CoderConfig(trust).rules
<1>1. RiskOf(call) \in {"none", "low", "medium", "high"} BY DEF RiskOf, DefaultRisk
<1>2. Decision(call) \in {"deny", rules[RiskOf(call)]}
  <2>1. CoderConfig(trust).deleteTools = {} BY DEF CoderConfig, PolicyConfig
  <2> QED BY <2>1 DEF Decision, Evaluate, DeleteRestricted
<1>3. /\ rules.none = "allow" /\ rules.low = "allow"
      /\ trust = "read_only" => rules.medium = "deny" /\ rules.high = "deny"
      /\ trust = "workspace" => rules.medium = "allow" /\ rules.high = "allow"
      /\ trust = "ask" => rules.medium = "ask" /\ rules.high = "ask"
  BY DEF CoderConfig, PolicyConfig, Rules
<1> HIDE DEF rules
<1> QED BY <1>1, <1>2, <1>3 DEF Trusted, TrustModes

LEMMA GotoIs ==
  ASSUME work \in [Requests -> Work], NEW r \in Requests, NEW to \in RequestPlaces,
         NEW s \in SessionRecords, Goto(r, to, s)
  PROVE  /\ work' \in [Requests -> Work]
         /\ work'[r].at = to /\ work'[r].session = s /\ work'[r].id = work[r].id
         /\ \A q \in Requests \ {r} : work'[q] = work[q]
<1> DEFINE w == [work[r] EXCEPT !.at = to, !.session = s]
<1>1. w \in Work /\ w.at = to /\ w.session = s /\ w.id = work[r].id BY DEF Work
<1>2. work' = [work EXCEPT ![r] = w] BY DEF Goto
<1> HIDE DEF w
<1> QED BY <1>1, <1>2

LEMMA EndIs ==
  ASSUME work \in [Requests -> Work], NEW r \in Requests, NEW to \in Ended, End(r, to)
  PROVE  /\ work' \in [Requests -> Work]
         /\ work'[r].at = to
         /\ \A q \in Requests \ {r} : work'[q] = work[q]
<1> DEFINE w == [NoWork EXCEPT !.at = to]
<1>1. w \in Work /\ w.at = to BY DEF NoWork, Work, RequestPlaces, Ended
<1>2. work' = [work EXCEPT ![r] = w] BY DEF End
<1> HIDE DEF w
<1> QED BY <1>1, <1>2

LEMMA SessionInvInit == SessionInit => SessionInv
<1> SUFFICES ASSUME SessionInit PROVE SessionInv OBVIOUS
<1>1. /\ NewSession \in SessionRecords /\ NewSession.pending = None
      /\ NewSession.status = "idle" /\ NewSession.changed = {}
  BY DEF NewSession, Session, SessionRecords, Statuses
<1>2. NewSession # None BY <1>1, SessionAssumption
<1>3. SessionTypeOK
  <2>1. NoWork \in Work BY DEF NoWork, Work, RequestPlaces
  <2>2. asked = <<>> /\ granted = <<>> /\ times = <<>> /\ disturbed = FALSE
    BY DEF SessionInit
  <2>3. /\ asked \in Seq(PlannedCalls) /\ granted \in Seq(Nat) /\ times \in Seq(Nat)
        /\ Len(granted) = Len(asked) /\ Len(times) = Len(asked)
    BY <2>2
  <2>4. trust \in TrustModes /\ saved \in SessionRecords /\ work \in [Requests -> Work]
    BY <1>1, <2>1 DEF SessionInit
  <2> QED BY <2>2, <2>3, <2>4 DEF SessionInit, SessionTypeOK
<1>4. Active = {} BY DEF SessionInit, Active, NoWork, Ended
<1>5. SavedTells BY <1>1, <1>2 DEF SessionInit, SavedTells, Undecided, Waiting
<1>6. Ids = {} /\ asked = <<>> /\ ran = {} BY DEF SessionInit, Ids
<1>7. SavedFits /\ \A r \in Requests : RequestFits(r)
  BY <1>1 DEF SessionInit, SavedFits, Sound, Fits, RequestFits, NoWork, Ended
<1> QED BY <1>3, <1>4, <1>5, <1>6, <1>7
     DEF SessionInv, RunsWhatWasGranted, GrantsSuffice, AskedInTrust, ApprovalDecidedOnce, Undisturbed

\* Only request r does something, and what it leaves is as Undisturbed says.
LEMMA UndisturbedGoes ==
  ASSUME NEW r \in Requests, \A q \in Requests \ {r} : work'[q] = work[q],
         ~disturbed' => \A q \in Active : q = r,
         ~disturbed' /\ work'[r].at \notin Ended => TellsUser(r)',
         ~disturbed' /\ work'[r].at \in Ended => SavedTells'
  PROVE  Undisturbed'
<1>1. \A q \in Requests \ {r} : q \in Active' <=> q \in Active BY DEF Active
<1>2. r \in Active' <=> work'[r].at \notin Ended BY DEF Active
<1>3. Active' \subseteq Requests BY DEF Active
<1> SUFFICES ASSUME ~disturbed'
             PROVE  /\ \A q, p \in Active' : q = p
                    /\ Active' = {} => SavedTells'
                    /\ \A q \in Active' : TellsUser(q)'
  BY DEF Undisturbed
<1>4. \A q \in Active' : q = r BY <1>1, <1>3
<1> QED BY <1>2, <1>4

\* A request in progress that nothing disturbs is the only one.
LEMMA OnlyOne ==
  ASSUME SessionInv, NEW r \in Requests, work[r].at \notin Ended, ~disturbed
  PROVE  TellsUser(r) /\ \A q \in Active : q = r
  BY DEF SessionInv, Undisturbed, Active

\* A request begins, and nothing disturbs it.
LEMMA BeginsAlone ==
  ASSUME SessionInv, NEW r \in Requests, Overlap(r), ~disturbed'
  PROVE  ~disturbed /\ Active = {} /\ SavedTells
<1>1. ~disturbed /\ Active = {} BY DEF Overlap, SessionInv, SessionTypeOK
<1> QED BY <1>1 DEF SessionInv, Undisturbed

\* Fewer requests carry a grant.
LEMMA CarryingShrinks ==
  ASSUME NEW id, Carrying(id)' \subseteq Carrying(id)
  PROVE  /\ Cardinality(Carrying(id)') <= Cardinality(Carrying(id))
         /\ Cardinality(Carrying(id)') \in Nat /\ Cardinality(Carrying(id)) \in Nat
<1>1. IsFiniteSet(Carrying(id)) BY SessionAssumption, FS_Subset DEF Carrying
<1> QED BY <1>1, FS_Subset, FS_CardinalityType

\* A request goes on, or ends, and no approval is asked for, decided or used.
LEMMA QuietMove ==
  ASSUME SessionInv, NEW r \in Requests, work' \in [Requests -> Work],
         \A q \in Requests \ {r} : work'[q] = work[q],
         UNCHANGED <<trust, asked, granted, denied, times>>, ran' = ran \/ RunsWhatWasGranted',
         work'[r].at # "invoke", saved' \in SessionRecords \cup {None},
         questions' \in Nat, answers' \in Nat, disturbed' \in BOOLEAN,
         disturbed => disturbed',
         SavedFits', RequestFits(r)', Undisturbed'
  PROVE  SessionInv'
<1>1. SessionTypeOK' BY DEF SessionInv, SessionTypeOK, Ids
<1>2. \A q \in Requests : RequestFits(q)'
  <2> SUFFICES ASSUME NEW q \in Requests, q # r PROVE RequestFits(q)' OBVIOUS
  <2>1. RequestFits(q) /\ work'[q] = work[q] BY DEF SessionInv
  <2> QED BY <2>1 DEF RequestFits, Fits, Sound, Ids, NextCall
<1>3. RunsWhatWasGranted' /\ AskedInTrust'
  BY DEF SessionInv, RunsWhatWasGranted, AskedInTrust, Ids, Trusted
<1>4. GrantsSuffice'
  <2> SUFFICES ASSUME NEW id \in Ids
               PROVE  times[id] + Cardinality(Carrying(id)') <= granted[id]
    BY DEF GrantsSuffice, Ids
  <2>1. Carrying(id)' \subseteq Carrying(id) BY DEF Carrying
  <2>2. times[id] \in Nat /\ granted[id] \in Nat BY DEF SessionInv, SessionTypeOK, Ids
  <2>3. times[id] + Cardinality(Carrying(id)) <= granted[id]
    BY DEF SessionInv, GrantsSuffice
  <2> QED BY <2>1, <2>2, <2>3, CarryingShrinks
<1>5. ApprovalDecidedOnce' BY DEF SessionInv, ApprovalDecidedOnce, Ids, SessionTypeOK
<1> QED BY <1>1, <1>2, <1>3, <1>4, <1>5 DEF SessionInv

\* Session s with another status.
LEMMA StatusIs ==
  ASSUME NEW s \in SessionRecords, NEW status \in Statuses
  PROVE  \E t \in SessionRecords :
           /\ t = [s EXCEPT !.status = status]
           /\ t.status = status /\ t.plan = s.plan /\ t.index = s.index
           /\ t.pending = s.pending /\ t.changed = s.changed
<1> DEFINE t == [s EXCEPT !.status = status]
<1>1. /\ t \in SessionRecords
      /\ t.status = status /\ t.plan = s.plan /\ t.index = s.index
      /\ t.pending = s.pending /\ t.changed = s.changed
  BY DEF SessionRecords
<1> QED BY <1>1

\* Session s with another status, and another approval or none.
PendingWith(s, status, p) == [s EXCEPT !.status = status, !.pending = p]

LEMMA PendingIs ==
  ASSUME NEW s \in SessionRecords, NEW status \in Statuses, NEW p \in PendingRecords \cup {None}
  PROVE  /\ PendingWith(s, status, p) \in SessionRecords
         /\ PendingWith(s, status, p).status = status
         /\ PendingWith(s, status, p).plan = s.plan
         /\ PendingWith(s, status, p).index = s.index
         /\ PendingWith(s, status, p).pending = p
         /\ PendingWith(s, status, p).changed = s.changed
  BY DEF PendingWith, SessionRecords

LEMMA PostKeeps ==
  ASSUME SessionInv, NEW r \in Requests, Post(r)
  PROVE  SessionInv'
<1> USE DEF SessionTypeOK
<1>1. /\ work[r].at = "new" /\ Overlap(r)
      /\ UNCHANGED <<trust, saved, report, answers, asked, granted, denied, ran, times, written>>
  BY DEF Post
<1>2. disturbed' \in BOOLEAN /\ (disturbed => disturbed') /\ SavedFits'
  BY <1>1 DEF Overlap, SessionInv, SavedFits, Sound, Fits, Ids, NextCall
<1>3. ~disturbed' => ~disturbed /\ Active = {} /\ SavedTells BY <1>1, BeginsAlone
<1>4. CASE saved = None
  <2>1. End(r, "refused") /\ UNCHANGED questions BY <1>4 DEF Post
  <2>2. /\ work' \in [Requests -> Work] /\ work'[r].at = "refused"
        /\ \A q \in Requests \ {r} : work'[q] = work[q]
    BY <2>1, EndIs DEF SessionInv, Ended
  <2>3. disturbed' BY <1>2, <1>3, <1>4 DEF SavedTells
  <2>4. Undisturbed' BY <2>3 DEF Undisturbed
  <2>5. RequestFits(r)' BY <2>2 DEF RequestFits, Ended
  <2> QED BY <1>1, <1>2, <2>1, <2>2, <2>4, <2>5, QuietMove DEF SessionInv
<1>5. CASE saved # None
  <2>1. saved \in SessionRecords /\ "running" \in Statuses
    BY <1>5 DEF SessionInv, Statuses
  <2>2. PICK t \in SessionRecords :
          /\ t = [saved EXCEPT !.status = "running"]
          /\ t.plan = saved.plan /\ t.index = saved.index
          /\ t.pending = saved.pending /\ t.changed = saved.changed
    BY <2>1, StatusIs
  <2>3. Goto(r, "plan", t) /\ questions' = questions + 1 BY <1>5, <2>2 DEF Post
  <2>4. /\ work' \in [Requests -> Work] /\ work'[r].at = "plan" /\ work'[r].session = t
        /\ \A q \in Requests \ {r} : work'[q] = work[q]
    BY <2>3, GotoIs DEF SessionInv, RequestPlaces
  <2>5. RequestFits(r)'
    <3>1. Fits(saved) /\ t # None
      BY <1>5, SessionAssumption DEF SessionInv, SavedFits, Sound
    <3> QED BY <1>1, <2>2, <2>4, <3>1 DEF RequestFits, Fits, Ids, NextCall, Ended
  <2>6. ~disturbed' => TellsUser(r)'
    BY <1>1, <1>3, <2>2, <2>3, <2>4 DEF TellsUser, SavedTells, Undecided, Waiting, SessionInv
  <2>7. Undisturbed' BY <1>3, <2>4, <2>6, UndisturbedGoes DEF Ended
  <2>8. questions' \in Nat BY <2>3 DEF SessionInv
  <2> QED BY <1>1, <1>2, <2>4, <2>5, <2>7, <2>8, QuietMove DEF SessionInv
<1> QED BY <1>4, <1>5

\* A request goes on with its copy of the session: what of the invariant is
\* left to show.
LEMMA TurnGoes ==
  ASSUME SessionInv, NEW r \in Requests, work[r].at \notin Ended,
         NEW to \in {"plan", "act", "save", "write", "report"}, NEW t \in SessionRecords,
         Goto(r, to, t),
         UNCHANGED <<trust, questions, asked, granted, denied, times>>,
         disturbed' \in BOOLEAN, disturbed => disturbed',
         ran' = ran \/ RunsWhatWasGranted', saved' \in SessionRecords \cup {None}, answers' \in Nat, SavedFits',
         to = "plan" => Fits(t),
         to = "act" => t.pending = None /\ t.index <= Len(t.plan),
         to \in {"save", "write", "report"} => Sound(t),
         ~disturbed' /\ ~disturbed /\ TellsUser(r) =>
            /\ written' \subseteq t.changed /\ Undecided(t)
            /\ to \in {"plan", "act"} => answers' + 1 <= questions
            /\ to \in {"save", "write", "report"} => answers' + Waiting(t) <= questions
            /\ to = "report" => saved' = t
  PROVE  SessionInv'
<1>1. /\ work' \in [Requests -> Work] /\ work'[r].at = to /\ work'[r].session = t
      /\ \A q \in Requests \ {r} : work'[q] = work[q]
  BY GotoIs DEF SessionInv, RequestPlaces, SessionTypeOK
<1>2. t # None BY SessionAssumption
<1>3. RequestFits(r)' BY <1>1, <1>2 DEF RequestFits, Fits, Sound, Ids, NextCall
<1>4. ~disturbed' /\ ~disturbed => TellsUser(r)'
  BY <1>1, OnlyOne DEF TellsUser, Undecided, Waiting
<1>5. Undisturbed' BY <1>1, <1>4, OnlyOne, UndisturbedGoes DEF Ended
<1> QED BY <1>1, <1>3, <1>5, QuietMove DEF SessionInv, SessionTypeOK

LEMMA PlanKeeps ==
  ASSUME SessionInv, NEW r \in Requests, Plan(r)
  PROVE  SessionInv'
<1>1. /\ work[r].at = "plan" /\ work[r].at \notin Ended
      /\ UNCHANGED <<files, ran, times, written, disturbed>>
  BY DEF Plan, Ended
<1>2. UNCHANGED <<trust, saved, report, questions, answers, asked, granted, denied>>
  BY <1>1 DEF files
<1>3. PICK s \in SessionRecords : s = work[r].session
  BY <1>1 DEF SessionInv, SessionTypeOK, Work, RequestFits
<1>4. Fits(s) BY <1>1, <1>3 DEF SessionInv, RequestFits
<1>5. SavedFits' BY <1>2 DEF SessionInv, SavedFits, Sound, Fits, Ids, NextCall
<1>6. ASSUME NEW plan \in Plans,
             Goto(r, "act", [s EXCEPT !.plan = plan, !.index = 0, !.pending = None])
      PROVE  SessionInv'
  <2> DEFINE one == [s EXCEPT !.plan = plan, !.index = 0]
             t == [one EXCEPT !.pending = None]
  <2>1. /\ one \in SessionRecords /\ one.plan = plan /\ one.index = 0
        /\ one.changed = s.changed
    BY DEF SessionRecords
  <2>2. Goto(r, "act", t) BY <1>6
  <2> HIDE DEF one
  <2>3. /\ t \in SessionRecords /\ t.plan = plan /\ t.index = 0
        /\ t.pending = None /\ t.changed = s.changed
    BY <2>1 DEF SessionRecords
  <2> HIDE DEF t
  <2>4. Len(plan) \in Nat BY SessionAssumption
  <2>5. ~disturbed /\ TellsUser(r) => /\ written' \subseteq t.changed /\ Undecided(t)
                                 /\ answers' + 1 <= questions
    BY <1>1, <1>2, <1>3, <2>3 DEF TellsUser, Undecided
  <2> QED
    BY <1>1, <1>2, <1>5, <2>2, <2>3, <2>4, <2>5, TurnGoes DEF SessionInv, SessionTypeOK
<1>7. ASSUME Goto(r, "save", [s EXCEPT !.status = "failed"])
      PROVE  SessionInv'
  <2>1. PICK t \in SessionRecords :
          /\ t = [s EXCEPT !.status = "failed"] /\ t.status = "failed"
          /\ t.plan = s.plan /\ t.index = s.index /\ t.pending = s.pending
          /\ t.changed = s.changed
    BY StatusIs DEF Statuses
  <2>2. Sound(t) BY <1>4, <2>1 DEF Sound, Fits, NextCall
  <2>3. ~disturbed /\ TellsUser(r) => /\ written' \subseteq t.changed /\ Undecided(t)
                                 /\ answers' + Waiting(t) <= questions
    BY <1>1, <1>2, <1>3, <2>1 DEF TellsUser, Undecided, Waiting, SessionInv, SessionTypeOK
  <2>4. Goto(r, "save", t) BY <1>7, <2>1
  <2> QED BY <1>1, <1>2, <1>5, <2>2, <2>3, <2>4, TurnGoes DEF SessionInv, SessionTypeOK
<1> QED BY <1>3, <1>6, <1>7 DEF Plan

LEMMA RefuseKeeps ==
  ASSUME SessionInv, NEW r \in Requests, Refuse(r)
  PROVE  SessionInv'
<1>1. /\ work[r].at = "act" /\ work[r].at \notin Ended
      /\ UNCHANGED <<files, ran, times, written, disturbed>>
  BY DEF Refuse, AtAction, Ended
<1>2. UNCHANGED <<trust, saved, report, questions, answers, asked, granted, denied>>
  BY <1>1 DEF files
<1>3. PICK s \in SessionRecords : s = work[r].session
  BY <1>1 DEF SessionInv, SessionTypeOK, Work, RequestFits
<1>4. s.pending = None BY <1>1, <1>3 DEF SessionInv, RequestFits
<1>5. SavedFits' BY <1>2 DEF SessionInv, SavedFits, Sound, Fits, Ids, NextCall
<1>6. PICK t \in SessionRecords :
        /\ t = [s EXCEPT !.status = "blocked"] /\ t.status = "blocked"
        /\ t.pending = s.pending /\ t.changed = s.changed
  BY StatusIs DEF Statuses
<1>7. Sound(t) BY <1>4, <1>6 DEF Sound, Fits
<1>8. ~disturbed /\ TellsUser(r) => /\ written' \subseteq t.changed /\ Undecided(t)
                               /\ answers' + Waiting(t) <= questions
  BY <1>1, <1>2, <1>3, <1>4, <1>6 DEF TellsUser, Undecided, Waiting, SessionInv, SessionTypeOK
<1>9. Goto(r, "save", t) BY <1>3, <1>6 DEF Refuse
<1> QED BY <1>1, <1>2, <1>5, <1>7, <1>8, <1>9, TurnGoes DEF SessionInv, SessionTypeOK

LEMMA CompleteKeeps ==
  ASSUME SessionInv, NEW r \in Requests, Complete(r)
  PROVE  SessionInv'
<1>1. /\ work[r].at = "act" /\ work[r].at \notin Ended /\ ~AtAction(r) /\ answers' = answers + 1
      /\ UNCHANGED <<trust, saved, report, questions, asked, granted, denied, ran, times,
                     written, disturbed>>
  BY DEF Complete, Ended
<1>2. PICK s \in SessionRecords : s = work[r].session
  BY <1>1 DEF SessionInv, SessionTypeOK, Work, RequestFits
<1>3. s.pending = None /\ s.index <= Len(s.plan)
  BY <1>1, <1>2 DEF SessionInv, RequestFits
<1>4. s.index = Len(s.plan)
  <2>1. ~(s.index < Len(s.plan)) BY <1>1, <1>2 DEF AtAction
  <2>2. s.index \in Nat /\ Len(s.plan) \in Nat BY SessionAssumption DEF SessionRecords
  <2> QED BY <1>3, <2>1, <2>2
<1>5. SavedFits' BY <1>1 DEF SessionInv, SavedFits, Sound, Fits, Ids, NextCall
<1>6. PICK t \in SessionRecords :
        /\ t = [s EXCEPT !.status = "completed"] /\ t.status = "completed"
        /\ t.plan = s.plan /\ t.index = s.index
        /\ t.pending = s.pending /\ t.changed = s.changed
  BY StatusIs DEF Statuses
<1>7. Sound(t) BY <1>3, <1>4, <1>6 DEF Sound, Fits
<1>8. ~disturbed /\ TellsUser(r) => /\ written' \subseteq t.changed /\ Undecided(t)
                               /\ answers' + Waiting(t) <= questions
  BY <1>1, <1>2, <1>3, <1>6 DEF TellsUser, Undecided, Waiting, SessionInv, SessionTypeOK
<1>9. Goto(r, "save", t) BY <1>2, <1>6 DEF Complete
<1>10. answers' \in Nat BY <1>1 DEF SessionInv, SessionTypeOK
<1> QED BY <1>1, <1>5, <1>7, <1>8, <1>9, <1>10, TurnGoes DEF SessionInv, SessionTypeOK

LEMMA TruncateKeeps ==
  ASSUME SessionInv, NEW r \in Requests, Truncate(r)
  PROVE  SessionInv'
<1>1. /\ work[r].at = "save" /\ work[r].at \notin Ended /\ saved' = None
      /\ UNCHANGED <<trust, questions, answers, asked, granted, denied, ran, times, written,
                     disturbed>>
  BY DEF Truncate, Ended
<1>2. PICK s \in SessionRecords : s = work[r].session
  BY <1>1 DEF SessionInv, SessionTypeOK, Work, RequestFits
<1>3. Sound(s) BY <1>1, <1>2 DEF SessionInv, RequestFits
<1>4. SavedFits' BY <1>1 DEF SavedFits
<1>5. ~disturbed /\ TellsUser(r) => /\ written' \subseteq s.changed /\ Undecided(s)
                               /\ answers' + Waiting(s) <= questions
  BY <1>1, <1>2 DEF TellsUser
<1>6. Goto(r, "write", s) BY <1>2 DEF Truncate
<1> QED BY <1>1, <1>3, <1>4, <1>5, <1>6, TurnGoes DEF SessionInv, SessionTypeOK

LEMMA WriteKeeps ==
  ASSUME SessionInv, NEW r \in Requests, Write(r)
  PROVE  SessionInv'
<1>1. /\ work[r].at = "write" /\ work[r].at \notin Ended
      /\ UNCHANGED <<trust, questions, answers, asked, granted, denied, ran, times, written,
                     disturbed>>
  BY DEF Write, Ended
<1>2. PICK s \in SessionRecords : s = work[r].session
  BY <1>1 DEF SessionInv, SessionTypeOK, Work, RequestFits
<1>3. Sound(s) BY <1>1, <1>2 DEF SessionInv, RequestFits
<1>4. saved' = s /\ Goto(r, "report", s) BY <1>2 DEF Write
<1>5. SavedFits' BY <1>1, <1>3, <1>4 DEF SavedFits, Sound, Fits, Ids, NextCall
<1>6. ~disturbed /\ TellsUser(r) => /\ written' \subseteq s.changed /\ Undecided(s)
                               /\ answers' + Waiting(s) <= questions
  BY <1>1, <1>2 DEF TellsUser
<1> QED BY <1>1, <1>3, <1>4, <1>5, <1>6, TurnGoes DEF SessionInv, SessionTypeOK

LEMMA WriteReportKeeps ==
  ASSUME SessionInv, NEW r \in Requests, WriteReport(r)
  PROVE  SessionInv'
<1>1. /\ work[r].at = "report" /\ work[r].at \notin Ended /\ End(r, "saved")
      /\ UNCHANGED <<trust, saved, questions, answers, asked, granted, denied, ran, times,
                     written, disturbed>>
  BY DEF WriteReport, Ended
<1>2. PICK s \in SessionRecords : s = work[r].session
  BY <1>1 DEF SessionInv, SessionTypeOK, Work, RequestFits
<1>3. /\ work' \in [Requests -> Work] /\ work'[r].at = "saved"
      /\ \A q \in Requests \ {r} : work'[q] = work[q]
  BY <1>1, EndIs DEF SessionInv, SessionTypeOK, Ended
<1>4. report' = ReportStatus(s) BY <1>2 DEF WriteReport
<1>5. ~disturbed => SavedTells'
  <2> SUFFICES ASSUME ~disturbed PROVE SavedTells' OBVIOUS
  <2>1. TellsUser(r) BY <1>1, OnlyOne
  <2>2. saved = s /\ s # None BY <1>1, <1>2, <2>1, SessionAssumption DEF TellsUser
  <2>3. saved' = s BY <1>1, <2>2
  <2> QED
    BY <1>1, <1>2, <1>4, <2>1, <2>2, <2>3 DEF TellsUser, SavedTells, Undecided, Waiting
<1>6. Undisturbed' BY <1>1, <1>3, <1>5, OnlyOne, UndisturbedGoes DEF Ended
<1>7. SavedFits' /\ RequestFits(r)'
  BY <1>1, <1>3 DEF SessionInv, SavedFits, RequestFits, Sound, Fits, Ids, NextCall, Ended
<1> QED BY <1>1, <1>3, <1>6, <1>7, QuietMove DEF SessionInv, SessionTypeOK

LEMMA CrashKeeps ==
  ASSUME SessionInv, NEW r \in Requests, Crash(r)
  PROVE  SessionInv'
<1>1. End(r, "died") /\ disturbed' = TRUE /\ UNCHANGED <<files, ran, times, written>>
  BY DEF Crash
<1>2. UNCHANGED <<trust, saved, report, questions, answers, asked, granted, denied>>
  BY <1>1 DEF files
<1>3. /\ work' \in [Requests -> Work] /\ work'[r].at = "died"
      /\ \A q \in Requests \ {r} : work'[q] = work[q]
  BY <1>1, EndIs DEF SessionInv, SessionTypeOK, Ended
<1>4. Undisturbed' BY <1>1 DEF Undisturbed
<1>5. SavedFits' /\ RequestFits(r)'
  BY <1>2, <1>3 DEF SessionInv, SavedFits, RequestFits, Sound, Fits, Ids, NextCall, Ended
<1> QED BY <1>1, <1>2, <1>3, <1>4, <1>5, QuietMove DEF SessionInv, SessionTypeOK

----------------------------------------------------------------------------
\* Nobody else is disturbed when approvals are added or decided.
LEMMA StillFit ==
  ASSUME SessionInv, NEW r \in Requests, UNCHANGED saved,
         \A q \in Requests \ {r} : work'[q] = work[q],
         Ids \subseteq Ids', \A id \in Ids : asked'[id] = asked[id]
  PROVE  SavedFits' /\ \A q \in Requests \ {r} : RequestFits(q)'
<1>1. ASSUME NEW s, Fits(s) PROVE Fits(s)' BY <1>1 DEF Fits, NextCall
<1>2. SavedFits' BY DEF SessionInv, SavedFits, Sound, Fits, NextCall
<1>3. ASSUME NEW q \in Requests, q # r PROVE RequestFits(q)'
  <2>1. RequestFits(q) /\ work'[q] = work[q] BY <1>3 DEF SessionInv
  <2> QED BY <2>1 DEF RequestFits, Fits, Sound, NextCall
<1> QED BY <1>2, <1>3

LEMMA AskKeeps ==
  ASSUME SessionInv, NEW r \in Requests, Ask(r)
  PROVE  SessionInv'
<1>1. /\ work[r].at = "act" /\ work[r].at \notin Ended
      /\ UNCHANGED <<trust, saved, report, questions, answers, denied, ran, written, disturbed>>
  BY DEF Ask, AtAction, Ended
<1>2. PICK s \in SessionRecords : s = work[r].session
  BY <1>1 DEF SessionInv, SessionTypeOK, Work, RequestFits
<1>3. s.index < Len(s.plan) BY <1>2 DEF Ask, AtAction
<1>4. PICK call \in PlannedCalls : call = NextCall(s) BY <1>3, NextCallIs
<1>5. PICK n \in Nat : n = Len(asked) /\ Ids = 1..n
  BY DEF SessionInv, SessionTypeOK, Ids
<1>6. PICK p \in PendingRecords : p = [id |-> n + 1, call |-> call, index |-> s.index]
  <2>1. s.index \in Nat BY DEF SessionRecords
  <2>2. [id |-> n + 1, call |-> call, index |-> s.index] \in PendingRecords
    BY <2>1 DEF PendingRecords
  <2> QED BY <2>2
<1>7. PICK t \in SessionRecords :
        /\ t = PendingWith(s, "awaiting_approval", p)
        /\ t.status = "awaiting_approval" /\ t.plan = s.plan /\ t.index = s.index
        /\ t.pending = p /\ t.changed = s.changed
  <2>1. "awaiting_approval" \in Statuses /\ p \in PendingRecords \cup {None}
    BY DEF Statuses
  <2> QED BY <2>1, PendingIs
<1>8. /\ asked' = Append(asked, call) /\ granted' = Append(granted, 0)
      /\ times' = Append(times, 0) /\ Goto(r, "save", t) /\ Decision(call) = "ask"
  BY <1>2, <1>4, <1>5, <1>6, <1>7 DEF Ask, PendingWith
<1>9. /\ asked' \in Seq(PlannedCalls) /\ Len(asked') = n + 1 /\ asked'[n + 1] = call
      /\ \A id \in 1..n : asked'[id] = asked[id]
  BY <1>5, <1>8, AppendProperties DEF SessionInv, SessionTypeOK
<1>10. /\ granted' \in Seq(Nat) /\ Len(granted') = n + 1 /\ granted'[n + 1] = 0
       /\ \A id \in 1..n : granted'[id] = granted[id]
  BY <1>5, <1>8, AppendProperties DEF SessionInv, SessionTypeOK
<1>11. /\ times' \in Seq(Nat) /\ Len(times') = n + 1 /\ times'[n + 1] = 0
       /\ \A id \in 1..n : times'[id] = times[id]
  BY <1>5, <1>8, AppendProperties DEF SessionInv, SessionTypeOK
<1>12. Ids' = 1..(n + 1) /\ Ids \subseteq Ids' /\ n + 1 \in Ids' /\ n + 1 \notin Ids
  BY <1>5, <1>9 DEF Ids
<1>13. /\ work' \in [Requests -> Work] /\ work'[r].at = "save" /\ work'[r].session = t
       /\ \A q \in Requests \ {r} : work'[q] = work[q]
  BY <1>8, GotoIs DEF SessionInv, SessionTypeOK, RequestPlaces
<1>14. SavedFits' /\ \A q \in Requests \ {r} : RequestFits(q)'
  BY <1>1, <1>5, <1>9, <1>12, <1>13, StillFit
<1>15. p # None /\ t # None BY SessionAssumption
<1>16. RequestFits(r)'
  <2>1. /\ p.id = n + 1 /\ p.call = call /\ p.index = s.index
        /\ t.plan[t.index + 1] = call
    BY <1>4, <1>6, <1>7 DEF NextCall
  <2> QED
    BY <1>3, <1>7, <1>9, <1>12, <1>13, <1>15, <2>1 DEF RequestFits, Sound, Fits, NextCall, Ended
<1>17. SessionTypeOK'
  BY <1>1, <1>9, <1>10, <1>11, <1>12, <1>13 DEF SessionInv, SessionTypeOK
<1>18. RunsWhatWasGranted'
  BY <1>1, <1>5, <1>9, <1>10, <1>11, <1>12 DEF SessionInv, RunsWhatWasGranted, Trusted
<1>19. GrantsSuffice'
  <2> SUFFICES ASSUME NEW id \in 1..(n + 1)
               PROVE  times'[id] + Cardinality(Carrying(id)') <= granted'[id]
    BY <1>12 DEF GrantsSuffice
  <2>1. CASE id = n + 1
    <3>1. Carrying(id)' = {}
      <4> SUFFICES ASSUME NEW q \in Requests, work'[q].at = "invoke", work'[q].id = n + 1
                   PROVE  FALSE
        BY <2>1 DEF Carrying
      <4>1. q # r /\ work[q].at = "invoke" /\ work[q].id = n + 1 BY <1>13
      <4>2. work[q].id \in Ids BY <4>1 DEF SessionInv, RequestFits, Fits
      <4> QED BY <1>12, <4>1, <4>2
    <3>2. Cardinality(Carrying(id)') = 0 BY <3>1, FS_EmptySet
    <3> QED BY <2>1, <3>2, <1>10, <1>11
  <2>2. CASE id \in 1..n
    <3>1. Carrying(id)' \subseteq Carrying(id) BY <1>1, <1>13 DEF Carrying
    <3>2. times[id] + Cardinality(Carrying(id)) <= granted[id]
      BY <2>2, <1>5 DEF SessionInv, GrantsSuffice
    <3>3. times[id] \in Nat /\ granted[id] \in Nat
      BY <2>2, <1>5 DEF SessionInv, SessionTypeOK
    <3> QED BY <2>2, <1>10, <1>11, <3>1, <3>2, <3>3, CarryingShrinks
  <2> QED BY <2>1, <2>2
<1>20. AskedInTrust' BY <1>1, <1>8, PolicyIs DEF SessionInv, SessionTypeOK, AskedInTrust
<1>21. ApprovalDecidedOnce'
  <2> SUFFICES ASSUME ~disturbed, NEW id \in 1..(n + 1)
               PROVE  times'[id] <= 1 /\ (id \in denied => times'[id] = 0)
    BY <1>1, <1>12 DEF ApprovalDecidedOnce
  <2>1. CASE id = n + 1 BY <2>1, <1>11
  <2>2. CASE id \in 1..n BY <2>2, <1>5, <1>11 DEF SessionInv, ApprovalDecidedOnce
  <2> QED BY <2>1, <2>2
<1>22. ~disturbed => TellsUser(r)'
  <2> SUFFICES ASSUME ~disturbed PROVE TellsUser(r)' OBVIOUS
  <2>1. TellsUser(r) BY <1>1, OnlyOne
  <2>2. Undecided(t)'
    BY <1>1, <1>5, <1>6, <1>7, <1>11, <1>12 DEF Undecided, SessionInv, SessionTypeOK
  <2>3. written \subseteq t.changed /\ answers + 1 <= questions /\ answers \in Nat
    BY <1>1, <1>2, <1>7, <2>1 DEF TellsUser, SessionInv, SessionTypeOK
  <2>4. questions \in Nat /\ answers + Waiting(t) <= questions
    BY <2>3 DEF Waiting, SessionInv, SessionTypeOK
  <2> QED BY <1>1, <1>13, <2>2, <2>3, <2>4 DEF TellsUser, Undecided, Waiting
<1>23. Undisturbed' BY <1>1, <1>13, <1>22, OnlyOne, UndisturbedGoes DEF Ended
<1> QED BY <1>14, <1>16, <1>17, <1>18, <1>19, <1>20, <1>21, <1>23 DEF SessionInv

----------------------------------------------------------------------------
\* An action that the policy allows runs for no approval.
LEMMA RanFreely ==
  ASSUME SessionInv, NEW call, Decision(call) = "allow", CallTool(None, call),
         UNCHANGED <<trust, asked, granted>>
  PROVE  RunsWhatWasGranted' /\ times' = times
<1>1. times' = times /\ ran' = ran \cup {[by |-> None, call |-> call]} BY DEF CallTool
<1>2. Trusted(call) BY PolicyIs DEF SessionInv, SessionTypeOK
<1>3. ASSUME NEW n \in ran'
      PROVE  \/ n.by = None /\ Trusted(n.call)'
             \/ /\ n.by \in Ids' /\ trust' = "ask" /\ asked'[n.by] = n.call
                /\ times'[n.by] <= granted'[n.by]
  <2>1. CASE n \in ran BY <1>1, <2>1 DEF SessionInv, RunsWhatWasGranted, Ids, Trusted
  <2>2. CASE n = [by |-> None, call |-> call] BY <1>2, <2>2 DEF Trusted
  <2> QED BY <1>1, <1>3, <2>1, <2>2
<1> QED BY <1>1, <1>3 DEF RunsWhatWasGranted

LEMMA ActKeeps ==
  ASSUME SessionInv, NEW r \in Requests, Act(r)
  PROVE  SessionInv'
<1>1. work[r].at = "act" /\ work[r].at \notin Ended /\ UNCHANGED files
  BY DEF Act, AtAction, Ended
<1>2. UNCHANGED <<trust, saved, report, questions, answers, asked, granted, denied>>
  BY <1>1 DEF files
<1>3. PICK s \in SessionRecords : s = work[r].session
  BY <1>1 DEF SessionInv, SessionTypeOK, Work, RequestFits
<1>4. s.pending = None /\ s.index < Len(s.plan)
  BY <1>1, <1>3 DEF SessionInv, RequestFits, Act, AtAction
<1>5. PICK call \in PlannedCalls : call = NextCall(s) BY <1>4, NextCallIs
<1>6. Decision(call) = "allow" BY <1>3, <1>5 DEF Act
<1>7. SavedFits' BY <1>2 DEF SessionInv, SavedFits, Sound, Fits, Ids, NextCall
<1>8. ASSUME CallTool(None, call), ToolSucceeds(call), UNCHANGED disturbed,
             Goto(r, "act", [s EXCEPT !.changed = Changed(s, call), !.index = s.index + 1])
      PROVE  SessionInv'
  <2> DEFINE one == [s EXCEPT !.changed = Changed(s, call)]
             t == [one EXCEPT !.index = s.index + 1]
  <2>1. Changed(s, call) \in SUBSET {c.path : c \in PlannedCalls}
    BY DEF Changed, SessionRecords
  <2>2. /\ one \in SessionRecords /\ one.plan = s.plan /\ one.pending = None
        /\ one.changed = Changed(s, call)
    BY <1>4, <2>1 DEF SessionRecords
  <2>3. Goto(r, "act", t) BY <1>8
  <2> HIDE DEF one
  <2>4. /\ t \in SessionRecords /\ t.plan = s.plan /\ t.index = s.index + 1
        /\ t.pending = None /\ t.changed = Changed(s, call)
    BY <2>2 DEF SessionRecords
  <2> HIDE DEF t
  <2>5. t.index <= Len(t.plan) BY <1>4, <2>4, SessionAssumption DEF SessionRecords
  <2>6. ~disturbed /\ TellsUser(r) => /\ written' \subseteq t.changed /\ Undecided(t)
                                 /\ answers' + 1 <= questions
    BY <1>1, <1>2, <1>3, <1>8, <2>4 DEF TellsUser, Undecided, ToolSucceeds, Changed
  <2>7. RunsWhatWasGranted' /\ times' = times BY <1>2, <1>6, <1>8, RanFreely
  <2> QED
    BY <1>1, <1>2, <1>7, <1>8, <2>3, <2>4, <2>5, <2>6, <2>7, TurnGoes DEF SessionInv, SessionTypeOK
<1>9. ASSUME ToolFails(None, call), Goto(r, "save", [s EXCEPT !.status = "blocked"])
      PROVE  SessionInv'
  <2>0. /\ CallTool(None, call) /\ disturbed' \in BOOLEAN /\ (disturbed => disturbed')
        /\ ~disturbed' => written' = written
    <3>1. disturbed \in BOOLEAN BY DEF SessionInv, SessionTypeOK
    <3>2. CASE UNCHANGED <<written, disturbed>> BY <1>9, <3>1, <3>2 DEF ToolFails
    <3>3. CASE disturbed' = TRUE BY <1>9, <3>3 DEF ToolFails
    <3> QED BY <1>9, <3>2, <3>3 DEF ToolFails
  <2>1. PICK t \in SessionRecords :
          /\ t = [s EXCEPT !.status = "blocked"] /\ t.status = "blocked"
          /\ t.pending = s.pending /\ t.changed = s.changed
    BY StatusIs DEF Statuses
  <2>2. Sound(t) BY <1>4, <2>1 DEF Sound, Fits
  <2>3. ~disturbed' /\ ~disturbed /\ TellsUser(r) =>
           written' \subseteq t.changed /\ Undecided(t) /\ answers' + Waiting(t) <= questions
    BY <1>1, <1>2, <1>3, <1>4, <2>0, <2>1
       DEF TellsUser, Undecided, Waiting, SessionInv, SessionTypeOK
  <2>4. Goto(r, "save", t) BY <1>9, <2>1
  <2>5. RunsWhatWasGranted' /\ times' = times BY <1>2, <1>6, <2>0, RanFreely
  <2> QED
    BY <1>1, <1>2, <1>7, <2>0, <2>2, <2>3, <2>4, <2>5, TurnGoes DEF SessionInv, SessionTypeOK
<1>10. ASSUME ToolRaises(r, None, call)
       PROVE  SessionInv'
  <2>1. CallTool(None, call) /\ End(r, "raised") /\ disturbed' = TRUE
    BY <1>10 DEF ToolRaises
  <2>2. /\ work' \in [Requests -> Work] /\ work'[r].at = "raised"
        /\ \A q \in Requests \ {r} : work'[q] = work[q]
    BY <2>1, EndIs DEF SessionInv, SessionTypeOK, Ended
  <2>3. RunsWhatWasGranted' /\ times' = times BY <1>2, <1>6, <2>1, RanFreely
  <2>4. Undisturbed' /\ RequestFits(r)'
    BY <2>1, <2>2 DEF Undisturbed, RequestFits, Ended
  <2> QED BY <1>2, <1>7, <2>1, <2>2, <2>3, <2>4, QuietMove DEF SessionInv, SessionTypeOK
<1> QED BY <1>3, <1>5, <1>8, <1>9, <1>10 DEF Act

----------------------------------------------------------------------------
\* The call of an approval runs: it was asked for and granted, once more than
\* it has run.
LEMMA RanGranted ==
  ASSUME SessionInv, NEW r \in Requests, work[r].at = "invoke",
         NEW id, id = work[r].id, NEW s \in SessionRecords, s = work[r].session,
         CallTool(id, s.pending.call),
         \A q \in Requests \ {r} : work'[q] = work[q], work'[r].at # "invoke",
         UNCHANGED <<trust, asked, granted, denied>>, disturbed => disturbed',
         disturbed' \in BOOLEAN
  PROVE  /\ times' \in Seq(Nat) /\ Len(times') = Len(times)
         /\ RunsWhatWasGranted' /\ GrantsSuffice' /\ ApprovalDecidedOnce'
<1>1. /\ id \in Ids /\ asked[id] = s.pending.call /\ s.pending # None /\ id = s.pending.id
      /\ id # None
  BY SessionAssumption DEF SessionInv, RequestFits, Fits, Ids
<1>2. PICK call : call = s.pending.call OBVIOUS
<1>3. /\ ran' = ran \cup {[by |-> id, call |-> call]}
      /\ times' = [times EXCEPT ![id] = times[id] + 1]
  BY <1>1, <1>2 DEF CallTool
<1>4. PICK n \in Nat : n = Len(asked) BY DEF SessionInv, SessionTypeOK
<1>5. /\ Ids = 1..n /\ Ids' = 1..n /\ id \in 1..n /\ n = Len(times)
      /\ times \in Seq(Nat) /\ granted \in Seq(Nat) /\ n = Len(granted)
  BY <1>1, <1>4 DEF SessionInv, SessionTypeOK, Ids
<1>6. \A i \in 1..n : times[i] \in Nat /\ granted[i] \in Nat
  <2>1. \A i \in 1..n : times[i] \in Nat BY <1>5, ElementOfSeq
  <2>2. \A i \in 1..n : granted[i] \in Nat BY <1>5, ElementOfSeq
  <2> QED BY <2>1, <2>2
<1>7. PICK u \in Nat : u = times[id] + 1 BY <1>5, <1>6
<1>8. /\ times' \in Seq(Nat) /\ Len(times') = n /\ times'[id] = u
      /\ \A i \in 1..n : i # id => times'[i] = times[i]
  <2>1. /\ [times EXCEPT ![id] = u] \in Seq(Nat) /\ Len([times EXCEPT ![id] = u]) = Len(times)
        /\ \A i \in 1..Len(times) :
             [times EXCEPT ![id] = u][i] = IF i = id THEN u ELSE times[i]
    <3>1. times \in Seq(Nat) /\ id \in 1..Len(times) BY <1>5
    <3> QED BY <3>1, ExceptSeq
  <2> QED BY <1>3, <1>5, <1>7, <2>1
<1>9. /\ r \in Carrying(id) /\ Carrying(id)' = Carrying(id) \ {r}
      /\ \A i \in 1..n : Carrying(i)' \subseteq Carrying(i)
  BY DEF Carrying
<1>10. PICK k \in Nat, c \in Nat : /\ k = Cardinality(Carrying(id))
                                   /\ c = Cardinality(Carrying(id)') /\ c + 1 = k
  <2>1. IsFiniteSet(Carrying(id)) BY SessionAssumption, FS_Subset DEF Carrying
  <2> QED BY <1>9, <2>1, FS_RemoveElement, FS_CardinalityType, FS_Subset
<1>11. \A i \in 1..n : times[i] + Cardinality(Carrying(i)) <= granted[i]
  BY <1>5 DEF SessionInv, GrantsSuffice
<1>12. u + c <= granted[id] /\ u <= granted[id] /\ times[id] <= granted[id]
  <2>1. times[id] + k <= granted[id] BY <1>5, <1>10, <1>11
  <2>2. times[id] \in Nat /\ granted[id] \in Nat BY <1>5, <1>6
  <2> QED BY <1>7, <1>10, <2>1, <2>2
<1>13. GrantsSuffice'
  <2> SUFFICES ASSUME NEW i \in 1..n
               PROVE  times'[i] + Cardinality(Carrying(i)') <= granted[i]
    BY <1>5 DEF GrantsSuffice
  <2>1. CASE i = id BY <2>1, <1>8, <1>10, <1>12
  <2>2. CASE i # id
    <3>1. times'[i] = times[i] /\ times[i] \in Nat /\ granted[i] \in Nat
      BY <2>2, <1>6, <1>8
    <3>2. PICK k1 \in Nat, c1 \in Nat : /\ k1 = Cardinality(Carrying(i))
                                        /\ c1 = Cardinality(Carrying(i)') /\ c1 <= k1
      BY <1>9, CarryingShrinks
    <3>3. times[i] + k1 <= granted[i] BY <3>2, <1>11
    <3> QED BY <3>1, <3>2, <3>3
  <2> QED BY <2>1, <2>2
<1>14. RunsWhatWasGranted'
  <2> SUFFICES ASSUME NEW m \in ran'
               PROVE  \/ m.by = None /\ Trusted(m.call)'
                      \/ /\ m.by \in Ids' /\ trust' = "ask" /\ asked'[m.by] = m.call
                         /\ times'[m.by] <= granted'[m.by]
    BY DEF RunsWhatWasGranted
  <2>1. CASE m \in ran
    <3>1. \/ m.by = None /\ Trusted(m.call)
          \/ /\ m.by \in Ids /\ trust = "ask" /\ asked[m.by] = m.call
             /\ times[m.by] <= granted[m.by]
      BY <2>1 DEF SessionInv, RunsWhatWasGranted
    <3> QED BY <3>1, <1>5, <1>8, <1>12 DEF Trusted
  <2>2. CASE m = [by |-> id, call |-> call]
    <3>1. trust = "ask" BY <1>1, <1>4, <1>5 DEF SessionInv, AskedInTrust, SessionTypeOK
    <3> QED BY <2>2, <3>1, <1>1, <1>2, <1>5, <1>8, <1>12
  <2> QED BY <1>3, <2>1, <2>2
<1>15. ApprovalDecidedOnce'
  <2> SUFFICES ASSUME ~disturbed', NEW i \in 1..n
               PROVE  times'[i] <= 1 /\ (i \in denied => times'[i] = 0)
    BY <1>5 DEF ApprovalDecidedOnce
  <2>1. ~disturbed /\ TellsUser(r) BY OnlyOne DEF Ended, SessionInv, SessionTypeOK
  <2>2. times[id] = 0 /\ id \notin denied BY <1>1, <2>1 DEF TellsUser, Undecided
  <2>3. CASE i = id BY <2>2, <2>3, <1>7, <1>8
  <2>4. CASE i # id BY <2>1, <2>4, <1>5, <1>8 DEF SessionInv, ApprovalDecidedOnce
  <2> QED BY <2>3, <2>4
<1> QED BY <1>5, <1>8, <1>13, <1>14, <1>15

\* A request uses its grant and goes on with t, or ends.
LEMMA GrantedGoes ==
  ASSUME SessionInv, NEW r \in Requests, work[r].at = "invoke",
         NEW s \in SessionRecords, s = work[r].session,
         CallTool(work[r].id, s.pending.call), work' \in [Requests -> Work],
         \A q \in Requests \ {r} : work'[q] = work[q], work'[r].at # "invoke",
         UNCHANGED files, disturbed => disturbed', disturbed' \in BOOLEAN,
         RequestFits(r)', Undisturbed'
  PROVE  SessionInv'
<1>1. UNCHANGED <<trust, saved, report, questions, answers, asked, granted, denied>>
  BY DEF files
<1>2. /\ times' \in Seq(Nat) /\ Len(times') = Len(times)
      /\ RunsWhatWasGranted' /\ GrantsSuffice' /\ ApprovalDecidedOnce'
  <2>1. PICK id : id = work[r].id OBVIOUS
  <2> QED BY <1>1, <2>1, RanGranted
<1>3. SavedFits' /\ \A q \in Requests \ {r} : RequestFits(q)' BY <1>1, StillFit DEF Ids
<1>4. SessionTypeOK' /\ AskedInTrust'
  BY <1>1, <1>2 DEF SessionInv, SessionTypeOK, AskedInTrust, Ids
<1> QED BY <1>2, <1>3, <1>4 DEF SessionInv

LEMMA InvokeGrantedKeeps ==
  ASSUME SessionInv, NEW r \in Requests, InvokeGranted(r)
  PROVE  SessionInv'
<1>1. work[r].at = "invoke" /\ work[r].at \notin Ended /\ UNCHANGED files
  BY DEF InvokeGranted, Ended
<1>2. UNCHANGED <<trust, saved, report, questions, answers, asked, granted, denied>>
  BY <1>1 DEF files
<1>3. PICK s \in SessionRecords : s = work[r].session
  BY <1>1 DEF SessionInv, SessionTypeOK, Work, RequestFits
<1>4. /\ s.pending # None /\ s.pending.index = s.index /\ s.index < Len(s.plan)
      /\ s.pending \in PendingRecords /\ s.pending.call \in PlannedCalls
  BY <1>1, <1>3 DEF SessionInv, RequestFits, Fits, SessionRecords, PendingRecords
<1>5. PICK call \in PlannedCalls : call = s.pending.call BY <1>4
<1>6. PICK paths \in SUBSET {c.path : c \in PlannedCalls} :
        /\ paths = ApprovedPath(s, call) /\ s.changed \subseteq paths
        /\ Writes(call) => call.path \in paths
  <2>1. ApprovedPath(s, call) \in SUBSET {c.path : c \in PlannedCalls}
    BY DEF ApprovedPath, SessionRecords
  <2>2. Writes(call) => call.tool = "filesystem" BY SessionAssumption DEF Writes
  <2> QED BY <2>1, <2>2 DEF ApprovedPath
<1>7. ASSUME CallTool(work[r].id, call), ToolSucceeds(call), UNCHANGED disturbed,
             Goto(r, "act", Approved(s))
      PROVE  SessionInv'
  <2> DEFINE one == PendingWith(s, "running", None)
             two == [one EXCEPT !.index = s.pending.index + 1]
             t == [two EXCEPT !.changed = paths]
  <2>1. "running" \in Statuses /\ None \in PendingRecords \cup {None} BY DEF Statuses
  <2>2. /\ one \in SessionRecords /\ one.plan = s.plan /\ one.pending = None
    BY <2>1, PendingIs
  <2>3. Approved(s) = t BY <1>5, <1>6 DEF Approved, PendingWith
  <2> HIDE DEF one
  <2>4. /\ two \in SessionRecords /\ two.plan = s.plan /\ two.pending = None
        /\ two.index = s.index + 1
    BY <1>4, <2>2 DEF SessionRecords
  <2> HIDE DEF two
  <2>5. /\ t \in SessionRecords /\ t.plan = s.plan /\ t.pending = None
        /\ t.index = s.index + 1 /\ t.changed = paths
    BY <2>4 DEF SessionRecords
  <2> HIDE DEF t
  <2>6. Goto(r, "act", t) BY <1>7, <2>3
  <2>7. /\ work' \in [Requests -> Work] /\ work'[r].at = "act" /\ work'[r].session = t
        /\ \A q \in Requests \ {r} : work'[q] = work[q]
    BY <2>5, <2>6, GotoIs DEF SessionInv, SessionTypeOK, RequestPlaces
  <2>8. RequestFits(r)'
    <3>1. t # None /\ t.index <= Len(t.plan)
      BY <1>4, <2>5, SessionAssumption DEF SessionRecords
    <3> QED BY <2>5, <2>7, <3>1 DEF RequestFits, Ended
  <2>9. ~disturbed => TellsUser(r)'
    <3> SUFFICES ASSUME ~disturbed PROVE TellsUser(r)' OBVIOUS
    <3>1. TellsUser(r) BY <1>1, OnlyOne
    <3>2. written' \subseteq paths BY <1>3, <1>6, <1>7, <3>1 DEF TellsUser, ToolSucceeds
    <3> QED BY <1>1, <1>2, <2>5, <2>7, <3>1, <3>2 DEF TellsUser, Undecided
  <2>10. Undisturbed' BY <1>1, <1>7, <2>7, <2>9, OnlyOne, UndisturbedGoes DEF Ended
  <2> QED
    BY <1>1, <1>3, <1>5, <1>7, <2>7, <2>8, <2>10, GrantedGoes DEF SessionInv, SessionTypeOK
<1>8. ASSUME ToolFails(work[r].id, call), Goto(r, "save", PendingWith(s, "blocked", None))
      PROVE  SessionInv'
  <2>0. /\ CallTool(work[r].id, call) /\ disturbed' \in BOOLEAN /\ (disturbed => disturbed')
        /\ ~disturbed' => written' = written
    <3>1. disturbed \in BOOLEAN BY DEF SessionInv, SessionTypeOK
    <3>2. CASE UNCHANGED <<written, disturbed>> BY <1>8, <3>1, <3>2 DEF ToolFails
    <3>3. CASE disturbed' = TRUE BY <1>8, <3>3 DEF ToolFails
    <3> QED BY <1>8, <3>2, <3>3 DEF ToolFails
  <2>1. PICK t \in SessionRecords :
          /\ t = PendingWith(s, "blocked", None)
          /\ t.status = "blocked" /\ t.pending = None /\ t.changed = s.changed
    <3>1. "blocked" \in Statuses /\ None \in PendingRecords \cup {None} BY DEF Statuses
    <3> QED BY <3>1, PendingIs
  <2>2. Goto(r, "save", t) BY <1>8, <2>1
  <2>3. /\ work' \in [Requests -> Work] /\ work'[r].at = "save" /\ work'[r].session = t
        /\ \A q \in Requests \ {r} : work'[q] = work[q]
    BY <2>2, GotoIs DEF SessionInv, SessionTypeOK, RequestPlaces
  <2>4. RequestFits(r)'
    <3>1. t # None BY SessionAssumption
    <3> QED BY <2>1, <2>3, <3>1 DEF RequestFits, Sound, Fits, Ended
  <2>5. ~disturbed' => TellsUser(r)'
    <3> SUFFICES ASSUME ~disturbed' PROVE TellsUser(r)' OBVIOUS
    <3>1. TellsUser(r) /\ answers \in Nat /\ questions \in Nat
      BY <1>1, <2>0, OnlyOne DEF SessionInv, SessionTypeOK
    <3> QED
      BY <1>1, <1>2, <1>3, <2>0, <2>1, <2>3, <3>1 DEF TellsUser, Undecided, Waiting
  <2>6. Undisturbed' BY <1>1, <2>0, <2>3, <2>5, OnlyOne, UndisturbedGoes DEF Ended
  <2> QED
    BY <1>1, <1>3, <1>5, <2>0, <2>3, <2>4, <2>6, GrantedGoes DEF SessionInv, SessionTypeOK
<1>9. ASSUME ToolRaises(r, work[r].id, call)
      PROVE  SessionInv'
  <2>1. CallTool(work[r].id, call) /\ End(r, "raised") /\ disturbed' = TRUE
    BY <1>9 DEF ToolRaises
  <2>2. /\ work' \in [Requests -> Work] /\ work'[r].at = "raised"
        /\ \A q \in Requests \ {r} : work'[q] = work[q]
    BY <2>1, EndIs DEF SessionInv, SessionTypeOK, Ended
  <2>3. Undisturbed' /\ RequestFits(r)'
    BY <2>1, <2>2 DEF Undisturbed, RequestFits, Ended
  <2> QED BY <1>1, <1>3, <1>5, <2>1, <2>2, <2>3, GrantedGoes
<1> QED BY <1>3, <1>5, <1>7, <1>8, <1>9 DEF InvokeGranted, PendingWith

----------------------------------------------------------------------------
\* A granted approval: a grant more, and a request that carries it.
LEMMA GrantKeeps ==
  ASSUME SessionInv, NEW r \in Requests, work[r].at = "new", NEW id \in Ids,
         saved # None, IsPending(saved, id),
         granted' = [granted EXCEPT ![id] = granted[id] + 1],
         work' = [work EXCEPT ![r] = [at |-> "invoke", id |-> id, session |-> saved]],
         Overlap(r),
         UNCHANGED <<trust, saved, report, questions, answers, asked, denied, ran, times, written>>
  PROVE  SessionInv'
<1>1. disturbed' \in BOOLEAN /\ (disturbed => disturbed')
  BY DEF Overlap, SessionInv, SessionTypeOK
<1>2. saved \in SessionRecords /\ Sound(saved) /\ saved.pending # None /\ saved.pending.id = id
  BY DEF SessionInv, SessionTypeOK, SavedFits, IsPending
<1>3. /\ work' \in [Requests -> Work]
      /\ work'[r].at = "invoke" /\ work'[r].id = id /\ work'[r].session = saved
      /\ \A q \in Requests \ {r} : work'[q] = work[q]
  <2>1. [at |-> "invoke", id |-> id, session |-> saved] \in Work
    BY <1>2 DEF Work, RequestPlaces, Ids
  <2> QED BY <2>1 DEF SessionInv, SessionTypeOK
<1>4. PICK n \in Nat : n = Len(asked) BY DEF SessionInv, SessionTypeOK
<1>5. /\ Ids = 1..n /\ Ids' = 1..n /\ id \in 1..n /\ n = Len(times)
      /\ times \in Seq(Nat) /\ granted \in Seq(Nat) /\ n = Len(granted)
  BY <1>4 DEF SessionInv, SessionTypeOK, Ids
<1>6. \A i \in 1..n : times[i] \in Nat /\ granted[i] \in Nat
  <2>1. \A i \in 1..n : times[i] \in Nat BY <1>5, ElementOfSeq
  <2>2. \A i \in 1..n : granted[i] \in Nat BY <1>5, ElementOfSeq
  <2> QED BY <2>1, <2>2
<1>7. PICK u \in Nat : u = granted[id] + 1 BY <1>5, <1>6
<1>8. /\ granted' \in Seq(Nat) /\ Len(granted') = n /\ granted'[id] = u
      /\ \A i \in 1..n : i # id => granted'[i] = granted[i]
  <2>1. /\ [granted EXCEPT ![id] = u] \in Seq(Nat)
        /\ Len([granted EXCEPT ![id] = u]) = Len(granted)
        /\ \A i \in 1..Len(granted) :
             [granted EXCEPT ![id] = u][i] = IF i = id THEN u ELSE granted[i]
    <3>1. granted \in Seq(Nat) /\ id \in 1..Len(granted) BY <1>5
    <3> QED BY <3>1, ExceptSeq
  <2> QED BY <1>5, <1>7, <2>1
<1>9. SessionTypeOK' BY <1>1, <1>3, <1>5, <1>8 DEF SessionInv, SessionTypeOK
<1>10. SavedFits' /\ \A q \in Requests \ {r} : RequestFits(q)' BY <1>3, StillFit DEF Ids
<1>11. RequestFits(r)' BY <1>2, <1>3 DEF RequestFits, Sound, Fits, Ids, NextCall, Ended
<1>12. /\ r \notin Carrying(id) /\ Carrying(id)' = Carrying(id) \cup {r}
       /\ \A i \in 1..n : i # id => Carrying(i)' \subseteq Carrying(i)
  BY <1>3 DEF Carrying
<1>13. \A i \in 1..n : times[i] + Cardinality(Carrying(i)) <= granted[i]
  BY <1>5 DEF SessionInv, GrantsSuffice
<1>14. GrantsSuffice'
  <2> SUFFICES ASSUME NEW i \in 1..n
               PROVE  times[i] + Cardinality(Carrying(i)') <= granted'[i]
    BY <1>5 DEF GrantsSuffice
  <2>1. CASE i = id
    <3>1. PICK k \in Nat : k = Cardinality(Carrying(id)) /\ Cardinality(Carrying(id)') = k + 1
      <4>1. IsFiniteSet(Carrying(id)) BY SessionAssumption, FS_Subset DEF Carrying
      <4>2. Cardinality(Carrying(id)) \in Nat BY <4>1, FS_CardinalityType
      <4>3. Cardinality(Carrying(id) \cup {r}) = Cardinality(Carrying(id)) + 1
        BY <1>12, <4>1, FS_AddElement
      <4> QED BY <1>12, <4>2, <4>3
    <3>2. times[id] \in Nat /\ granted[id] \in Nat /\ times[id] + k <= granted[id]
      BY <1>5, <1>6, <1>13, <3>1
    <3> QED BY <1>7, <1>8, <2>1, <3>1, <3>2
  <2>2. CASE i # id
    <3>1. granted'[i] = granted[i] /\ times[i] \in Nat /\ granted[i] \in Nat
      BY <2>2, <1>6, <1>8
    <3>2. PICK k1 \in Nat, c1 \in Nat : /\ k1 = Cardinality(Carrying(i))
                                        /\ c1 = Cardinality(Carrying(i)') /\ c1 <= k1
      BY <2>2, <1>12, CarryingShrinks
    <3>3. times[i] + k1 <= granted[i] BY <3>2, <1>13
    <3> QED BY <3>1, <3>2, <3>3
  <2> QED BY <2>1, <2>2
<1>15. \A i \in 1..n : granted[i] <= granted'[i]
  <2> SUFFICES ASSUME NEW i \in 1..n PROVE granted[i] <= granted'[i] OBVIOUS
  <2>1. granted[i] \in Nat BY <1>6
  <2> QED BY <2>1, <1>7, <1>8
<1>16. RunsWhatWasGranted' /\ AskedInTrust'
  <2>1. SUFFICES ASSUME NEW m \in ran
                 PROVE  \/ m.by = None /\ Trusted(m.call)'
                        \/ /\ m.by \in Ids' /\ trust' = "ask" /\ asked'[m.by] = m.call
                           /\ times'[m.by] <= granted'[m.by]
    BY DEF SessionInv, RunsWhatWasGranted, AskedInTrust
  <2>2. \/ m.by = None /\ Trusted(m.call)
        \/ /\ m.by \in Ids /\ trust = "ask" /\ asked[m.by] = m.call
           /\ times[m.by] <= granted[m.by]
    BY DEF SessionInv, RunsWhatWasGranted
  <2>3. ASSUME m.by \in 1..n, times[m.by] <= granted[m.by] PROVE times[m.by] <= granted'[m.by]
    <3>1. times[m.by] \in Nat /\ granted[m.by] \in Nat /\ granted[m.by] <= granted'[m.by]
      BY <1>6, <1>15, <2>3
    <3>2. granted'[m.by] \in Nat BY <1>8, <2>3, ElementOfSeq
    <3> QED BY <2>3, <3>1, <3>2
  <2> QED BY <1>5, <2>2, <2>3 DEF Trusted
<1>17. ApprovalDecidedOnce' BY <1>1, <1>5 DEF SessionInv, ApprovalDecidedOnce
<1>18. ~disturbed' => ~disturbed /\ Active = {} /\ SavedTells BY BeginsAlone
<1>19. ~disturbed' => TellsUser(r)'
  BY <1>2, <1>3, <1>18 DEF TellsUser, SavedTells, Undecided, Waiting
<1>20. Undisturbed' BY <1>3, <1>18, <1>19, UndisturbedGoes DEF Ended
<1> QED BY <1>9, <1>10, <1>11, <1>14, <1>16, <1>17, <1>20 DEF SessionInv

\* A denied approval: it is taken out of the session.
LEMMA DenyKeeps ==
  ASSUME SessionInv, NEW r \in Requests, work[r].at = "new", NEW id \in Ids,
         saved # None, IsPending(saved, id), denied' = denied \cup {id},
         work' = [work EXCEPT ![r] = [at |-> "save", id |-> id,
                                      session |-> PendingWith(saved, "blocked", None)]],
         Overlap(r),
         UNCHANGED <<trust, saved, report, questions, answers, asked, granted, ran, times, written>>
  PROVE  SessionInv'
<1>1. disturbed' \in BOOLEAN /\ (disturbed => disturbed')
  BY DEF Overlap, SessionInv, SessionTypeOK
<1>2. saved \in SessionRecords /\ saved.pending # None /\ saved.pending.id = id
  BY DEF SessionInv, SessionTypeOK, IsPending
<1>3. PICK t \in SessionRecords :
        /\ t = PendingWith(saved, "blocked", None)
        /\ t.status = "blocked" /\ t.pending = None /\ t.changed = saved.changed
  <2>1. "blocked" \in Statuses /\ None \in PendingRecords \cup {None} BY DEF Statuses
  <2> QED BY <1>2, <2>1, PendingIs
<1>4. /\ work' \in [Requests -> Work]
      /\ work'[r].at = "save" /\ work'[r].session = t
      /\ \A q \in Requests \ {r} : work'[q] = work[q]
  <2>1. [at |-> "save", id |-> id, session |-> t] \in Work
    BY DEF Work, RequestPlaces, Ids
  <2>2. work' = [work EXCEPT ![r] = [at |-> "save", id |-> id, session |-> t]] BY <1>3
  <2> QED BY <2>1, <2>2 DEF SessionInv, SessionTypeOK
<1>5. SessionTypeOK' BY <1>1, <1>4 DEF SessionInv, SessionTypeOK, Ids
<1>6. SavedFits' /\ \A q \in Requests \ {r} : RequestFits(q)' BY <1>4, StillFit DEF Ids
<1>7. RequestFits(r)'
  <2>1. t # None BY SessionAssumption
  <2> QED BY <1>3, <1>4, <2>1 DEF RequestFits, Sound, Fits, Ended
<1>8. GrantsSuffice'
  <2> SUFFICES ASSUME NEW i \in Ids
               PROVE  times[i] + Cardinality(Carrying(i)') <= granted[i]
    BY DEF GrantsSuffice, Ids
  <2>1. Carrying(i)' \subseteq Carrying(i) BY <1>4 DEF Carrying
  <2>2. times[i] \in Nat /\ granted[i] \in Nat BY DEF SessionInv, SessionTypeOK, Ids
  <2>3. times[i] + Cardinality(Carrying(i)) <= granted[i]
    BY DEF SessionInv, GrantsSuffice
  <2> QED BY <2>1, <2>2, <2>3, CarryingShrinks
<1>9. RunsWhatWasGranted' /\ AskedInTrust'
  BY DEF SessionInv, RunsWhatWasGranted, AskedInTrust, Ids, Trusted
<1>10. ~disturbed' => ~disturbed /\ Active = {} /\ SavedTells BY BeginsAlone
<1>11. ApprovalDecidedOnce'
  <2> SUFFICES ASSUME ~disturbed', NEW i \in Ids
               PROVE  times[i] <= 1 /\ (i \in denied \cup {id} => times[i] = 0)
    BY DEF ApprovalDecidedOnce, Ids
  <2>1. times[id] = 0 BY <1>2, <1>10 DEF SavedTells, Undecided
  <2>2. times[i] <= 1 /\ (i \in denied => times[i] = 0)
    BY <1>10 DEF SessionInv, ApprovalDecidedOnce
  <2> QED BY <2>1, <2>2
<1>12. ~disturbed' => TellsUser(r)'
  <2> SUFFICES ASSUME ~disturbed' PROVE TellsUser(r)' OBVIOUS
  <2>1. answers \in Nat /\ questions \in Nat /\ answers + 1 <= questions /\ written \subseteq saved.changed
    BY <1>2, <1>10 DEF SessionInv, SessionTypeOK, SavedTells, Waiting
  <2> QED BY <1>3, <1>4, <2>1 DEF TellsUser, Undecided, Waiting
<1>13. Undisturbed' BY <1>4, <1>10, <1>12, UndisturbedGoes DEF Ended
<1> QED BY <1>5, <1>6, <1>7, <1>8, <1>9, <1>11, <1>13 DEF SessionInv

\* A decision on an approval that does not wait is refused.
LEMMA RefusedDecisionKeeps ==
  ASSUME SessionInv, NEW r \in Requests, End(r, "refused"), Overlap(r),
         UNCHANGED <<trust, saved, report, questions, answers, asked, granted, denied, ran,
                     times, written>>
  PROVE  SessionInv'
<1>1. disturbed' \in BOOLEAN /\ (disturbed => disturbed')
  BY DEF Overlap, SessionInv, SessionTypeOK
<1>2. /\ work' \in [Requests -> Work] /\ work'[r].at = "refused"
      /\ \A q \in Requests \ {r} : work'[q] = work[q]
  BY EndIs DEF SessionInv, SessionTypeOK, Ended
<1>3. ~disturbed' => ~disturbed /\ Active = {} /\ SavedTells BY BeginsAlone
<1>4. ~disturbed' => SavedTells' BY <1>3 DEF SavedTells, Undecided
<1>5. Undisturbed' BY <1>2, <1>3, <1>4, UndisturbedGoes DEF Ended
<1>6. SavedFits' /\ RequestFits(r)'
  BY <1>2 DEF SessionInv, SavedFits, RequestFits, Sound, Fits, Ids, NextCall, Ended
<1> QED BY <1>1, <1>2, <1>5, <1>6, QuietMove DEF SessionInv, SessionTypeOK

LEMMA DecideKeeps ==
  ASSUME SessionInv, NEW r \in Requests, NEW id \in Ids, NEW grant \in BOOLEAN,
         Decide(r, id, grant)
  PROVE  SessionInv'
<1>1. /\ work[r].at = "new" /\ Overlap(r)
      /\ UNCHANGED <<trust, saved, report, questions, answers, asked, ran, times, written>>
  BY DEF Decide
<1>2. CASE saved = None \/ ~IsPending(saved, id)
  BY <1>1, <1>2, RefusedDecisionKeeps DEF Decide
<1>3. CASE ~(saved = None \/ ~IsPending(saved, id))
  <2>1. ASSUME granted' = [granted EXCEPT ![id] = granted[id] + 1],
               work' = [work EXCEPT ![r] = [at |-> "invoke", id |-> id, session |-> saved]],
               UNCHANGED denied
        PROVE  SessionInv'
    BY <1>1, <1>3, <2>1, GrantKeeps
  <2>2. ASSUME denied' = denied \cup {id},
               work' = [work EXCEPT ![r] = [at |-> "save", id |-> id,
                                            session |-> PendingWith(saved, "blocked", None)]],
               UNCHANGED granted
        PROVE  SessionInv'
    BY <1>1, <1>3, <2>2, DenyKeeps
  <2> QED BY <1>3, <2>1, <2>2 DEF Decide, Denied, PendingWith
<1> QED BY <1>2, <1>3

LEMMA SessionInvNext == SessionInv /\ [SessionNext]_sessionVars => SessionInv'
<1> SUFFICES ASSUME SessionInv, [SessionNext]_sessionVars PROVE SessionInv' OBVIOUS
<1>1. CASE UNCHANGED sessionVars
  BY <1>1 DEF sessionVars, files, SessionInv, SessionTypeOK, SavedFits, RequestFits, Sound, Fits,
              RunsWhatWasGranted, GrantsSuffice, AskedInTrust, ApprovalDecidedOnce, Undisturbed,
              SavedTells, TellsUser, Undecided, Carrying, Active, Ids, NextCall, Trusted
<1>2. ASSUME NEW r \in Requests, Post(r) PROVE SessionInv' BY <1>2, PostKeeps
<1>3. ASSUME NEW r \in Requests, NEW id \in Ids, NEW grant \in BOOLEAN, Decide(r, id, grant)
      PROVE  SessionInv'
  BY <1>3, DecideKeeps
<1>4. ASSUME NEW r \in Requests, Turn(r) PROVE SessionInv'
  BY <1>4, PlanKeeps, AskKeeps, RefuseKeeps, ActKeeps, CompleteKeeps, InvokeGrantedKeeps,
     TruncateKeeps, WriteKeeps, WriteReportKeeps DEF Turn
<1>5. ASSUME NEW r \in Requests, Crash(r) PROVE SessionInv' BY <1>5, CrashKeeps
<1> QED BY <1>1, <1>2, <1>3, <1>4, <1>5 DEF SessionNext

\* Whatever requests overlap, die or repeat, tools run what the user trusts or
\* granted, session.json never mixes two sessions, and while requests come one
\* after another and save, an approval is decided once and nothing is untold.
THEOREM SessionKeepsFaith == SessionSpec => []SessionsKeepFaith
<1>1. SessionInv => SessionsKeepFaith BY SessionInvSays
<1> QED BY <1>1, SessionInvInit, SessionInvNext, PTL DEF SessionSpec

----------------------------------------------------------------------------
(* RunReports: what the views say of a run.                                *)

ReportKinds ==
    DrivesWorkflow \cup {"docs_maintenance", "command_assistant", "github_maintenance",
                         "context_maintainer", "plan"}

ReportStages ==
    {"new", "created", "asking", "plan", "steps", "agents", "verdict", "report", "write",
     "markdown", "return", "returned", "raised", "dead", "resumed"}

FileStates ==
    {"none", "torn", "whole", "initiated", "unstated", "completed", "done", "failed",
     "pending_review"}

ReportsTypeOK ==
    /\ reported \in [kind : ReportKinds, caller : {"cli", "executor"}, at : ReportStages,
                     status : FileStates]
    /\ runEvents \subseteq {"context", "initiated", "completed", "failed"}
    /\ runFiles \in [{"json", "md", "plan", "run"} -> FileStates]
    /\ record \in {"none", "running", "completed", "failed"}
    /\ succeeded \in BOOLEAN

Reports(kind) == kind \notin {"workflow", "plan"}

\* What the runtime of a kind may say in its report.
MayState(kind, status, ok) ==
    CASE kind \in {"documents", "file_organization"} ->
             status = "failed" \/ (status = "done" /\ ok)
      [] kind = "research" -> status = "unstated" /\ ok
      [] kind = "docs_maintenance" -> status \in {"failed", "pending_review", "done"}
      [] kind \in {"command_assistant", "github_maintenance"} -> status \in {"failed", "done"}
      [] kind = "context_maintainer" -> status = "unstated"
      [] OTHER -> FALSE

Unwritten == {"none", "torn"}

Unreported == {"new", "created", "asking", "plan", "steps", "agents", "verdict", "report", "write"}

\* The report of the runtime is there, or what it says is known.
ReportTrue ==
    LET kind == reported.kind  json == runFiles.json IN
    /\ reported.at \in Unreported => json \in Unwritten
    /\ json = "torn" => Reports(kind)
    /\ json \notin Unwritten => MayState(kind, json, succeeded)
    /\ runFiles.md # "none" => json \notin Unwritten
    /\ reported.at \in {"report", "write", "markdown"} =>
         MayState(kind, reported.status, succeeded)
    /\ reported.at = "markdown" => json \notin Unwritten
    /\ reported.at \in {"return", "returned"} \/ record = "completed" =>
         (Reports(kind) => json \notin Unwritten)

\* The ledger knows how the steps of a workflow ended.
EventsTrue ==
    /\ reported.at \in {"new", "created", "asking", "plan", "steps", "agents"} =>
         "completed" \notin runEvents /\ "failed" \notin runEvents
    /\ reported.kind \in DrivesWorkflow =>
         /\ "completed" \in runEvents => succeeded
         /\ reported.at = "verdict" => "completed" \in runEvents \/ "failed" \in runEvents
         /\ reported.at \notin {"new", "created", "raised", "dead"} => "initiated" \in runEvents
         /\ runFiles.run # "none" => "initiated" \in runEvents
    /\ reported.kind = "workflow" =>
         (reported.at \in {"return", "returned"} \/ record = "completed" =>
            "completed" \in runEvents \/ "failed" \in runEvents)

\* A plan has no report and no steps, and cannot be resumed.
PlanTrue ==
    /\ reported.kind # "plan" =>
         runFiles.plan = "none" /\ reported.at \notin {"asking", "plan"}
    /\ reported.kind = "plan" =>
         /\ reported.at \notin {"steps", "agents", "verdict", "report", "write", "markdown",
                                "resumed"}
         /\ runEvents \subseteq {"context"} /\ record = "none"
         /\ reported.at \in {"return", "returned"} => runFiles.plan = "whole"

\* The executor's record follows the run.
RecordTrue ==
    /\ reported.at \in {"returned", "resumed", "raised", "dead"} => record # "running"
    /\ reported.at = "returned" => record # "failed"
    /\ Working => record \in {"none", "running"}
    /\ reported.at = "new" =>
         /\ runFiles.json = "none" /\ runFiles.plan = "none" /\ runFiles.run = "none"
         /\ runEvents = {} /\ record = "none"

ReportsInv == ReportsTypeOK /\ ReportTrue /\ EventsTrue /\ PlanTrue /\ RecordTrue

LEMMA ReportsStart == ReportsInit => ReportsInv
<1> SUFFICES ASSUME ReportsInit PROVE ReportsInv OBVIOUS
<1> USE DEF ReportsInit
<1>1. ReportsTypeOK BY DEF ReportsTypeOK, ReportKinds, ReportStages, FileStates
<1>2. ReportTrue /\ EventsTrue BY DEF ReportTrue, EventsTrue, Unwritten, DrivesWorkflow
<1>3. PlanTrue /\ RecordTrue BY DEF PlanTrue, RecordTrue, Working
<1> QED BY <1>1, <1>2, <1>3 DEF ReportsInv

LEMMA ReportsStep == ReportsInv /\ [ReportsNext]_reportVars => ReportsInv'
<1> SUFFICES ASSUME ReportsInv, [ReportsNext]_reportVars PROVE ReportsInv' OBVIOUS
<1> USE DEF ReportsInv, ReportsTypeOK, ReportTrue, EventsTrue, PlanTrue, RecordTrue, ReportKinds,
            ReportStages, FileStates, DrivesWorkflow, Unwritten, Unreported, Reports, MayState,
            At, Continue, WriteFile, Emit, Working
<1>1. ASSUME NEW kind \in RunKinds, NEW caller \in {"cli", "executor"}, CreateRun(kind, caller)
      PROVE  ReportsInv'
  <2>1. /\ kind \in ReportKinds /\ reported.at = "new"
        /\ reported' = [kind |-> kind, caller |-> caller, at |-> "created", status |-> "none"]
        /\ runEvents = {} /\ runEvents' = {} /\ succeeded' = succeeded
        /\ record' \in {"none", "running"} /\ (kind = "plan" => record' = "none")
    BY <1>1, ReportsAssumption DEF CreateRun
  <2>2. /\ runFiles.json = "none" /\ runFiles.md = "none" /\ runFiles.plan = "none"
        /\ runFiles.run = "none"
    BY <2>1
  <2>3. /\ runFiles' \in [{"json", "md", "plan", "run"} -> FileStates]
        /\ runFiles'.json = "none" /\ runFiles'.md = "none" /\ runFiles'.plan = "none"
        /\ kind # "context_maintainer" => runFiles'.run = "none"
    BY <1>1, <2>2 DEF CreateRun
  <2> QED BY <2>1, <2>3
<1>2. CASE EmitContext BY <1>2 DEF EmitContext
<1>3. CASE ResolveContextPack BY <1>3 DEF ResolveContextPack
<1>4. CASE BeginPlan
  <2>1. PICK parsed \in BOOLEAN :
           /\ runFiles' = [runFiles EXCEPT !.run = "unstated",
                                          !.plan = IF parsed THEN "torn" ELSE "none"]
           /\ Continue(IF parsed THEN "plan" ELSE "raised")
    BY <1>4 DEF BeginPlan
  <2>2. /\ reported.at = "asking" /\ runEvents' = runEvents /\ record' = record
        /\ succeeded' = succeeded
    BY <1>4 DEF BeginPlan
  <2>3. /\ runFiles' \in [{"json", "md", "plan", "run"} -> FileStates]
        /\ runFiles'.json = runFiles.json /\ runFiles'.md = runFiles.md
    BY <2>1
  <2>4. /\ reported' \in [kind : ReportKinds, caller : {"cli", "executor"}, at : ReportStages,
                          status : FileStates]
        /\ reported'.at \in {"plan", "raised"} /\ reported'.kind = "plan"
    BY <2>1, <2>2
  <2> QED BY <2>2, <2>3, <2>4
<1>5. CASE EndPlan BY <1>5 DEF EndPlan
<1>6. CASE Initiate BY <1>6 DEF Initiate
<1>7. CASE RunSteps BY <1>7 DEF RunSteps
<1>8. CASE ReportDocuments \/ ReportOrganization
  BY <1>8 DEF ReportDocuments, ReportOrganization, ReportAs, DoneIf
<1>9. CASE ReportResearch BY <1>9 DEF ReportResearch, ReportAs
<1>10. CASE ReportDocsMaintenance BY <1>10 DEF ReportDocsMaintenance, ReportAs
<1>11. CASE ReportCommandAssistant BY <1>11 DEF ReportCommandAssistant, ReportAs, DoneIf
<1>12. CASE ReportGithubMaintenance
  BY <1>12 DEF ReportGithubMaintenance, ReportAs, DoneIf
<1>13. CASE ReportContextMaintainer BY <1>13 DEF ReportContextMaintainer, ReportAs
<1>14. CASE ReturnResults BY <1>14 DEF ReturnResults
<1>15. CASE BeginReport BY <1>15 DEF BeginReport
<1>16. CASE EndReport BY <1>16 DEF EndReport
<1>17. CASE WriteMarkdown BY <1>17 DEF WriteMarkdown
<1>18. CASE Return BY <1>18 DEF Return
<1>19. CASE Raise BY <1>19 DEF Raise
<1>20. CASE DieInRun BY <1>20 DEF DieInRun
<1>21. ASSUME NEW command \in ResumeCommands, Resume(command) PROVE ReportsInv'
  <2>1. /\ reported.at \in {"returned", "raised", "dead"} /\ "initiated" \in runEvents
        /\ UNCHANGED <<runEvents, runFiles, record, succeeded>>
        /\ reported' = reported \/ reported' = [reported EXCEPT !.at = "resumed"]
    BY <1>21 DEF Resume, CanResume
  <2>2. CASE reported' = reported BY <2>1, <2>2
  <2>3. CASE reported' = [reported EXCEPT !.at = "resumed"]
    <3>1. reported.kind # "plan" BY <2>1
    <3> QED BY <2>1, <2>3, <3>1
  <2> QED BY <2>1, <2>2, <2>3
<1>22. CASE RunAgain BY <1>22 DEF RunAgain
<1>23. CASE UNCHANGED reportVars BY <1>23 DEF reportVars
<1> QED
  BY <1>1, <1>2, <1>3, <1>4, <1>5, <1>6, <1>7, <1>8, <1>9, <1>10, <1>11, <1>12, <1>13, <1>14,
     <1>15, <1>16, <1>17, <1>18, <1>19, <1>20, <1>21, <1>22, <1>23 DEF ReportsNext

LEMMA ReportsImply == ReportsInv => ViewsTellTruth
<1> SUFFICES ASSUME ReportsInv PROVE ViewsTellTruth OBVIOUS
<1> USE DEF ReportsInv, ReportsTypeOK, ReportTrue, EventsTrue, PlanTrue, RecordTrue, ReportKinds,
            ReportStages, FileStates, DrivesWorkflow, Unwritten, Unreported, Reports, MayState,
            At, ViewStatus, SummaryStatus, NormalizeStatus, EndpointStatus, Resolves
<1>1. ASSUME reported.kind \in DrivesWorkflow, ~succeeded
      PROVE  /\ ViewStatus # "completed"
             /\ EndpointStatus(Resolves) = "completed" => reported.kind = "workflow"
  <2>1. /\ runFiles.json \in {"none", "torn", "failed"} /\ "completed" \notin runEvents
        /\ runFiles.json = "none" => runFiles.md = "none"
        /\ runFiles.run # "none" => runEvents # {}
    BY <1>1
  <2>2. ViewStatus # "completed" BY <2>1
  <2>3. Resolves \/ record # "completed" \/ reported.kind = "workflow" OBVIOUS
  <2> HIDE DEF ViewStatus, Resolves
  <2> QED BY <2>2, <2>3 DEF EndpointStatus
<1>2. ASSUME reported.at = "returned" \/ record = "completed", reported.kind # "plan"
      PROVE  Told \subseteq {"completed", "failed", "pending_review", "none"}
  <2>1. CASE reported.kind = "workflow"
    <3>1. runFiles.json = "none" /\ runFiles.plan = "none" BY <2>1
    <3>2. "completed" \in runEvents \/ "failed" \in runEvents BY <1>2, <2>1
    <3>3. ViewStatus \in {"completed", "failed"} BY <3>1, <3>2
    <3> QED BY <1>2, <2>1, <3>3 DEF Told
  <2>2. CASE reported.kind # "workflow"
    <3>1. /\ runFiles.json \in {"done", "failed", "unstated", "pending_review"}
          /\ runFiles.plan = "none"
      BY <1>2, <2>2
    <3>2. ViewStatus \in {"completed", "failed", "pending_review"} BY <3>1
    <3>3. record \in {"none", "completed"} BY <1>2
    <3> HIDE DEF ViewStatus
    <3> QED BY <3>2, <3>3 DEF Told
  <2> QED BY <2>1, <2>2
<1>3. ASSUME reported.at = "returned" \/ record = "completed", reported.kind = "plan"
      PROVE  ViewStatus = "planned"
  <2>1. /\ runFiles.json = "none" /\ runFiles.plan = "whole" /\ runFiles.md = "none"
        /\ "completed" \notin runEvents /\ "failed" \notin runEvents
    BY <1>3
  <2> QED BY <2>1
<1> QED BY <1>1, <1>2, <1>3 DEF ViewsTellTruth, CompletedIsTrue, ReturnedIsOver

\* Whatever runtimes drive a run, and however it raises, dies or is resumed,
\* views and endpoints call it completed only if it was, and over when it
\* returned (build_run_summary, build_run_view, run_status_payload).
THEOREM ReportsTellTruth == ReportsSpec => []ViewsTellTruth
BY ReportsStart, ReportsStep, ReportsImply, PTL DEF ReportsSpec

----------------------------------------------------------------------------
(* SnapshotArchive: what verifies was scanned, and is the repository.      *)

SnapshotStages ==
    {"new", "select", "scan", "open", "archive", "read", "empty", "fill", "refused", "raised",
     "created", "died"}

Archives ==
    [whole : BOOLEAN, files : Listings, manifest : Listings \cup {NoText}, seen : Listings,
     changed : SUBSET Paths, late : SUBSET Paths]

SnapshotRecords ==
    [at : SnapshotStages, listed : SUBSET Paths, todo : SUBSET Paths, offending : SUBSET Paths,
     files : Listings, manifest : {NoText}, copies : BOOLEAN, copy : Archives, mixed : BOOLEAN,
     seen : Listings, changed : SUBSET Paths, late : SUBSET Paths]

SnapshotTypeOK ==
    /\ texts \in [Paths -> Texts]
    /\ archive \in Archives /\ registered \in Archives
    /\ snapshots \in [SnapshotCalls -> SnapshotRecords]

\* Is p among the files that were seen and may be archived?
Wanted(seen, p) == p \notin Forbidden /\ seen[p] \notin {"binary", NoText}

\* What the archive of a call, or an archive that is whole, holds of a path.
HoldsRight(z, p) ==
    IF Wanted(z.seen, p) THEN p \in DOMAIN z.files /\ z.files[p] = z.seen[p]
    ELSE p \notin DOMAIN z.files

NoneEscaped(z) == \A p \in DOMAIN z.files : z.files[p] = "secret" => p \in z.late \cup Exempt

ZipTrue(z) ==
    z.whole /\ z.manifest # NoText =>
        /\ z.manifest = z.files /\ DOMAIN z.files \cap Forbidden = {}
        /\ \A p \in Paths \ z.changed : HoldsRight(z, p)
        /\ NoneEscaped(z)

\* A call knows the files that nobody has edited since it began, and of those
\* it has scanned the ones that are secret.
ListedRight(r) ==
    /\ r.at = "select" =>
         \A p \in Paths : p \in r.listed <=> r.seen[p] \notin {"binary", NoText}
    /\ r.at \in {"scan", "open", "archive"} =>
         /\ r.listed \cap Forbidden = {}
         /\ \A p \in Paths \ r.changed : p \in r.listed <=> Wanted(r.seen, p)

Scanned(r) ==
    CASE r.at = "scan" -> r.listed \ r.todo
      [] r.at \in {"open", "archive"} -> r.listed
      [] OTHER -> {}

CallTrue(r, now) ==
    /\ r.todo \subseteq r.listed
    /\ r.at \in {"select", "scan", "open", "archive"} =>
         /\ DOMAIN r.seen = Paths
         /\ \A p \in Paths \ r.changed : now[p] = r.seen[p]
    /\ ListedRight(r)
    /\ r.at \in {"open", "archive"} => r.offending = {}
    /\ \A p \in Scanned(r) \ (r.late \cup r.offending) :
         now[p] = "secret" => p \in Exempt
    /\ r.at # "archive" => r.files = Nothing
    /\ r.at = "archive" =>
         /\ DOMAIN r.files \subseteq r.listed
         /\ \A p \in (r.listed \ r.todo) \ r.changed : HoldsRight(r, p)
         /\ NoneEscaped(r)
    /\ ZipTrue(r.copy)

Unasked == {"new", "select", "scan", "open", "archive"}

\* A call with the repository to itself makes an archive that verifies.
Alone(c) == \A d \in SnapshotCalls \ {c} : snapshots[d].at = "new"

AloneTrue(r, zip, copied) ==
    /\ r.at \in Unasked => ~r.copies
    /\ r.at = "archive" => ~r.mixed
    /\ r.at \in {"read", "empty", "fill", "created"} => VerifySnapshot(zip)
    /\ r.at \in {"empty", "fill"} => VerifySnapshot(r.copy)
    /\ r.at = "created" /\ r.copies => VerifySnapshot(copied)

SnapshotInv ==
    /\ SnapshotTypeOK
    /\ ZipTrue(archive) /\ ZipTrue(registered)
    /\ \A c \in SnapshotCalls : CallTrue(snapshots[c], texts)
    /\ \A c \in SnapshotCalls : Alone(c) => AloneTrue(snapshots[c], archive, registered)

\* A set of natural numbers that is not empty has its least element.
LEMMA MinIn ==
  ASSUME NEW S \in SUBSET Nat, S # {}
  PROVE  Min(S) \in S
<1> DEFINE R == OpToRel(<, Nat)
<1>1. IsWellFoundedOn(R, Nat) BY NatLessThanWellFounded
<1>2. \A x, y \in Nat : y < x => <<y, x>> \in R BY DEF OpToRel
<1> HIDE DEF R
<1>3. PICK x \in S : \A y \in S : ~(<<y, x>> \in R) BY <1>1, WFMin, Zenon
<1>4. \A y \in S : ~(y < x) BY <1>2, <1>3
<1>5. \A y \in S : x =< y BY <1>4
<1> QED BY <1>5 DEF Min

LEMMA ListingAdded ==
  ASSUME NEW f \in Listings, NEW p \in Paths, NEW t \in Texts
  PROVE  /\ Added(f, p, t) \in Listings
         /\ DOMAIN Added(f, p, t) = {p} \cup DOMAIN f
         /\ Added(f, p, t)[p] = t
         /\ \A q \in DOMAIN f : q # p => Added(f, p, t)[q] = f[q]
<1>1. PICK kept \in SUBSET Paths : f \in [kept -> Texts] BY DEF Listings
<1>2. /\ Added(f, p, t) \in [{p} \cup kept -> Texts]
      /\ {p} \cup kept \in SUBSET Paths
  BY <1>1 DEF Added
<1> QED BY <1>1, <1>2 DEF Added, Listings

LEMMA ListingShape ==
  ASSUME NEW f \in Listings
  PROVE  /\ DOMAIN f \subseteq Paths /\ f # NoText
         /\ \A p \in DOMAIN f : f[p] \in Texts
<1>1. PICK kept \in SUBSET Paths : f \in [kept -> Texts] BY DEF Listings
<1> QED BY <1>1, SnapshotAssumption

LEMMA WholeIsListing ==
  ASSUME NEW f \in [Paths -> Texts]
  PROVE  f \in Listings
<1>1. Paths \in SUBSET Paths OBVIOUS
<1> QED BY <1>1 DEF Listings

LEMMA EmptyThings ==
  /\ Nothing \in Listings /\ DOMAIN Nothing = {}
  /\ HalfZip \in Archives /\ ~HalfZip.whole
<1>1. Nothing \in [{} -> Texts] /\ {} \in SUBSET Paths BY DEF Nothing
<1>2. Nothing \in Listings BY <1>1 DEF Listings
<1> QED BY <1>1, <1>2 DEF HalfZip, Archives

\* A call that holds nothing has nothing to be wrong about.
LEMMA IdleCall ==
  ASSUME NEW r \in SnapshotRecords, NEW now, r.at \notin {"select", "scan", "open", "archive"},
         r.listed = {}, r.todo = {}, r.files = Nothing, ZipTrue(r.copy)
  PROVE  CallTrue(r, now)
BY DEF CallTrue, ListedRight, Scanned

LEMMA EndedCall ==
  ASSUME NEW how \in SnapshotStages, NEW copying \in BOOLEAN
  PROVE  /\ [Blank EXCEPT !.at = how, !.copies = copying] \in SnapshotRecords
         /\ [Blank EXCEPT !.at = how, !.copies = copying].at = how
         /\ [Blank EXCEPT !.at = how, !.copies = copying].copies = copying
         /\ how \notin {"select", "scan", "open", "archive"} =>
              \A now : CallTrue([Blank EXCEPT !.at = how, !.copies = copying], now)
<1> DEFINE r == [Blank EXCEPT !.at = how, !.copies = copying]
<1>1. r \in SnapshotRecords BY EmptyThings DEF Blank, SnapshotRecords
<1>2. /\ r.at = how /\ r.copies = copying /\ r.listed = {} /\ r.todo = {}
      /\ r.files = Nothing /\ r.copy = HalfZip
  BY DEF Blank
<1> HIDE DEF r
<1>3. ZipTrue(r.copy) BY <1>2, EmptyThings DEF ZipTrue
<1>4. ASSUME how \notin {"select", "scan", "open", "archive"}, NEW now
      PROVE  CallTrue(r, now)
  BY <1>1, <1>2, <1>3, <1>4, IdleCall
<1> QED BY <1>1, <1>2, <1>4 DEF r

LEMMA SnapshotStart == SnapshotInit => SnapshotInv
<1> SUFFICES ASSUME SnapshotInit PROVE SnapshotInv OBVIOUS
<1>1. /\ Blank \in SnapshotRecords /\ Blank.at = "new" /\ ~Blank.copies
      /\ Blank.listed = {} /\ Blank.todo = {} /\ Blank.files = Nothing
      /\ Blank.copy = HalfZip
  BY EmptyThings DEF Blank, SnapshotRecords, SnapshotStages
<1>2. CallTrue(Blank, texts)
  <2>1. ZipTrue(Blank.copy) BY <1>1, EmptyThings DEF ZipTrue
  <2> HIDE DEF Blank
  <2> QED BY <1>1, <2>1, IdleCall
<1>3. SnapshotTypeOK
  BY <1>1, EmptyThings, SnapshotAssumption DEF SnapshotTypeOK, SnapshotInit
<1>4. ZipTrue(archive) /\ ZipTrue(registered) BY EmptyThings DEF SnapshotInit, ZipTrue
<1>5. \A c \in SnapshotCalls : CallTrue(snapshots[c], texts) BY <1>2 DEF SnapshotInit
<1>6. \A c \in SnapshotCalls : AloneTrue(snapshots[c], archive, registered)
  BY <1>1 DEF SnapshotInit, AloneTrue
<1> QED BY <1>3, <1>4, <1>5, <1>6 DEF SnapshotInv

\* A call has moved: what it says is to be shown of it alone.
LEMMA SnapshotMoves ==
  ASSUME SnapshotInv, NEW c \in SnapshotCalls, NEW r \in SnapshotRecords,
         NEW z \in Archives, NEW g \in Archives,
         snapshots' = [snapshots EXCEPT ![c] = r], texts' = texts,
         archive' = z, registered' = g,
         ZipTrue(z), ZipTrue(g), CallTrue(r, texts), r.at # "new",
         Alone(c) => AloneTrue(r, z, g)
  PROVE  SnapshotInv'
<1>1. SnapshotTypeOK' BY DEF SnapshotInv, SnapshotTypeOK
<1>2. /\ snapshots'[c] = r
      /\ \A d \in SnapshotCalls : d # c => snapshots'[d] = snapshots[d]
  BY DEF SnapshotInv, SnapshotTypeOK
<1>3. \A d \in SnapshotCalls : CallTrue(snapshots[d], texts)' BY <1>2 DEF SnapshotInv
<1>4. ASSUME NEW d \in SnapshotCalls, Alone(d)'
      PROVE  AloneTrue(snapshots[d], archive, registered)'
  <2>1. d = c /\ Alone(c) BY <1>2, <1>4 DEF Alone
  <2> QED BY <1>2, <2>1
<1>5. ZipTrue(archive)' /\ ZipTrue(registered)' OBVIOUS
<1> QED BY <1>1, <1>3, <1>4, <1>5 DEF SnapshotInv

LEMMA NowTyped ==
  ASSUME SnapshotInv, NEW p \in Paths
  PROVE  texts[p] \in Texts
BY DEF SnapshotInv, SnapshotTypeOK

LEMMA CallTyped ==
  ASSUME SnapshotInv, NEW c \in SnapshotCalls
  PROVE  snapshots[c] \in SnapshotRecords /\ CallTrue(snapshots[c], texts)
BY DEF SnapshotInv, SnapshotTypeOK

\* A step that neither edits nor writes, of a call that is under way.
LEMMA CallGoesOn ==
  ASSUME SnapshotInv, NEW c \in SnapshotCalls, NEW r \in SnapshotRecords,
         snapshots' = [snapshots EXCEPT ![c] = r], UNCHANGED <<texts, archive, registered>>,
         CallTrue(r, texts), r.at # "new",
         Alone(c) => AloneTrue(r, archive, registered)
  PROVE  SnapshotInv'
<1>1. PICK z \in Archives : z = archive BY DEF SnapshotInv, SnapshotTypeOK
<1>2. PICK g \in Archives : g = registered BY DEF SnapshotInv, SnapshotTypeOK
<1>3. /\ archive' = z /\ registered' = g /\ texts' = texts
      /\ ZipTrue(z) /\ ZipTrue(g) /\ (Alone(c) => AloneTrue(r, z, g))
  BY <1>1, <1>2 DEF SnapshotInv
<1> QED BY <1>3, SnapshotMoves

\* A call that ends without an archive of its own.
LEMMA CallGivesUp ==
  ASSUME SnapshotInv, NEW c \in SnapshotCalls, NEW how \in {"refused", "raised", "died"},
         EndSnapshot(c, how), NEW z \in Archives, ZipTrue(z), archive' = z,
         UNCHANGED <<texts, registered>>
  PROVE  SnapshotInv'
<1>1. PICK copying \in BOOLEAN : copying = snapshots[c].copies
  BY CallTyped DEF SnapshotRecords
<1>2. PICK r : r = [Blank EXCEPT !.at = how, !.copies = copying] OBVIOUS
<1>3. how \in SnapshotStages /\ how \notin {"select", "scan", "open", "archive"}
  BY DEF SnapshotStages
<1>4. r \in SnapshotRecords /\ r.at = how /\ CallTrue(r, texts) BY <1>2, <1>3, EndedCall
<1>5. snapshots' = [snapshots EXCEPT ![c] = r] BY <1>1, <1>2 DEF EndSnapshot, ToSnapshot
<1>6. AloneTrue(r, z, registered) BY <1>4 DEF AloneTrue, Unasked
<1>7. PICK g \in Archives : g = registered BY DEF SnapshotInv, SnapshotTypeOK
<1>8. ZipTrue(g) /\ registered' = g /\ texts' = texts /\ AloneTrue(r, z, g)
  BY <1>6, <1>7 DEF SnapshotInv
<1> QED BY <1>4, <1>5, <1>8, SnapshotMoves

LEMMA CallGivesUpEarly ==
  ASSUME SnapshotInv, NEW c \in SnapshotCalls, NEW how \in {"refused", "raised", "died"},
         EndSnapshot(c, how), UNCHANGED <<texts, archive, registered>>
  PROVE  SnapshotInv'
<1>1. PICK z \in Archives : z = archive BY DEF SnapshotInv, SnapshotTypeOK
<1>2. ZipTrue(z) /\ archive' = z BY <1>1 DEF SnapshotInv
<1> QED BY <1>1, <1>2, CallGivesUp

LEMMA ListFilesKeeps ==
  ASSUME SnapshotInv, NEW c \in SnapshotCalls, ListFiles(c)
  PROVE  SnapshotInv'
<1> DEFINE next == [Blank EXCEPT !.at = "select", !.seen = texts,
                          !.listed = {p \in Paths : IsText(p)}]
<1>1. texts \in [Paths -> Texts] /\ texts \in Listings
  BY WholeIsListing DEF SnapshotInv, SnapshotTypeOK
<1>2. next \in SnapshotRecords
  BY <1>1, EmptyThings DEF Blank, SnapshotRecords, SnapshotStages
<1>3. /\ next.at = "select" /\ next.seen = texts /\ next.todo = {} /\ next.files = Nothing
      /\ next.copy = HalfZip /\ ~next.copies
      /\ \A p \in Paths : p \in next.listed <=> texts[p] \notin {"binary", NoText}
  BY DEF Blank, IsText
<1>4. snapshots' = [snapshots EXCEPT ![c] = next] /\ UNCHANGED <<texts, archive, registered>>
  BY DEF ListFiles, ToSnapshot
<1>5. PICK r \in SnapshotRecords : r = next BY <1>2
<1> HIDE DEF next
<1>6. ZipTrue(r.copy) BY <1>3, <1>5, EmptyThings DEF ZipTrue
<1>7. CallTrue(r, texts) BY <1>1, <1>3, <1>5, <1>6 DEF CallTrue, ListedRight, Scanned
<1>8. AloneTrue(r, archive, registered) /\ r.at # "new"
  BY <1>3, <1>5 DEF AloneTrue, Unasked
<1>9. snapshots' = [snapshots EXCEPT ![c] = r] BY <1>4, <1>5
<1> QED BY <1>4, <1>7, <1>8, <1>9, CallGoesOn

LEMMA SelectFilesKeeps ==
  ASSUME SnapshotInv, NEW c \in SnapshotCalls, SelectFiles(c)
  PROVE  SnapshotInv'
<1> DEFINE chosen == {p \in snapshots[c].listed \ Forbidden : texts[p] # NoText}
           next == [snapshots[c] EXCEPT !.at = "scan", !.listed = chosen, !.todo = chosen]
<1>1. CASE EndSnapshot(c, "refused") BY <1>1, CallGivesUpEarly DEF SelectFiles
<1>2. CASE ToSnapshot(c, next)
  <2>1. PICK o \in SnapshotRecords : o = snapshots[c] BY CallTyped
  <2>2. o.at = "select" /\ CallTrue(o, texts)
    BY <2>1, CallTyped DEF SelectFiles, InSnapshot
  <2>3. PICK kept \in SUBSET Paths : kept = {p \in o.listed \ Forbidden : texts[p] # NoText}
    BY <2>1 DEF SnapshotRecords
  <2>4. PICK r : r = [o EXCEPT !.at = "scan", !.listed = kept, !.todo = kept] OBVIOUS
  <2>5. /\ r \in SnapshotRecords
        /\ r.at = "scan" /\ r.listed = kept /\ r.todo = kept /\ r.seen = o.seen
        /\ r.changed = o.changed /\ r.files = o.files /\ r.copy = o.copy /\ r.copies = o.copies
    BY <2>4 DEF SnapshotRecords, SnapshotStages
  <2>6. snapshots' = [snapshots EXCEPT ![c] = r]
    BY <1>2, <2>1, <2>3, <2>4 DEF ToSnapshot
  <2>7. /\ r.files = Nothing /\ ZipTrue(r.copy) /\ DOMAIN r.seen = Paths
        /\ \A p \in Paths \ r.changed : texts[p] = r.seen[p]
        /\ \A p \in Paths : p \in o.listed <=> r.seen[p] \notin {"binary", NoText}
    BY <2>2, <2>5 DEF CallTrue, ListedRight
  <2>8. r.listed \cap Forbidden = {} /\ \A p \in Paths \ r.changed : p \in r.listed <=> Wanted(r.seen, p)
    BY <2>3, <2>5, <2>7 DEF Wanted
  <2>9. CallTrue(r, texts) BY <2>5, <2>7, <2>8 DEF CallTrue, ListedRight, Scanned
  <2>10. Alone(c) => ~o.copies BY <2>1, <2>2 DEF SnapshotInv, AloneTrue, Unasked
  <2>11. Alone(c) => AloneTrue(r, archive, registered)
    BY <2>5, <2>10 DEF AloneTrue, Unasked
  <2> QED BY <2>5, <2>6, <2>9, <2>11, CallGoesOn DEF SelectFiles
<1> QED BY <1>1, <1>2 DEF SelectFiles

LEMMA ScanFileKeeps ==
  ASSUME SnapshotInv, NEW c \in SnapshotCalls, ScanFile(c)
  PROVE  SnapshotInv'
<1>1. PICK o \in SnapshotRecords : o = snapshots[c] BY CallTyped
<1>2. o.at = "scan" /\ CallTrue(o, texts) /\ o.todo # {} /\ o.todo \in SUBSET Paths
  BY <1>1, CallTyped DEF ScanFile, InSnapshot, SnapshotRecords
<1>3. PICK p \in o.todo : p = Min(o.todo) BY <1>2, MinIn, SnapshotAssumption
<1>4. PICK off \in SUBSET Paths, late \in SUBSET Paths :
        /\ snapshots' = [snapshots EXCEPT ![c] = [o EXCEPT !.todo = o.todo \ {p},
                                                        !.offending = off, !.late = late]]
        /\ o.offending \subseteq off /\ o.late \subseteq late
        /\ p \in late \/ p \in off \/ ~Offends(p)
  <2>1. p \in Paths /\ o.offending \in SUBSET Paths /\ o.late \in SUBSET Paths
    BY <1>2, <1>3 DEF SnapshotRecords
  <2>2. \/ snapshots' = [snapshots EXCEPT ![c] = [o EXCEPT !.todo = o.todo \ {p},
                          !.offending = IF Offends(p) THEN o.offending \cup {p} ELSE o.offending]]
        \/ snapshots' = [snapshots EXCEPT ![c] = [o EXCEPT !.todo = o.todo \ {p},
                          !.late = o.late \cup {p}]]
    BY <1>1, <1>3 DEF ScanFile, ToSnapshot
  <2>3. CASE snapshots' = [snapshots EXCEPT ![c] = [o EXCEPT !.todo = o.todo \ {p},
                          !.offending = IF Offends(p) THEN o.offending \cup {p} ELSE o.offending]]
    <3>1. PICK off \in SUBSET Paths : off = IF Offends(p) THEN o.offending \cup {p} ELSE o.offending
      BY <2>1
    <3>2. [o EXCEPT !.todo = o.todo \ {p}, !.offending = off]
             = [o EXCEPT !.todo = o.todo \ {p}, !.offending = off, !.late = o.late]
      BY DEF SnapshotRecords
    <3> QED BY <2>1, <2>3, <3>1, <3>2
  <2>4. CASE snapshots' = [snapshots EXCEPT ![c] = [o EXCEPT !.todo = o.todo \ {p},
                          !.late = o.late \cup {p}]]
    <3>1. PICK late \in SUBSET Paths : late = o.late \cup {p} BY <2>1
    <3>2. [o EXCEPT !.todo = o.todo \ {p}, !.late = late]
             = [o EXCEPT !.todo = o.todo \ {p}, !.offending = o.offending, !.late = late]
      BY DEF SnapshotRecords
    <3> QED BY <2>1, <2>4, <3>1, <3>2
  <2> QED BY <2>2, <2>3, <2>4
<1>5. PICK r : r = [o EXCEPT !.todo = o.todo \ {p}, !.offending = off, !.late = late]
  OBVIOUS
<1>6. /\ r \in SnapshotRecords
      /\ r.at = "scan" /\ r.listed = o.listed /\ r.todo = o.todo \ {p} /\ r.seen = o.seen
      /\ r.changed = o.changed /\ r.files = o.files /\ r.copy = o.copy /\ r.copies = o.copies
      /\ r.offending = off /\ r.late = late
  BY <1>2, <1>5 DEF SnapshotRecords
<1>7. CallTrue(r, texts)
  <2>1. \A q \in Scanned(r) \ (late \cup off) : texts[q] = "secret" => q \in Exempt
    <3>1. \A q \in Scanned(r) : q = p \/ q \in Scanned(o) BY <1>2, <1>6 DEF Scanned
    <3>2. p \notin late \cup off => (texts[p] = "secret" => p \in Exempt)
      BY <1>4 DEF Offends
    <3>3. \A q \in Scanned(o) \ (o.late \cup o.offending) : texts[q] = "secret" => q \in Exempt
      BY <1>2 DEF CallTrue
    <3> QED BY <1>4, <3>1, <3>2, <3>3
  <2> QED BY <1>2, <1>6, <2>1 DEF CallTrue, ListedRight
<1>8. Alone(c) => AloneTrue(r, archive, registered)
  <2>1. Alone(c) => ~o.copies BY <1>1, <1>2 DEF SnapshotInv, AloneTrue, Unasked
  <2> QED BY <1>6, <2>1 DEF AloneTrue, Unasked
<1>9. snapshots' = [snapshots EXCEPT ![c] = r] /\ UNCHANGED <<texts, archive, registered>>
  BY <1>4, <1>5 DEF ScanFile
<1> QED BY <1>6, <1>7, <1>8, <1>9, CallGoesOn

LEMMA EndScanKeeps ==
  ASSUME SnapshotInv, NEW c \in SnapshotCalls, EndScan(c)
  PROVE  SnapshotInv'
<1>1. CASE Blocks(snapshots[c]) BY <1>1, CallGivesUpEarly DEF EndScan
<1>2. CASE ~Blocks(snapshots[c])
  <2>1. PICK o \in SnapshotRecords : o = snapshots[c] BY CallTyped
  <2>2. o.at = "scan" /\ CallTrue(o, texts) /\ o.todo = {} /\ o.offending = {}
    BY <1>2, <2>1, CallTyped DEF EndScan, InSnapshot, Blocks
  <2>3. PICK r : r = [o EXCEPT !.at = "open"] OBVIOUS
  <2>4. /\ r \in SnapshotRecords
        /\ r.at = "open" /\ r.listed = o.listed /\ r.todo = o.todo /\ r.seen = o.seen
        /\ r.changed = o.changed /\ r.files = o.files /\ r.copy = o.copy /\ r.copies = o.copies
        /\ r.offending = o.offending /\ r.late = o.late
    BY <2>3 DEF SnapshotRecords, SnapshotStages
  <2>5. Scanned(r) = Scanned(o) BY <2>2, <2>4 DEF Scanned
  <2>6. CallTrue(r, texts) BY <2>2, <2>4, <2>5 DEF CallTrue, ListedRight
  <2>7. Alone(c) => AloneTrue(r, archive, registered)
    <3>1. Alone(c) => ~o.copies BY <2>1, <2>2 DEF SnapshotInv, AloneTrue, Unasked
    <3> QED BY <2>4, <3>1 DEF AloneTrue, Unasked
  <2>8. snapshots' = [snapshots EXCEPT ![c] = r] /\ UNCHANGED <<texts, archive, registered>>
    BY <1>2, <2>1, <2>3 DEF EndScan, ToSnapshot
  <2> QED BY <2>4, <2>6, <2>7, <2>8, CallGoesOn
<1> QED BY <1>1, <1>2

LEMMA OpenArchiveKeeps ==
  ASSUME SnapshotInv, NEW c \in SnapshotCalls, OpenArchive(c)
  PROVE  SnapshotInv'
<1> DEFINE others == {d \in SnapshotCalls : Writing(d)}
<1>1. PICK o \in SnapshotRecords : o = snapshots[c] BY CallTyped
<1>2. o.at = "open" /\ CallTrue(o, texts) BY <1>1, CallTyped DEF OpenArchive, InSnapshot
<1>3. PICK mixes \in BOOLEAN : mixes = (others # {}) OBVIOUS
<1>4. PICK r : r = [o EXCEPT !.at = "archive", !.mixed = mixes, !.todo = o.listed]
  OBVIOUS
<1>5. /\ r \in SnapshotRecords
      /\ r.at = "archive" /\ r.listed = o.listed /\ r.todo = o.listed /\ r.seen = o.seen
      /\ r.changed = o.changed /\ r.files = o.files /\ r.copy = o.copy /\ r.copies = o.copies
      /\ r.offending = o.offending /\ r.late = o.late /\ r.mixed = mixes
  BY <1>4 DEF SnapshotRecords, SnapshotStages
<1>6. CallTrue(r, texts)
  <2>1. Scanned(r) = Scanned(o) BY <1>2, <1>5 DEF Scanned
  <2>2. r.files = Nothing /\ DOMAIN r.files = {} BY <1>2, <1>5, EmptyThings DEF CallTrue
  <2> QED BY <1>2, <1>5, <2>1, <2>2 DEF CallTrue, ListedRight, NoneEscaped
<1>7. /\ snapshots' = [d \in SnapshotCalls |->
             IF d = c THEN r
             ELSE IF d \in others THEN [snapshots[d] EXCEPT !.mixed = TRUE] ELSE snapshots[d]]
      /\ archive' = HalfZip /\ UNCHANGED <<texts, registered>>
  <2>1. r = [snapshots[c] EXCEPT !.at = "archive", !.mixed = (others # {}),
                                 !.todo = snapshots[c].listed]
    BY <1>1, <1>3, <1>4
  <2> QED BY <2>1 DEF OpenArchive
<1>8. snapshots'[c] = r BY <1>7
<1>9. ASSUME NEW d \in SnapshotCalls, d # c
      PROVE  /\ snapshots'[d] \in SnapshotRecords /\ CallTrue(snapshots'[d], texts)
  <2>1. PICK q \in SnapshotRecords : q = snapshots[d] /\ CallTrue(q, texts) BY CallTyped
  <2>2. CASE d \in others
    <3>1. snapshots'[d] = [q EXCEPT !.mixed = TRUE] BY <1>7, <1>9, <2>1, <2>2
    <3>2. PICK s : s = [q EXCEPT !.mixed = TRUE] OBVIOUS
    <3>3. /\ s \in SnapshotRecords
          /\ s.at = q.at /\ s.listed = q.listed /\ s.todo = q.todo /\ s.seen = q.seen
          /\ s.changed = q.changed /\ s.files = q.files /\ s.copy = q.copy
          /\ s.offending = q.offending /\ s.late = q.late
      BY <3>2 DEF SnapshotRecords
    <3>4. CallTrue(s, texts)
      BY <2>1, <3>3 DEF CallTrue, ListedRight, Scanned, NoneEscaped, HoldsRight
    <3> QED BY <3>1, <3>2, <3>3, <3>4
  <2>3. CASE d \notin others BY <1>7, <1>9, <2>1, <2>3
  <2> QED BY <2>2, <2>3
<1>10. SnapshotTypeOK'
  <2>1. snapshots' \in [SnapshotCalls -> SnapshotRecords] BY <1>5, <1>7, <1>8, <1>9
  <2> QED BY <1>7, <2>1, EmptyThings DEF SnapshotInv, SnapshotTypeOK
<1>11. \A d \in SnapshotCalls : CallTrue(snapshots[d], texts)' BY <1>6, <1>7, <1>8, <1>9
<1>12. ASSUME NEW d \in SnapshotCalls, Alone(d)'
       PROVE  AloneTrue(snapshots[d], archive, registered)'
  <2>1. d = c BY <1>5, <1>8, <1>12 DEF Alone
  <2>2. Alone(c) /\ others = {}
    <3>1. ASSUME NEW e \in SnapshotCalls, e # c PROVE snapshots[e].at = "new"
      <4>1. snapshots'[e].at = "new" BY <1>12, <2>1, <3>1 DEF Alone
      <4>2. snapshots[e] \in SnapshotRecords BY CallTyped
      <4>3. snapshots'[e] = snapshots[e] \/ snapshots'[e] = [snapshots[e] EXCEPT !.mixed = TRUE]
        BY <1>7, <3>1
      <4> QED BY <4>1, <4>2, <4>3 DEF SnapshotRecords
    <3>2. snapshots[c].at = "open" BY <1>1, <1>2
    <3> QED BY <3>1, <3>2 DEF Alone, Writing
  <2>3. ~r.copies BY <1>1, <1>2, <1>5, <2>2 DEF SnapshotInv, AloneTrue, Unasked
  <2>4. ~r.mixed BY <1>3, <1>5, <2>2
  <2>5. AloneTrue(r, archive', registered') BY <1>5, <2>3, <2>4 DEF AloneTrue
  <2> QED BY <1>8, <2>1, <2>5
<1>13. ZipTrue(archive)' /\ ZipTrue(registered)'
  BY <1>7, EmptyThings DEF SnapshotInv, ZipTrue
<1> QED BY <1>10, <1>11, <1>12, <1>13 DEF SnapshotInv

LEMMA ArchiveFileKeeps ==
  ASSUME SnapshotInv, NEW c \in SnapshotCalls, ArchiveFile(c)
  PROVE  SnapshotInv'
<1>1. PICK o \in SnapshotRecords : o = snapshots[c] BY CallTyped
<1>2. /\ o.at = "archive" /\ CallTrue(o, texts) /\ o.todo # {} /\ o.todo \in SUBSET Paths
      /\ o.files \in Listings /\ o.changed \in SUBSET Paths
  BY <1>1, CallTyped DEF ArchiveFile, InSnapshot, SnapshotRecords
<1>3. PICK p \in o.todo : p = Min(o.todo) BY <1>2, MinIn, SnapshotAssumption
<1>4. p \in Paths /\ texts[p] \in Texts /\ p \in o.listed
  BY <1>2, <1>3, NowTyped DEF CallTrue
<1>5. PICK filed \in Listings, changed \in SUBSET Paths :
        /\ snapshots' = [snapshots EXCEPT ![c] = [o EXCEPT !.todo = o.todo \ {p},
                                                        !.files = filed, !.changed = changed]]
        /\ \/ filed = Added(o.files, p, texts[p]) /\ changed = o.changed
           \/ filed = o.files /\ changed = o.changed \cup {p}
  <2>1. \/ snapshots' = [snapshots EXCEPT ![c] = [o EXCEPT !.todo = o.todo \ {p},
                                                       !.files = Added(o.files, p, texts[p])]]
        \/ snapshots' = [snapshots EXCEPT ![c] = [o EXCEPT !.todo = o.todo \ {p},
                                                       !.changed = o.changed \cup {p}]]
    BY <1>1, <1>3 DEF ArchiveFile, ToSnapshot
  <2>2. CASE snapshots' = [snapshots EXCEPT ![c] = [o EXCEPT !.todo = o.todo \ {p},
                                                       !.files = Added(o.files, p, texts[p])]]
    <3>1. PICK filed \in Listings : filed = Added(o.files, p, texts[p])
      BY <1>2, <1>4, ListingAdded
    <3>2. [o EXCEPT !.todo = o.todo \ {p}, !.files = filed]
             = [o EXCEPT !.todo = o.todo \ {p}, !.files = filed, !.changed = o.changed]
      BY DEF SnapshotRecords
    <3> QED BY <1>2, <2>2, <3>1, <3>2
  <2>3. CASE snapshots' = [snapshots EXCEPT ![c] = [o EXCEPT !.todo = o.todo \ {p},
                                                       !.changed = o.changed \cup {p}]]
    <3>1. PICK changed \in SUBSET Paths : changed = o.changed \cup {p} BY <1>2, <1>4
    <3>2. [o EXCEPT !.todo = o.todo \ {p}, !.changed = changed]
             = [o EXCEPT !.todo = o.todo \ {p}, !.files = o.files, !.changed = changed]
      BY DEF SnapshotRecords
    <3> QED BY <1>2, <2>3, <3>1, <3>2
  <2> QED BY <2>1, <2>2, <2>3
<1>6. PICK r : r = [o EXCEPT !.todo = o.todo \ {p}, !.files = filed, !.changed = changed]
  OBVIOUS
<1>7. /\ r \in SnapshotRecords
      /\ r.at = "archive" /\ r.listed = o.listed /\ r.todo = o.todo \ {p} /\ r.seen = o.seen
      /\ r.changed = changed /\ r.files = filed /\ r.copy = o.copy /\ r.copies = o.copies
      /\ r.offending = o.offending /\ r.late = o.late /\ r.mixed = o.mixed
  BY <1>2, <1>6 DEF SnapshotRecords
<1>8. /\ o.changed \subseteq changed
      /\ DOMAIN filed \subseteq DOMAIN o.files \cup {p}
      /\ \A q \in DOMAIN o.files : q # p => q \in DOMAIN filed /\ filed[q] = o.files[q]
      /\ p \notin changed => p \in DOMAIN filed /\ filed[p] = texts[p]
      /\ p \in DOMAIN filed => filed[p] = texts[p] \/ (p \in DOMAIN o.files /\ filed[p] = o.files[p])
  <2>1. PICK more : more = Added(o.files, p, texts[p]) OBVIOUS
  <2>2. /\ DOMAIN more = {p} \cup DOMAIN o.files /\ more[p] = texts[p]
        /\ \A q \in DOMAIN o.files : q # p => more[q] = o.files[q]
    <3>1. PICK f \in Listings : f = o.files BY <1>2
    <3>2. PICK t \in Texts : t = texts[p] BY <1>4
    <3>3. /\ DOMAIN Added(f, p, t) = {p} \cup DOMAIN f /\ Added(f, p, t)[p] = t
          /\ \A q \in DOMAIN f : q # p => Added(f, p, t)[q] = f[q]
      BY <1>4, ListingAdded
    <3>4. more = Added(f, p, t) BY <2>1, <3>1, <3>2
    <3> QED BY <3>1, <3>2, <3>3, <3>4
  <2>3. (filed = more /\ changed = o.changed) \/ (filed = o.files /\ changed = o.changed \cup {p})
    BY <1>5, <2>1
  <2>4. CASE filed = more /\ changed = o.changed BY <2>2, <2>4
  <2>5. CASE filed = o.files /\ changed = o.changed \cup {p} BY <2>5
  <2> QED BY <2>3, <2>4, <2>5
<1>9. CallTrue(r, texts)
  <2>1. Scanned(r) = Scanned(o) /\ p \in Scanned(o) /\ o.offending = {}
    BY <1>2, <1>4, <1>7 DEF Scanned, CallTrue
  <2>2. \A q \in Paths \ o.changed : texts[q] = o.seen[q] BY <1>2 DEF CallTrue
  <2>3. /\ DOMAIN o.files \subseteq o.listed /\ NoneEscaped(o)
        /\ \A q \in (o.listed \ o.todo) \ o.changed : HoldsRight(o, q)
    BY <1>2 DEF CallTrue
  <2>4. NoneEscaped(r)
    <3>1. texts[p] = "secret" => p \in o.late \cup Exempt BY <1>2, <2>1 DEF CallTrue
    <3> QED BY <1>7, <1>8, <2>3, <3>1 DEF NoneEscaped
  <2>5. ASSUME NEW q \in (r.listed \ r.todo) \ r.changed PROVE HoldsRight(r, q)
    <3>1. q \in Paths \ o.changed /\ Wanted(o.seen, q)
      BY <1>2, <1>7, <1>8, <2>5 DEF SnapshotRecords, CallTrue, ListedRight
    <3>2. CASE q = p BY <1>7, <1>8, <2>2, <2>5, <3>1, <3>2 DEF HoldsRight
    <3>3. CASE q # p
      <4>1. q \in DOMAIN o.files /\ o.files[q] = o.seen[q]
        BY <1>7, <1>8, <2>3, <2>5, <3>1, <3>3 DEF HoldsRight
      <4> QED BY <1>7, <1>8, <3>1, <3>3, <4>1 DEF HoldsRight
    <3> QED BY <3>2, <3>3
  <2>6. DOMAIN r.files \subseteq r.listed BY <1>4, <1>7, <1>8, <2>3
  <2> QED BY <1>2, <1>7, <1>8, <2>1, <2>4, <2>5, <2>6 DEF CallTrue, ListedRight
<1>10. snapshots' = [snapshots EXCEPT ![c] = r] /\ UNCHANGED <<texts, registered>>
       /\ archive' \in {archive, HalfZip}
  BY <1>5, <1>6 DEF ArchiveFile
<1>11. PICK z \in Archives : z = archive' /\ ZipTrue(z)
  BY <1>10, EmptyThings DEF SnapshotInv, SnapshotTypeOK, ZipTrue
<1>12. PICK g \in Archives : g = registered /\ ZipTrue(g)
  BY DEF SnapshotInv, SnapshotTypeOK
<1>13. Alone(c) => AloneTrue(r, z, g)
  <2>1. Alone(c) => ~o.copies /\ ~o.mixed
    BY <1>1, <1>2 DEF SnapshotInv, AloneTrue, Unasked
  <2> QED BY <1>7, <2>1 DEF AloneTrue, Unasked
<1>14. texts' = texts /\ archive' = z /\ registered' = g /\ r.at # "new"
  BY <1>7, <1>10, <1>11, <1>12
<1> QED BY <1>7, <1>9, <1>10, <1>11, <1>12, <1>13, <1>14, SnapshotMoves

LEMMA ArchivingRaisesKeeps ==
  ASSUME SnapshotInv, NEW c \in SnapshotCalls, ArchivingRaises(c)
  PROVE  SnapshotInv'
<1>1. PICK o \in SnapshotRecords : o = snapshots[c] BY CallTyped
<1>2. Zip(o) \in Archives /\ ZipTrue(Zip(o))
  BY DEF Zip, Archives, ZipTrue, SnapshotRecords
<1>3. archive' \in {Zip(o), archive, HalfZip} /\ UNCHANGED <<texts, registered>>
  BY <1>1 DEF ArchivingRaises, CloseArchive
<1>4. PICK z \in Archives : z = archive' /\ ZipTrue(z)
  BY <1>2, <1>3, EmptyThings DEF SnapshotInv, SnapshotTypeOK, ZipTrue
<1>5. EndSnapshot(c, "raised") /\ archive' = z BY <1>4 DEF ArchivingRaises
<1> QED BY <1>3, <1>4, <1>5, CallGivesUp

\* The archive a call has finished is true, and verifies.
LEMMA FinishedZip ==
  ASSUME NEW now, NEW o \in SnapshotRecords, CallTrue(o, now), o.at = "archive", o.todo = {},
         NEW r, r = [o EXCEPT !.manifest = o.files]
  PROVE  Zip(r) \in Archives /\ ZipTrue(Zip(r)) /\ VerifySnapshot(Zip(r))
<1> DEFINE z == Zip(r)
<1>1. /\ z.whole = TRUE /\ z.files = o.files /\ z.manifest = o.files /\ z.seen = o.seen
      /\ z.changed = o.changed /\ z.late = o.late
  BY DEF Zip, SnapshotRecords
<1>2. z \in Archives BY DEF Zip, SnapshotRecords, Archives
<1>3. /\ o.files \in Listings /\ o.listed \in SUBSET Paths /\ o.changed \in SUBSET Paths
      /\ DOMAIN o.files \subseteq o.listed /\ o.listed \cap Forbidden = {}
      /\ NoneEscaped(o)
      /\ \A p \in o.listed \ o.changed : HoldsRight(o, p)
      /\ \A p \in Paths \ o.changed : p \in o.listed <=> Wanted(o.seen, p)
  BY DEF SnapshotRecords, CallTrue, ListedRight
<1> HIDE DEF z
<1>4. ASSUME NEW p \in Paths \ z.changed PROVE HoldsRight(z, p)
  <2>1. CASE p \in o.listed BY <1>1, <1>3, <1>4, <2>1 DEF HoldsRight
  <2>2. CASE p \notin o.listed BY <1>1, <1>3, <1>4, <2>2 DEF HoldsRight
  <2> QED BY <2>1, <2>2
<1>5. NoneEscaped(z) BY <1>1, <1>3 DEF NoneEscaped
<1>6. ZipTrue(z) BY <1>1, <1>3, <1>4, <1>5 DEF ZipTrue
<1>7. z.manifest # NoText BY <1>1, <1>3, ListingShape
<1>8. DOMAIN z.manifest \subseteq DOMAIN z.files \ Forbidden BY <1>1, <1>3
<1>9. VerifySnapshot(z) BY <1>1, <1>7, <1>8 DEF VerifySnapshot
<1> QED BY <1>2, <1>6, <1>9 DEF z

LEMMA WriteManifestKeeps ==
  ASSUME SnapshotInv, NEW c \in SnapshotCalls, WriteManifest(c)
  PROVE  SnapshotInv'
<1>1. PICK o \in SnapshotRecords : o = snapshots[c] BY CallTyped
<1>2. o.at = "archive" /\ CallTrue(o, texts) /\ o.todo = {}
  BY <1>1, CallTyped DEF WriteManifest, InSnapshot
<1>3. PICK full : full = [o EXCEPT !.manifest = o.files] OBVIOUS
<1>4. PICK z \in Archives : z = Zip(full) /\ ZipTrue(z) /\ VerifySnapshot(z)
  BY <1>2, <1>3, FinishedZip
<1>5. archive' \in IF o.mixed THEN {z, archive, HalfZip} ELSE {z}
  BY <1>1, <1>3, <1>4 DEF WriteManifest, CloseArchive
<1>6. UNCHANGED <<texts, registered>> BY DEF WriteManifest, CloseArchive
<1>7. PICK y \in Archives : y = archive' /\ ZipTrue(y) /\ (~o.mixed => y = z)
  BY <1>4, <1>5, EmptyThings DEF SnapshotInv, SnapshotTypeOK, ZipTrue
<1>8. PICK g \in Archives : g = registered /\ ZipTrue(g)
  BY DEF SnapshotInv, SnapshotTypeOK
<1>9. Alone(c) => ~o.copies /\ ~o.mixed
  BY <1>1, <1>2 DEF SnapshotInv, AloneTrue, Unasked
<1>10. Alone(c) => VerifySnapshot(y) BY <1>4, <1>7, <1>9
<1>11. PICK how \in {"created", "read"}, copying \in BOOLEAN :
         /\ snapshots' = [snapshots EXCEPT ![c] = [Blank EXCEPT !.at = how, !.copies = copying]]
         /\ how = "created" => copying = o.copies
  <2>1. CASE EndSnapshot(c, "created")
    <3>1. PICK copying \in BOOLEAN : copying = o.copies BY DEF SnapshotRecords
    <3> QED BY <1>1, <2>1, <3>1 DEF EndSnapshot, ToSnapshot
  <2>2. CASE ToSnapshot(c, [Blank EXCEPT !.at = "read", !.copies = TRUE])
    BY <2>2 DEF ToSnapshot
  <2> QED BY <2>1, <2>2 DEF WriteManifest
<1>12. PICK r : r = [Blank EXCEPT !.at = how, !.copies = copying] OBVIOUS
<1>13. how \in SnapshotStages /\ how \notin {"select", "scan", "open", "archive"}
  BY DEF SnapshotStages
<1>14. r \in SnapshotRecords /\ r.at = how /\ r.copies = copying /\ CallTrue(r, texts)
  BY <1>12, <1>13, EndedCall
<1>15. Alone(c) => AloneTrue(r, y, g)
  BY <1>9, <1>10, <1>11, <1>14 DEF AloneTrue, Unasked
<1>16. /\ snapshots' = [snapshots EXCEPT ![c] = r] /\ texts' = texts /\ archive' = y
       /\ registered' = g /\ r.at # "new"
  BY <1>6, <1>7, <1>8, <1>11, <1>12, <1>14
<1> QED BY <1>7, <1>8, <1>14, <1>15, <1>16, SnapshotMoves

----------------------------------------------------------------------------
LEMMA ReadArchiveKeeps ==
  ASSUME SnapshotInv, NEW c \in SnapshotCalls, ReadArchive(c)
  PROVE  SnapshotInv'
<1>1. PICK o \in SnapshotRecords : o = snapshots[c] BY CallTyped
<1>2. o.at = "read" /\ CallTrue(o, texts) BY <1>1, CallTyped DEF ReadArchive, InSnapshot
<1>3. PICK z \in Archives : z = archive /\ ZipTrue(z) BY DEF SnapshotInv, SnapshotTypeOK
<1>4. PICK r : r = [o EXCEPT !.at = "empty", !.copy = z] OBVIOUS
<1>5. /\ r \in SnapshotRecords /\ r.at = "empty" /\ r.copy = z
      /\ r.todo = o.todo /\ r.listed = o.listed /\ r.files = o.files
  BY <1>4 DEF SnapshotRecords, SnapshotStages
<1>6. CallTrue(r, texts) BY <1>2, <1>3, <1>5 DEF CallTrue, ListedRight, Scanned
<1>7. Alone(c) => AloneTrue(r, archive, registered)
  BY <1>1, <1>2, <1>3, <1>5 DEF SnapshotInv, AloneTrue, Unasked
<1>8. snapshots' = [snapshots EXCEPT ![c] = r] /\ UNCHANGED <<texts, archive, registered>>
  BY <1>1, <1>3, <1>4 DEF ReadArchive, ToSnapshot
<1> QED BY <1>5, <1>6, <1>7, <1>8, CallGoesOn

LEMMA EmptyCopyKeeps ==
  ASSUME SnapshotInv, NEW c \in SnapshotCalls, EmptyCopy(c)
  PROVE  SnapshotInv'
<1>1. PICK o \in SnapshotRecords : o = snapshots[c] BY CallTyped
<1>2. o.at = "empty" /\ CallTrue(o, texts) BY <1>1, CallTyped DEF EmptyCopy, InSnapshot
<1>3. PICK z \in Archives : z = archive /\ ZipTrue(z) BY DEF SnapshotInv, SnapshotTypeOK
<1>4. PICK g \in Archives : g = HalfZip /\ ZipTrue(g) BY EmptyThings DEF ZipTrue
<1>5. PICK r : r = [o EXCEPT !.at = "fill"] OBVIOUS
<1>6. /\ r \in SnapshotRecords /\ r.at = "fill" /\ r.copy = o.copy
      /\ r.todo = o.todo /\ r.listed = o.listed /\ r.files = o.files
  BY <1>5 DEF SnapshotRecords, SnapshotStages
<1>7. CallTrue(r, texts) BY <1>2, <1>6 DEF CallTrue, ListedRight, Scanned
<1>8. Alone(c) => AloneTrue(r, z, g)
  BY <1>1, <1>2, <1>3, <1>6 DEF SnapshotInv, AloneTrue, Unasked
<1>9. /\ snapshots' = [snapshots EXCEPT ![c] = r] /\ texts' = texts /\ archive' = z
      /\ registered' = g /\ r.at # "new"
  BY <1>1, <1>3, <1>4, <1>5, <1>6 DEF EmptyCopy, ToSnapshot
<1> QED BY <1>3, <1>4, <1>6, <1>7, <1>8, <1>9, SnapshotMoves

LEMMA FillCopyKeeps ==
  ASSUME SnapshotInv, NEW c \in SnapshotCalls, FillCopy(c)
  PROVE  SnapshotInv'
<1>1. PICK o \in SnapshotRecords : o = snapshots[c] BY CallTyped
<1>2. o.at = "fill" /\ CallTrue(o, texts) BY <1>1, CallTyped DEF FillCopy, InSnapshot
<1>3. PICK z \in Archives : z = archive /\ ZipTrue(z) BY DEF SnapshotInv, SnapshotTypeOK
<1>4. PICK g \in Archives : g = o.copy /\ ZipTrue(g)
  BY <1>2 DEF SnapshotRecords, CallTrue
<1>5. PICK copying \in BOOLEAN : copying = o.copies BY DEF SnapshotRecords
<1>6. PICK r : r = [Blank EXCEPT !.at = "created", !.copies = copying] OBVIOUS
<1>7. "created" \in SnapshotStages /\ "created" \notin {"select", "scan", "open", "archive"}
  BY DEF SnapshotStages
<1>8. r \in SnapshotRecords /\ r.at = "created" /\ CallTrue(r, texts)
  BY <1>6, <1>7, EndedCall
<1>9. Alone(c) => AloneTrue(r, z, g)
  BY <1>1, <1>2, <1>3, <1>4, <1>8 DEF SnapshotInv, AloneTrue, Unasked
<1>10. /\ snapshots' = [snapshots EXCEPT ![c] = r] /\ texts' = texts /\ archive' = z
       /\ registered' = g /\ r.at # "new"
  BY <1>1, <1>3, <1>4, <1>5, <1>6, <1>8 DEF FillCopy, EndSnapshot, ToSnapshot
<1> QED BY <1>3, <1>4, <1>8, <1>9, <1>10, SnapshotMoves

----------------------------------------------------------------------------
\* A file is edited: a call that is under way remembers that.
LEMMA EditTextKeeps == SnapshotInv /\ EditText => SnapshotInv'
<1> SUFFICES ASSUME SnapshotInv, EditText PROVE SnapshotInv' OBVIOUS
<1>1. PICK p \in Paths, t \in Texts :
        /\ texts' = [texts EXCEPT ![p] = t]
        /\ snapshots' = [c \in SnapshotCalls |->
               IF ~ Snapping(c) THEN snapshots[c]
               ELSE [snapshots[c] EXCEPT !.changed = @ \cup {p},
                        !.late = IF ScanIsOver(c, p) THEN @ \cup {p} ELSE @]]
  BY DEF EditText
<1>2. PICK now : now = texts' OBVIOUS
<1>3. now \in [Paths -> Texts] /\ \A q \in Paths : q # p => now[q] = texts[q]
  BY <1>1, <1>2 DEF SnapshotInv, SnapshotTypeOK
<1>4. ASSUME NEW c \in SnapshotCalls
      PROVE  /\ snapshots'[c] \in SnapshotRecords /\ CallTrue(snapshots'[c], now)
             /\ snapshots'[c].at = snapshots[c].at /\ snapshots'[c].copies = snapshots[c].copies
             /\ snapshots'[c].mixed = snapshots[c].mixed
             /\ snapshots'[c].copy = snapshots[c].copy
  <2>1. PICK o \in SnapshotRecords : o = snapshots[c] /\ CallTrue(o, texts) BY CallTyped
  <2>2. CASE ~ Snapping(c)
    <3>1. snapshots'[c] = o BY <1>1, <2>1, <2>2
    <3>2. o.at \notin {"select", "scan", "open", "archive"} BY <2>1, <2>2 DEF Snapping
    <3>3. CallTrue(o, now) BY <2>1, <3>2 DEF CallTrue, ListedRight, Scanned
    <3> QED BY <2>1, <3>1, <3>3
  <2>3. CASE Snapping(c)
    <3>1. PICK late \in SUBSET Paths : late = IF ScanIsOver(c, p) THEN o.late \cup {p} ELSE o.late
      BY DEF SnapshotRecords
    <3>2. PICK r : r = [o EXCEPT !.changed = o.changed \cup {p}, !.late = late] OBVIOUS
    <3>3. /\ r \in SnapshotRecords
          /\ r.at = o.at /\ r.listed = o.listed /\ r.todo = o.todo /\ r.seen = o.seen
          /\ r.files = o.files /\ r.copy = o.copy /\ r.offending = o.offending
          /\ r.copies = o.copies /\ r.mixed = o.mixed
          /\ r.changed = o.changed \cup {p} /\ r.late = late /\ o.late \subseteq late
      BY <3>1, <3>2 DEF SnapshotRecords
    <3>4. snapshots'[c] = r BY <1>1, <2>1, <2>3, <3>1, <3>2
    <3>5. p \in Scanned(o) => p \in late
      <4>1. p \in Scanned(o) => ScanIsOver(c, p)
        BY <2>1 DEF Scanned, ScanIsOver, InSnapshot
      <4> QED BY <3>1, <4>1
    <3>6. Scanned(r) = Scanned(o) /\ Scanned(o) \subseteq Paths
      BY <3>3 DEF Scanned, SnapshotRecords
    <3>7. \A q \in Scanned(r) \ (r.late \cup r.offending) : now[q] = "secret" => q \in Exempt
      <4>1. \A q \in Scanned(o) \ (o.late \cup o.offending) : texts[q] = "secret" => q \in Exempt
        BY <2>1 DEF CallTrue
      <4> QED BY <1>3, <3>3, <3>5, <3>6, <4>1
    <3>8. r.at \in {"select", "scan", "open", "archive"} =>
            /\ DOMAIN r.seen = Paths
            /\ \A q \in Paths \ r.changed : now[q] = r.seen[q]
      BY <1>3, <2>1, <3>3 DEF CallTrue
    <3>9. ListedRight(r) BY <2>1, <3>3 DEF CallTrue, ListedRight
    <3>10. NoneEscaped(o) => NoneEscaped(r) BY <3>3 DEF NoneEscaped
    <3>11. \A q : HoldsRight(o, q) => HoldsRight(r, q) BY <3>3 DEF HoldsRight
    <3>12. r.at = "archive" =>
             /\ DOMAIN r.files \subseteq r.listed
             /\ \A q \in (r.listed \ r.todo) \ r.changed : HoldsRight(r, q)
             /\ NoneEscaped(r)
      BY <2>1, <3>3, <3>10, <3>11 DEF CallTrue
    <3>13. CallTrue(r, now) BY <2>1, <3>3, <3>7, <3>8, <3>9, <3>12 DEF CallTrue
    <3> QED BY <2>1, <3>3, <3>4, <3>13
  <2> QED BY <2>2, <2>3
<1>5. UNCHANGED <<archive, registered>> BY DEF EditText
<1>6. SnapshotTypeOK'
  <2>1. snapshots' \in [SnapshotCalls -> SnapshotRecords] BY <1>1, <1>4
  <2> QED BY <1>2, <1>3, <1>5, <2>1 DEF SnapshotInv, SnapshotTypeOK
<1>7. \A c \in SnapshotCalls : CallTrue(snapshots[c], texts)' BY <1>2, <1>4
<1>8. ASSUME NEW c \in SnapshotCalls, Alone(c)'
      PROVE  AloneTrue(snapshots[c], archive, registered)'
  <2>1. Alone(c) BY <1>4, <1>8 DEF Alone
  <2>2. AloneTrue(snapshots[c], archive, registered) BY <2>1 DEF SnapshotInv
  <2>3. AloneTrue(snapshots'[c], archive, registered) BY <1>4, <2>2 DEF AloneTrue
  <2> QED BY <1>5, <2>3
<1>9. ZipTrue(archive)' /\ ZipTrue(registered)' BY <1>5 DEF SnapshotInv
<1> QED BY <1>6, <1>7, <1>8, <1>9 DEF SnapshotInv

LEMMA SnapshotStep == SnapshotInv /\ [SnapshotNext]_snapshotVars => SnapshotInv'
<1> SUFFICES ASSUME SnapshotInv, [SnapshotNext]_snapshotVars PROVE SnapshotInv' OBVIOUS
<1>1. CASE UNCHANGED snapshotVars
  BY <1>1 DEF snapshotVars, SnapshotInv, SnapshotTypeOK, Alone
<1>2. CASE EditText BY <1>2, EditTextKeeps
<1>3. ASSUME NEW c \in SnapshotCalls, SnapshotDies(c) PROVE SnapshotInv'
  BY <1>3, CallGivesUpEarly DEF SnapshotDies
<1> QED
  BY <1>1, <1>2, <1>3, ListFilesKeeps, SelectFilesKeeps, ScanFileKeeps, EndScanKeeps,
     OpenArchiveKeeps, ArchiveFileKeeps, ArchivingRaisesKeeps, WriteManifestKeeps,
     ReadArchiveKeeps, EmptyCopyKeeps, FillCopyKeeps DEF SnapshotNext

LEMMA SnapshotImplies == SnapshotInv => SnapshotsTellTruth
<1> SUFFICES ASSUME SnapshotInv PROVE SnapshotsTellTruth OBVIOUS
<1>1. ASSUME NEW z \in {archive, registered}, VerifySnapshot(z)
      PROVE  /\ \A p \in Paths \ (z.changed \cup z.late) :
                  IF p \notin Forbidden /\ z.seen[p] \notin {"binary", NoText}
                  THEN p \in DOMAIN z.files /\ z.files[p] = z.seen[p]
                  ELSE p \notin DOMAIN z.files
             /\ \A p \in DOMAIN z.files : z.files[p] = "secret" => p \in z.late \cup Exempt
  <2>1. ZipTrue(z) /\ z.whole /\ z.manifest # NoText
    BY <1>1 DEF SnapshotInv, VerifySnapshot
  <2>2. NoneEscaped(z) /\ \A p \in Paths \ z.changed : HoldsRight(z, p)
    BY <2>1 DEF ZipTrue
  <2> QED BY <2>2 DEF NoneEscaped, HoldsRight, Wanted
<1>2. ASSUME NEW c \in SnapshotCalls, snapshots[c].at = "created",
             \A d \in SnapshotCalls \ {c} : snapshots[d].at = "new"
      PROVE  VerifySnapshot(archive) /\ (snapshots[c].copies => VerifySnapshot(registered))
  BY <1>2 DEF SnapshotInv, Alone, AloneTrue
<1> QED BY <1>1, <1>2 DEF SnapshotsTellTruth

\* However many calls overlap, die or raise, and whatever is edited meanwhile:
\* an archive that verifies was scanned and is the repository, but for what was
\* edited (create_snapshot, verify_snapshot).
THEOREM SnapshotsAreTrue == SnapshotSpec => []SnapshotsTellTruth
BY SnapshotStart, SnapshotStep, SnapshotImplies, PTL DEF SnapshotSpec
=============================================================================
