---------------------------- MODULE V5LinkProofs ----------------------------
(***************************************************************************)
(* Safety of V5Link for every number of descriptors, of records and of     *)
(* faults, however often its threads meet.                                 *)
(***************************************************************************)
EXTENDS V5Link, SequenceTheorems, TLAPS

Pids == Fds \cup {-1}
Ends == {"live", "dead"}

\* The types of what the two threads of the server share, and of the history.
Types ==
  /\ {up, isFirst, gap, open, clean, leaked} \subseteq BOOLEAN
  /\ fds \in [Fds -> Ends \cup {"free"}]
  /\ clientPid \in Pids /\ newfd \in Pids
  /\ accepting \in {"select", "accept", "assign"}
  /\ doing \in {"idle", "send", "close", "forget"}
  /\ part \in {"head", "data"} /\ first \in {"none", "head", "data"}
  /\ backlog \in Seq(Ends)

\* No descriptor below f is free.
Low(f) == \A g \in Fds : g < f => fds[g] # "free"
Holds(f) == f \in Fds /\ fds[f] = "live"

\* clientPid is the lowest descriptor that was free, so that accept returns its
\* number again when it has been closed.
Reused ==
  /\ clientPid \in Fds => Low(clientPid)
  /\ accepting = "accept" =>
       clientPid = -1 \/ fds[clientPid] = "free"
  /\ accepting = "assign" =>
       /\ newfd \in Fds /\ Low(newfd) /\ clientPid \in {-1, newfd}
       /\ \A f \in Fds : Holds(f) => f = newfd

\* The client has one connection: it is the last in the backlog or has been
\* accepted, and then clientPid is that connection or none.
LastOf(i) == i = Len(backlog)
OneConnection ==
  /\ accepting = "accept" => backlog # <<>>
  /\ ~up => accepting = "select"
  /\ \A i \in DOMAIN backlog : backlog[i] = "live" => open /\ LastOf(i)
  /\ \A f \in Fds : Holds(f) => open /\ backlog = <<>> /\ clientPid \in {-1, f}

\* The next part for a connection accepted after a gap is the header of an
\* I frame.
Ready ==
  \/ isFirst /\ doing = "idle"
  \/ doing = "send" /\ part = "head" /\ Holds(clientPid)
  \/ doing = "close" /\ Holds(clientPid)
Fresh ==
  /\ gap => isFirst /\ doing = "idle"
  /\ clean => first # "data"
  /\ clean /\ first = "none" /\ (\E f \in Fds : Holds(f)) => Ready

LinkInv == Types /\ Reused /\ OneConnection /\ Fresh /\ OneClient

-----------------------------------------------------------------------------
(* The operators the steps are built from *)

LEMMA LeftType ==
  ASSUME backlog \in Seq(Ends)
  PROVE  /\ [i \in DOMAIN backlog |-> Left(backlog[i])] \in Seq(Ends)
         /\ Len([i \in DOMAIN backlog |-> Left(backlog[i])]) = Len(backlog)
<1>1. /\ DOMAIN backlog = 1 .. Len(backlog) /\ Len(backlog) \in Nat
      /\ \A i \in 1 .. Len(backlog) : backlog[i] \in Ends
  OBVIOUS
<1>2. \A i \in 1 .. Len(backlog) : Left(backlog[i]) \in Ends
  BY <1>1 DEF Left, Ends
<1>3. QED
  BY <1>1, <1>2

\* What the client's receiving leaves alone.
ServerSame == UNCHANGED <<up, fds, clientPid, acceptVars, doing, isFirst, part, gap,
                          open, clean, first, leaked>>

\* As far as the invariant goes, the client only connects and disconnects.
LEMMA Steps ==
  ASSUME [Next]_vars
  PROVE  \/ GetFrame \/ SendToClient \/ SendToNobody \/ Killed \/ Start
         \/ CloseClient \/ ForgetClient \/ Select \/ Accept \/ Assign
         \/ ConnectServer \/ CloseServer \/ ServerSame
<1>1. ASSUME NEW k \in 1 .. 2, Arrives(k) PROVE ServerSame
  BY <1>1 DEF Arrives, ServerSame, acceptVars, encoderVars
<1>2. RecvHalf \/ RecvRecord \/ RecvBad => ServerSame
  BY <1>1 DEF RecvHalf, RecvRecord, RecvBad
<1>3. ServerGone \/ TimeOut \/ GiveUp => CloseServer
  BY DEF ServerGone, TimeOut, GiveUp
<1>4. UNCHANGED vars => ServerSame
  BY DEF vars, ServerSame, encoderVars, clientVars
<1>5. QED
  BY <1>2, <1>3, <1>4 DEF Next, Encoder, AcceptLoop, Client

\* Every step keeps the types.
LEMMA TypesStep == Types /\ OneConnection /\ [Next]_vars => Types'
<1> SUFFICES ASSUME Types, OneConnection, [Next]_vars
             PROVE  Types'
  OBVIOUS
<1> USE LinkAssumption DEF Types, Pids, Ends, acceptVars, encoderVars, clientVars
<1>1. CASE GetFrame
  <2>1. isFirst' \in BOOLEAN /\ gap' \in BOOLEAN
    BY <1>1 DEF GetFrame, Skip
  <2>2. doing' \in {"idle", "send", "close", "forget"} /\ part' \in {"head", "data"}
    BY <1>1 DEF GetFrame
  <2>3. QED
    BY <1>1, <2>1, <2>2 DEF GetFrame
<1>2. CASE SendToClient
  BY <1>2 DEF SendToClient, Taken, Done, Failed
<1>3. CASE SendToNobody
  BY <1>3 DEF SendToNobody, Taken, Done, Failed
<1>4. CASE Killed
  <2>1. /\ up' = FALSE /\ gap' = TRUE /\ isFirst' = TRUE /\ leaked' = FALSE
        /\ UNCHANGED <<open, clean, first>>
    BY <1>4 DEF Killed
  <2>2. /\ clientPid' = -1 /\ newfd' = -1 /\ fds' \in [Fds -> {"free"}]
        /\ accepting' = "select" /\ doing' = "idle" /\ part' = "data"
    BY <1>4 DEF Killed
  <2>3. backlog' \in Seq(Ends)
    BY <1>4 DEF Killed
  <2>4. QED
    BY <2>1, <2>2, <2>3
<1>5. CASE Start
  BY <1>5 DEF Start
<1>6. CASE CloseClient
  BY <1>6 DEF CloseClient, Closed
<1>7. CASE ForgetClient
  BY <1>7 DEF ForgetClient, Done
<1>8. CASE Select
  BY <1>8 DEF Select, CloseOld, Closed
<1>9. CASE Accept
  <2>1. PICK f \in Fds : newfd' = f /\ fds' = [fds EXCEPT ![f] = Head(backlog)]
    BY <1>9 DEF Accept
  <2>2. Head(backlog) \in Ends /\ Tail(backlog) \in Seq(Ends)
    BY <1>9 DEF Accept, OneConnection
  <2>3. clean' \in BOOLEAN /\ first' \in {"none", "head", "data"}
    BY <1>9 DEF Accept
  <2>4. QED
    BY <1>9, <2>1, <2>2, <2>3 DEF Accept
<1>10. CASE Assign
  BY <1>10 DEF Assign
<1>11. CASE ConnectServer
  <2>1. backlog' \in Seq(Ends)
    BY <1>11 DEF ConnectServer
  <2>2. QED
    BY <1>11, <2>1 DEF ConnectServer
<1>12. CASE CloseServer
  <2>1. fds' \in [Fds -> Ends \cup {"free"}]
    BY <1>12 DEF CloseServer, Left
  <2>2. backlog' \in Seq(Ends)
    BY <1>12, LeftType DEF CloseServer
  <2>3. QED
    BY <1>12, <2>1, <2>2 DEF CloseServer
<1>13. CASE ServerSame
  BY <1>13 DEF ServerSame
<1>14. QED
  BY <1>1, <1>2, <1>3, <1>4, <1>5, <1>6, <1>7, <1>8, <1>9, <1>10, <1>11, <1>12,
     <1>13, Steps

\* Every step keeps the numbers of the descriptors in order.
LEMMA ReusedStep == Types /\ Reused /\ OneConnection /\ [Next]_vars => Reused'
<1> SUFFICES ASSUME Types, Reused, OneConnection, [Next]_vars
             PROVE  Reused'
  OBVIOUS
<1> USE LinkAssumption DEF Types, Pids, Ends, acceptVars, encoderVars, clientVars
<1>0. ASSUME UNCHANGED <<fds, clientPid, newfd, accepting>> PROVE Reused'
  BY <1>0 DEF Reused, Low, Holds
<1>1. CASE GetFrame \/ SendToClient \/ SendToNobody \/ Start \/ ConnectServer \/ ServerSame
  BY <1>0, <1>1 DEF GetFrame, SendToClient, SendToNobody, Start, ConnectServer, ServerSame
<1>2. CASE Killed
  <2>1. clientPid' = -1 /\ accepting' = "select" /\ -1 \notin Fds
    BY <1>2 DEF Killed
  <2>2. QED
    BY <2>1 DEF Reused
<1>3. ASSUME Closed(clientPid)
      PROVE  /\ \A g \in Fds : g # clientPid => fds'[g] = fds[g]
             /\ clientPid \in Fds => fds'[clientPid] = "free"
  BY <1>3 DEF Closed
<1>4. CASE CloseClient
  <2>1. /\ clientPid' = clientPid /\ accepting' = accepting /\ newfd' = newfd
        /\ Closed(clientPid)
    BY <1>4 DEF CloseClient
  <2>2. clientPid \in Fds => Low(clientPid)'
    BY <1>3, <2>1 DEF Reused, Low
  <2>3. accepting = "assign" => Low(newfd)'
    BY <1>3, <2>1 DEF Reused, Low
  <2>4. \A f \in Fds : Holds(f)' => Holds(f)
    BY <1>3, <2>1 DEF Holds
  <2>5. QED
    BY <1>3, <2>1, <2>2, <2>3, <2>4 DEF Reused
<1>5. CASE ForgetClient
  <2>1. clientPid' = -1 /\ accepting' = accepting /\ newfd' = newfd /\ fds' = fds
    BY <1>5 DEF ForgetClient
  <2>2. -1 \notin Fds
    OBVIOUS
  <2>3. QED
    BY <2>1, <2>2 DEF Reused, Low, Holds
<1>6. CASE Select
  <2>1. clientPid' = clientPid /\ accepting' = "accept" /\ Closed(clientPid)
    BY <1>6 DEF Select, CloseOld
  <2>2. clientPid \in Fds => Low(clientPid)'
    BY <1>3, <2>1 DEF Reused, Low
  <2>3. QED
    BY <1>3, <2>1, <2>2 DEF Reused
<1>7. CASE Accept
  <2>1. PICK f \in Fds : /\ Lowest(f) /\ newfd' = f
                         /\ fds' = [fds EXCEPT ![f] = Head(backlog)]
    BY <1>7 DEF Accept
  <2>2. accepting = "accept" /\ accepting' = "assign" /\ clientPid' = clientPid
    BY <1>7 DEF Accept
  <2>3. clientPid \in {-1, f}
    <3>1. clientPid \in Fds => f <= clientPid
      BY <2>1, <2>2 DEF Reused, Lowest
    <3>2. clientPid \in Fds => ~(f < clientPid)
      BY <2>1 DEF Reused, Low, Lowest
    <3>3. QED
      BY <3>1, <3>2
  <2>4. Low(f)'
    BY <2>1 DEF Low, Lowest
  <2>5. \A g \in Fds : ~Holds(g)
    BY <2>2 DEF OneConnection
  <2>6. \A g \in Fds : Holds(g)' => g = f
    BY <2>1, <2>5 DEF Holds
  <2>7. QED
    BY <2>1, <2>2, <2>3, <2>4, <2>6 DEF Reused
<1>8. CASE Assign
  <2>1. /\ accepting = "assign" /\ accepting' = "select" /\ clientPid' = newfd
        /\ fds' = fds
    BY <1>8 DEF Assign
  <2>2. QED
    BY <2>1 DEF Reused, Low
<1>9. CASE CloseServer
  <2>1. /\ fds' = [f \in Fds |-> Left(fds[f])]
        /\ UNCHANGED <<clientPid, accepting, newfd>>
    BY <1>9 DEF CloseServer
  <2>2. \A f \in Fds : fds'[f] = "free" <=> fds[f] = "free"
    BY <2>1 DEF Left
  <2>3. \A f \in Fds : ~Holds(f)'
    BY <2>1 DEF Left, Holds
  <2>4. QED
    BY <2>1, <2>2, <2>3 DEF Reused, Low
<1>10. QED
  BY <1>1, <1>2, <1>4, <1>5, <1>6, <1>7, <1>8, <1>9, Steps

\* Every step keeps the client's connection the only one.
LEMMA OneConnectionStep ==
  Types /\ Reused /\ OneConnection /\ [Next]_vars => OneConnection'
<1> SUFFICES ASSUME Types, Reused, OneConnection, [Next]_vars
             PROVE  OneConnection'
  OBVIOUS
<1> USE LinkAssumption DEF Types, Pids, Ends, acceptVars, encoderVars, clientVars
<1>0. ASSUME UNCHANGED <<fds, clientPid, accepting, backlog, open>>, up => up'
      PROVE  OneConnection'
  BY <1>0 DEF OneConnection, LastOf, Holds
<1>1. CASE GetFrame \/ SendToClient \/ SendToNobody \/ Start \/ ServerSame
  BY <1>0, <1>1 DEF GetFrame, SendToClient, SendToNobody, Start, ServerSame
<1>2. CASE Killed
  <2>1. /\ accepting' = "select" /\ backlog' = <<>> /\ \A f \in Fds : ~Holds(f)'
    BY <1>2 DEF Killed, Holds
  <2>2. QED
    BY <2>1 DEF OneConnection
<1>3. ASSUME Closed(clientPid), UNCHANGED <<clientPid, backlog, open, up>>,
             accepting' = accepting \/ (up /\ accepting' = "accept" /\ backlog # <<>>)
      PROVE  OneConnection'
  <2>1. \A f \in Fds : Holds(f)' => Holds(f)
    BY <1>3 DEF Closed, Holds
  <2>2. QED
    BY <1>3, <2>1 DEF OneConnection, LastOf
<1>4. CASE CloseClient
  BY <1>3, <1>4 DEF CloseClient
<1>5. CASE ForgetClient
  BY <1>5 DEF ForgetClient, OneConnection, Holds, LastOf
<1>6. CASE Select
  BY <1>3, <1>6 DEF Select, CloseOld
<1>7. CASE Accept
  <2>1. PICK f \in Fds : /\ Lowest(f) /\ newfd' = f
                         /\ fds' = [fds EXCEPT ![f] = Head(backlog)]
    BY <1>7 DEF Accept
  <2>2. /\ accepting = "accept" /\ accepting' = "assign" /\ clientPid' = clientPid
        /\ backlog' = Tail(backlog) /\ UNCHANGED <<open, up>>
    BY <1>7 DEF Accept
  <2>3. backlog # <<>> /\ up /\ \A g \in Fds : ~Holds(g)
    BY <2>2 DEF OneConnection
  <2>4. /\ Len(backlog') = Len(backlog) - 1
        /\ \A i \in DOMAIN backlog' : i + 1 \in DOMAIN backlog /\ backlog'[i] = backlog[i + 1]
    BY <2>2, <2>3
  <2>5. \A i \in DOMAIN backlog' : backlog'[i] = "live" => open' /\ LastOf(i)'
    BY <2>2, <2>4 DEF OneConnection, LastOf
  <2>6. ASSUME NEW g \in Fds, Holds(g)'
        PROVE  g = f /\ open' /\ backlog' = <<>>
    <3>1. g = f /\ Head(backlog) = "live"
      BY <2>1, <2>3, <2>6 DEF Holds
    <3>2. 1 \in DOMAIN backlog /\ backlog[1] = "live"
      BY <2>3, <3>1
    <3>3. open /\ Len(backlog) = 1
      BY <3>2 DEF OneConnection, LastOf
    <3>4. backlog' = <<>>
      <4>1. backlog' \in Seq(Ends) /\ Len(backlog') = 0
        BY <2>2, <2>3, <2>4, <3>3
      <4>2. QED
        BY <4>1
    <3>5. QED
      BY <2>2, <3>1, <3>3, <3>4
  <2>7. \A g \in Fds : Holds(g)' => clientPid' \in {-1, g}
    <3>1. Reused'
      BY ReusedStep
    <3>2. QED
      BY <2>2, <3>1 DEF Reused
  <2>8. QED
    BY <2>2, <2>3, <2>5, <2>6, <2>7 DEF OneConnection
<1>8. CASE Assign
  <2>1. /\ accepting = "assign" /\ accepting' = "select" /\ clientPid' = newfd
        /\ UNCHANGED <<fds, backlog, open, up>>
    BY <1>8 DEF Assign
  <2>2. QED
    BY <2>1 DEF OneConnection, Reused, Holds, LastOf
<1>9. CASE ConnectServer
  <2>1. /\ ~open /\ open' /\ UNCHANGED <<fds, clientPid, accepting, up>>
        /\ backlog' = IF up THEN Append(backlog, "live") ELSE <<>>
    BY <1>9 DEF ConnectServer
  <2>2. \A f \in Fds : ~Holds(f)'
    BY <2>1 DEF OneConnection, Holds
  <2>3. accepting' = "accept" => backlog' # <<>>
    BY <2>1, SMTT(30) DEF OneConnection
  <2>4. \A i \in DOMAIN backlog' : backlog'[i] = "live" => LastOf(i)'
    <3>1. CASE ~up
      BY <2>1, <3>1
    <3>2. CASE up
      <4>1. /\ Len(backlog') = Len(backlog) + 1
            /\ \A i \in DOMAIN backlog' :
                 i # Len(backlog) + 1 => i \in DOMAIN backlog /\ backlog'[i] = backlog[i]
        BY <2>1, <3>2
      <4>2. QED
        BY <2>1, <4>1 DEF OneConnection, LastOf
    <3>3. QED
      BY <3>1, <3>2
  <2>5. QED
    BY <2>1, <2>2, <2>3, <2>4 DEF OneConnection
<1>10. CASE CloseServer
  <2>1. /\ fds' = [f \in Fds |-> Left(fds[f])] /\ accepting' = accepting /\ up' = up
        /\ backlog' = [i \in DOMAIN backlog |-> Left(backlog[i])]
    BY <1>10 DEF CloseServer
  <2>2. \A f \in Fds : ~Holds(f)'
    BY <2>1 DEF Left, Holds
  <2>3. \A i \in DOMAIN backlog' : backlog'[i] # "live"
    BY <2>1 DEF Left
  <2>4. Len(backlog') = Len(backlog) /\ backlog' \in Seq(Ends)
    BY <2>1, LeftType
  <2>5. backlog # <<>> => backlog' # <<>>
    BY <2>4
  <2>6. QED
    BY <2>1, <2>2, <2>3, <2>5 DEF OneConnection
<1>11. QED
  BY <1>1, <1>2, <1>4, <1>5, <1>6, <1>7, <1>8, <1>9, <1>10, Steps

\* Every step keeps what the next part is.
LEMMA FreshStep == Types /\ Reused /\ OneConnection /\ Fresh /\ [Next]_vars => Fresh'
<1> SUFFICES ASSUME Types, Reused, OneConnection, Fresh, [Next]_vars
             PROVE  Fresh'
  OBVIOUS
<1> USE LinkAssumption DEF Types, Pids, Ends, acceptVars, encoderVars, clientVars
<1> DEFINE Live == \E f \in Fds : Holds(f)
<1>0. ASSUME UNCHANGED <<fds, clientPid, doing, isFirst, part, gap, clean, first>>
      PROVE  Fresh'
  BY <1>0 DEF Fresh, Ready, Holds
<1>1. CASE Start \/ ConnectServer \/ ServerSame
  BY <1>0, <1>1 DEF Start, ConnectServer, ServerSame
<1>2. ASSUME ~Live', UNCHANGED <<clean, first>>, gap' => isFirst' /\ doing' = "idle"
      PROVE  Fresh'
  BY <1>2 DEF Fresh
<1>3. CASE Killed \/ CloseServer
  <2>1. ~Live'
    BY <1>3 DEF Killed, CloseServer, Left, Holds
  <2>2. CASE Killed
    BY <1>2, <2>1, <2>2 DEF Killed
  <2>3. CASE CloseServer
    BY <1>2, <2>1, <2>3 DEF CloseServer, Fresh
  <2>4. QED
    BY <1>3, <2>2, <2>3
<1>4. ASSUME Live, clientPid > 0 PROVE Holds(clientPid)
  BY <1>4 DEF OneConnection
<1>5. CASE GetFrame
  <2>1. UNCHANGED <<fds, clientPid, clean, first>> /\ doing = "idle"
    BY <1>5 DEF GetFrame
  <2>2. Live' => Live
    BY <2>1 DEF Holds
  <2>3. CASE /\ clientPid > 0 /\ (~isFirst \/ frame' % Gop = 0)
             /\ doing' = "send" /\ isFirst' = FALSE /\ gap' = FALSE
             /\ part' = IF frame' % Gop = 0 THEN "head" ELSE "data"
    <3>1. clean /\ first = "none" /\ Live => isFirst
      BY <2>1 DEF Fresh, Ready
    <3>2. clean /\ first = "none" /\ Live' => Ready'
      BY <1>4, <2>1, <2>2, <2>3, <3>1 DEF Ready, Holds
    <3>3. QED
      BY <2>1, <2>3, <3>2 DEF Fresh
  <2>4. CASE isFirst' = TRUE /\ doing' = "idle"
    BY <2>1, <2>4 DEF Fresh, Ready
  <2>5. QED
    BY <1>5, <2>1, <2>3, <2>4 DEF GetFrame, Skip
<1>6. CASE SendToClient
  <2>1. /\ doing = "send" /\ Holds(clientPid) /\ clean' = clean
        /\ UNCHANGED <<fds, clientPid, isFirst, gap>>
    BY <1>6 DEF SendToClient, Sending, Holds
  <2>2. ~gap
    BY <2>1 DEF Fresh
  <2>3. CASE wire' = wire
    <3>1. first' = first
      BY <1>6, <2>3 DEF SendToClient
    <3>2. doing' = "close" \/ wire' # wire
      BY <1>6 DEF SendToClient, Failed, Halves
    <3>3. QED
      BY <2>1, <2>2, <2>3, <3>1, <3>2 DEF Fresh, Ready, Holds
  <2>4. CASE wire' # wire
    <3>1. first' = IF first = "none" THEN part ELSE first
      BY <1>6, <2>4 DEF SendToClient
    <3>2. clean /\ first = "none" => part = "head"
      BY <2>1 DEF Fresh, Ready, Holds
    <3>3. QED
      BY <2>1, <2>2, <3>1, <3>2 DEF Fresh
  <2>5. QED
    BY <2>3, <2>4
<1>7. CASE SendToNobody
  <2>1. /\ doing = "send" /\ ~Holds(clientPid)
        /\ UNCHANGED <<fds, clientPid, isFirst, gap, clean, first>>
    BY <1>7 DEF SendToNobody, Sending, Holds
  <2>2. ~gap /\ ~(clean /\ first = "none" /\ Live)
    BY <2>1 DEF Fresh, Ready
  <2>3. Live' => Live
    BY <2>1 DEF Holds
  <2>4. QED
    BY <2>1, <2>2, <2>3 DEF Fresh
<1>8. CASE CloseClient
  <2>1. /\ doing = "close" /\ Closed(clientPid)
        /\ UNCHANGED <<clientPid, gap, clean, first>>
    BY <1>8 DEF CloseClient
  <2>2. ~gap
    BY <2>1 DEF Fresh
  <2>3. \A f \in Fds : Holds(f)' => Holds(f) /\ f # clientPid
    BY <2>1 DEF Closed, Holds
  <2>4. clean /\ first = "none" /\ Live => Holds(clientPid)
    BY <2>1 DEF Fresh, Ready
  <2>5. ~(clean /\ first = "none" /\ Live')
    BY <2>3, <2>4 DEF OneConnection, Holds
  <2>6. QED
    BY <2>1, <2>2, <2>5 DEF Fresh
<1>9. CASE ForgetClient
  <2>1. /\ doing = "forget" /\ UNCHANGED <<fds, gap, clean, first>>
    BY <1>9 DEF ForgetClient
  <2>2. ~gap /\ ~(clean /\ first = "none" /\ Live)
    BY <2>1 DEF Fresh, Ready
  <2>3. Live' => Live
    BY <2>1 DEF Holds
  <2>4. QED
    BY <2>1, <2>2, <2>3 DEF Fresh
<1>10. CASE Select
  <2>1. /\ Closed(clientPid) /\ backlog # <<>>
        /\ UNCHANGED <<clientPid, gap, clean, first, doing, isFirst>>
    BY <1>10 DEF Select, CloseOld
  <2>2. ~Live'
    BY <2>1 DEF Closed, Holds, OneConnection
  <2>3. QED
    BY <1>2, <2>1, <2>2 DEF Fresh
<1>11. CASE Accept
  <2>1. PICK f \in Fds : fds' = [fds EXCEPT ![f] = Head(backlog)]
    BY <1>11 DEF Accept
  <2>2. /\ accepting = "accept" /\ UNCHANGED <<clientPid, gap, doing, isFirst>>
        /\ clean' = IF Head(backlog) = "live" THEN gap ELSE clean
        /\ first' = IF Head(backlog) = "live" THEN "none" ELSE first
    BY <1>11 DEF Accept
  <2>3. CASE Head(backlog) = "live"
    BY <2>2, <2>3 DEF Fresh, Ready
  <2>4. CASE Head(backlog) # "live"
    <3>1. ~Live'
      BY <2>1, <2>2, <2>4 DEF OneConnection, Holds
    <3>2. QED
      BY <1>2, <2>2, <2>4, <3>1 DEF Fresh
  <2>5. QED
    BY <2>3, <2>4
<1>12. CASE Assign
  <2>1. /\ accepting = "assign" /\ clientPid' = newfd
        /\ UNCHANGED <<fds, gap, doing, isFirst, part, clean, first>>
    BY <1>12 DEF Assign
  <2>2. \A f \in Fds : Holds(f)' <=> Holds(f)
    BY <2>1 DEF Holds
  <2>3. Holds(clientPid) => Holds(clientPid)'
    BY <2>1 DEF Holds, Reused
  <2>4. QED
    BY <2>1, <2>2, <2>3 DEF Fresh, Ready
<1>13. QED
  BY <1>1, <1>3, <1>5, <1>6, <1>7, <1>8, <1>9, <1>10, <1>11, <1>12, Steps

\* Every step keeps one descriptor open.
LEMMA OneClientStep == Types /\ Reused /\ OneClient /\ [Next]_vars => OneClient'
<1> SUFFICES ASSUME Types, Reused, OneClient, [Next]_vars
             PROVE  OneClient'
  OBVIOUS
<1> USE LinkAssumption DEF Types, Pids, Ends, acceptVars, encoderVars, clientVars
<1>1. CASE GetFrame \/ SendToClient \/ SendToNobody \/ Start \/ ConnectServer \/ ServerSame
  BY <1>1 DEF GetFrame, SendToClient, SendToNobody, Start, ConnectServer, ServerSame,
              OneClient
<1>2. CASE Killed
  BY <1>2 DEF Killed, OneClient
<1>3. CASE CloseClient
  BY <1>3 DEF CloseClient, Closed, OneClient
<1>4. CASE ForgetClient
  BY <1>4 DEF ForgetClient, OneClient
<1>5. CASE Select
  BY <1>5 DEF Select, CloseOld, Closed, OneClient
<1>6. CASE Accept
  <2>1. PICK f \in Fds : newfd' = f /\ fds' = [fds EXCEPT ![f] = Head(backlog)]
    BY <1>6 DEF Accept
  <2>2. /\ accepting = "accept" /\ accepting' = "assign"
        /\ UNCHANGED <<clientPid, leaked>>
    BY <1>6 DEF Accept
  <2>3. QED
    BY <2>1, <2>2 DEF OneClient
<1>7. CASE Assign
  BY <1>7 DEF Assign, OneClient, Reused
<1>8. CASE CloseServer
  BY <1>8 DEF CloseServer, Left, OneClient
<1>9. QED
  BY <1>1, <1>2, <1>3, <1>4, <1>5, <1>6, <1>7, <1>8, Steps

-----------------------------------------------------------------------------
(* The theorems *)

LEMMA LinkInit == Init => LinkInv
<1> SUFFICES ASSUME Init
             PROVE  LinkInv
  OBVIOUS
<1>1. Types
  <2>1. {up, isFirst, gap, open, clean, leaked} \subseteq BOOLEAN
    BY DEF Init, ServerInit
  <2>2. fds \in [Fds -> Ends \cup {"free"}] /\ clientPid \in Pids /\ newfd \in Pids
    BY DEF Init, ServerInit, Pids
  <2>3. /\ accepting \in {"select", "accept", "assign"}
        /\ doing \in {"idle", "send", "close", "forget"}
        /\ part \in {"head", "data"} /\ first \in {"none", "head", "data"}
    BY DEF Init, ServerInit
  <2>4. backlog \in Seq(Ends)
    BY DEF Init, ServerInit
  <2>5. QED
    BY <2>1, <2>2, <2>3, <2>4 DEF Types
<1>2. Reused /\ OneClient
  BY LinkAssumption DEF Init, ServerInit, Reused, OneClient
<1>3. OneConnection
  BY DEF Init, ServerInit, OneConnection, Holds
<1>4. Fresh
  BY DEF Init, ServerInit, Fresh
<1>5. QED
  BY <1>1, <1>2, <1>3, <1>4 DEF LinkInv

LEMMA LinkStep == LinkInv /\ [Next]_vars => LinkInv'
  BY TypesStep, ReusedStep, OneConnectionStep, FreshStep, OneClientStep DEF LinkInv

THEOREM LinkInvariant == Spec => []LinkInv
  BY LinkInit, LinkStep, PTL DEF Spec

\* A client that connects when nobody was watching is sent the header of an I
\* frame first, however the encoder thread and the accept loop interleave.
THEOREM ConnectionBeginsWithI == Spec => []BeginsWithI
<1>1. LinkInv => BeginsWithI
  BY DEF LinkInv, Types, Fresh, BeginsWithI
<1>2. QED
  BY <1>1, LinkInvariant, PTL

\* The server holds one client's descriptor open at a time, as long as no failed
\* send forgets one.
THEOREM OneClientAtATime == Spec => []OneClient
<1>1. LinkInv => OneClient
  BY DEF LinkInv
<1>2. QED
  BY <1>1, LinkInvariant, PTL

-----------------------------------------------------------------------------
(* What is on its way to the client *)

\* The records the encoder sends, and the halves they travel in.
Parcels == {r \in {"head", "data"} \X (0 .. Frames - 1) \X (1 .. Records) :
              r[3] \in 1 .. Size(r[1])}
Half == {r \o <<w>> : r \in Parcels, w \in {1, 2}}

EncoderAt ==
  /\ frame \in 0 .. Frames - 1 /\ index \in Nat /\ spoilt \in BOOLEAN
  /\ doing = "send" => index \in 1 .. Size(part)

\* s is what is sent of the records rs.
Pairs(s, rs) ==
  /\ Len(s) = 2 * Len(rs)
  /\ \A j \in 1 .. Len(rs) : s[2 * j - 1] = rs[j] \o <<1>> /\ s[2 * j] = rs[j] \o <<2>>

\* The records that arrive, and the one that is being sent behind them.
Coming(rs) == IF doing = "send" /\ Holds(clientPid) THEN Append(rs, Record) ELSE rs

Follows(r, q) == q[3] = 1 \/ q = <<r[1], r[2], r[3] + 1>>
Chain(rs) == \A j \in 1 .. Len(rs) - 1 : Follows(rs[j], rs[j + 1])

\* Behind a whole frame, the rest of a frame whose beginning went to the client
\* before never gives the length that was announced: before its record i the box
\* is too long, or, cut back to its first record, too short.
Garbled(i) ==
  \/ mLen = 1 /\ 2 <= Len(box) /\ Len(box) <= i - 1
  \/ mLen = Records /\ Len(box) = Records + 1 /\ i >= 3
  \/ mLen = Records /\ 2 <= Len(box) /\ Len(box) <= i - 2

\* The client may get r next.
Takes(r) ==
  \/ r[3] = 1
  \/ needRestart
  \/ /\ r[3] = Len(box) + 1 /\ mLen = Size(r[1])
     /\ box = [i \in 1 .. Len(box) |-> <<r[1], r[2], i>>]
  \/ r[1] = "data" /\ Len(box) = mLen
  \/ Garbled(r[3])

\* What is in the box, if it has the length that was announced, is one frame.
HasFrame ==
  ~needRestart /\ Len(box) = mLen =>
    /\ mLen = Size(box[1][1])
    /\ box = [i \in 1 .. mLen |-> <<box[1][1], box[1][2], i>>]

\* A connection nothing was sent on yet, or none.
Untouched ==
  \/ ~open
  \/ \E i \in DOMAIN backlog : backlog[i] = "live"
  \/ \E f \in Fds : Holds(f) /\ (f # clientPid \/ doing = "forget")
Rested == wire = <<>> /\ save = <<>> /\ (needRestart \/ Len(box) = mLen)

Promised(rs) == Chain(Coming(rs)) /\ (Coming(rs) # <<>> => Takes(Coming(rs)[1]))
InStep == \E rs \in Seq(Parcels) : Pairs(save \o wire, rs) /\ Promised(rs)

Boxes == box \in Seq(Parcels) /\ mLen \in Nat /\ needRestart \in BOOLEAN
Delivered ==
  /\ wire \in Seq(Half) /\ save \in Seq(Half) /\ Len(save) <= 1
  /\ Boxes /\ HasFrame /\ InStep
  /\ Untouched => Rested

FramesInv == EncoderAt /\ (spoilt \/ Delivered)

LEMMA RecordType == Types /\ EncoderAt /\ doing = "send" => Record \in Parcels
  BY LinkAssumption DEF Types, EncoderAt, Record, Parcels, Size

LEMMA HalvesType ==
  ASSUME NEW r \in Parcels
  PROVE  Halves(r) \in Seq(Half) /\ Len(Halves(r)) = 2
<1>1. r \o <<1>> \in Half /\ r \o <<2>> \in Half
  BY DEF Half
<1>2. QED
  BY <1>1 DEF Halves

\* A record is sent.
LEMMA PairsSent ==
  ASSUME NEW s \in Seq(Half), NEW rs \in Seq(Parcels), NEW r \in Parcels, Pairs(s, rs)
  PROVE  Pairs(s \o Halves(r), Append(rs, r))
<1> DEFINE t == s \o Halves(r)
           rt == Append(rs, r)
<1>1. /\ Len(t) = Len(s) + 2 /\ Len(rt) = Len(rs) + 1 /\ Len(rs) \in Nat
      /\ \A i \in 1 .. Len(s) : t[i] = s[i]
      /\ t[Len(s) + 1] = r \o <<1>> /\ t[Len(s) + 2] = r \o <<2>>
      /\ rt[Len(rs) + 1] = r
      /\ \A i \in 1 .. Len(rs) : rt[i] = rs[i]
  BY HalvesType DEF Halves
<1>2. Len(s) = 2 * Len(rs)
  BY DEF Pairs
<1>3. ASSUME NEW j \in 1 .. Len(rt)
      PROVE  t[2 * j - 1] = rt[j] \o <<1>> /\ t[2 * j] = rt[j] \o <<2>>
  <2>1. CASE j = Len(rs) + 1
    <3>1. 2 * j - 1 = Len(s) + 1 /\ 2 * j = Len(s) + 2
      BY <1>1, <1>2, <2>1
    <3>2. QED
      BY <1>1, <2>1, <3>1
  <2>2. CASE j \in 1 .. Len(rs)
    <3>1. 2 * j - 1 \in 1 .. Len(s) /\ 2 * j \in 1 .. Len(s)
      BY <1>1, <1>2, <2>2
    <3>2. QED
      BY <1>1, <2>2, <3>1 DEF Pairs
  <2>3. j = Len(rs) + 1 \/ j \in 1 .. Len(rs)
    <3>1. j \in 1 .. Len(rs) + 1 /\ Len(rs) \in Nat
      BY <1>1
    <3>2. QED
      BY <3>1
  <2>4. QED
    BY <2>1, <2>2, <2>3
<1>4. Len(t) = 2 * Len(rt)
  BY <1>1, <1>2
<1>5. QED
  BY <1>3, <1>4 DEF Pairs

\* A record is taken.
LEMMA PairsTaken ==
  ASSUME NEW s \in Seq(Half), NEW rs \in Seq(Parcels), Pairs(s, rs), Len(s) >= 2
  PROVE  /\ rs # <<>> /\ Head(rs) = rs[1] /\ rs[1] \in Parcels
         /\ s[1] = rs[1] \o <<1>> /\ s[2] = rs[1] \o <<2>>
         /\ Tail(rs) \in Seq(Parcels)
         /\ Pairs(SubSeq(s, 3, Len(s)), Tail(rs))
<1> DEFINE t == SubSeq(s, 3, Len(s))
           rt == Tail(rs)
<1>1. Len(s) = 2 * Len(rs) /\ Len(rs) \in Nat /\ Len(rs) >= 1
  BY DEF Pairs
<1>2. rs # <<>> /\ Head(rs) = rs[1] /\ rs[1] \in Parcels /\ rt \in Seq(Parcels)
  BY <1>1
<1>3. /\ Len(t) = Len(s) - 2 /\ Len(rt) = Len(rs) - 1
      /\ \A i \in 1 .. Len(t) : t[i] = s[i + 2]
      /\ \A i \in 1 .. Len(rt) : rt[i] = rs[i + 1]
  BY <1>1, <1>2
<1>4. s[1] = rs[1] \o <<1>> /\ s[2] = rs[1] \o <<2>>
  <2>1. 1 \in 1 .. Len(rs) /\ 2 * 1 - 1 = 1 /\ 2 * 1 = 2
    BY <1>1
  <2>2. QED
    BY <2>1 DEF Pairs
<1>5. ASSUME NEW j \in 1 .. Len(rt)
      PROVE  t[2 * j - 1] = rt[j] \o <<1>> /\ t[2 * j] = rt[j] \o <<2>>
  <2>1. 2 * j - 1 \in 1 .. Len(t) /\ 2 * j \in 1 .. Len(t)
    BY <1>1, <1>3
  <2>2. t[2 * j - 1] = s[2 * (j + 1) - 1] /\ t[2 * j] = s[2 * (j + 1)]
    <3>1. (2 * j - 1) + 2 = 2 * (j + 1) - 1 /\ 2 * j + 2 = 2 * (j + 1)
      OBVIOUS
    <3>2. QED
      BY <1>3, <2>1, <3>1
  <2>3. j + 1 \in 1 .. Len(rs) /\ rt[j] = rs[j + 1]
    BY <1>1, <1>3
  <2>4. QED
    BY <2>2, <2>3 DEF Pairs
<1>6. Len(t) = 2 * Len(rt)
  BY <1>1, <1>3
<1>7. QED
  BY <1>2, <1>4, <1>5, <1>6 DEF Pairs

LEMMA ChainLonger ==
  ASSUME NEW rs \in Seq(Parcels), NEW r \in Parcels, Chain(rs),
         rs # <<>> => Follows(rs[Len(rs)], r)
  PROVE  Chain(Append(rs, r))
<1> DEFINE rt == Append(rs, r)
<1>1. /\ Len(rt) = Len(rs) + 1 /\ Len(rs) \in Nat
      /\ rt[Len(rs) + 1] = r /\ \A i \in 1 .. Len(rs) : rt[i] = rs[i]
  OBVIOUS
<1>2. ASSUME NEW j \in 1 .. Len(rt) - 1
      PROVE  Follows(rt[j], rt[j + 1])
  <2>1. CASE j = Len(rs)
    BY <1>1, <1>2, <2>1
  <2>2. CASE j \in 1 .. Len(rs) - 1
    <3>1. rt[j] = rs[j] /\ rt[j + 1] = rs[j + 1]
      BY <1>1, <2>2
    <3>2. QED
      BY <2>2, <3>1 DEF Chain
  <2>3. QED
    BY <1>1, <1>2, <2>1, <2>2
<1>3. QED
  BY <1>2 DEF Chain

\* Without its first or its last record a chain is one.
LEMMA ChainShorter ==
  ASSUME NEW rs \in Seq(Parcels)
  PROVE  /\ \A r \in Parcels : Chain(Append(rs, r)) =>
              /\ Chain(rs)
              /\ rs # <<>> => Follows(rs[Len(rs)], r) /\ Append(rs, r)[1] = rs[1]
         /\ rs # <<>> /\ Chain(rs) =>
              /\ Chain(Tail(rs))
              /\ Tail(rs) # <<>> => Follows(rs[1], Tail(rs)[1])
<1>1. ASSUME NEW r \in Parcels, Chain(Append(rs, r))
      PROVE  /\ Chain(rs)
             /\ rs # <<>> => Follows(rs[Len(rs)], r) /\ Append(rs, r)[1] = rs[1]
  <2> DEFINE rt == Append(rs, r)
  <2>1. /\ Len(rt) = Len(rs) + 1 /\ Len(rs) \in Nat
        /\ rt[Len(rs) + 1] = r /\ \A i \in 1 .. Len(rs) : rt[i] = rs[i]
    OBVIOUS
  <2>2. ASSUME NEW j \in 1 .. Len(rs) - 1 PROVE Follows(rs[j], rs[j + 1])
    <3>1. j \in 1 .. Len(rt) - 1 /\ rt[j] = rs[j] /\ rt[j + 1] = rs[j + 1]
      BY <2>1
    <3>2. QED
      BY <1>1, <3>1 DEF Chain
  <2>3. ASSUME rs # <<>> PROVE Follows(rs[Len(rs)], r) /\ rt[1] = rs[1]
    <3>1. Len(rs) \in 1 .. Len(rt) - 1 /\ rt[Len(rs)] = rs[Len(rs)] /\ 1 \in 1 .. Len(rs)
      BY <2>1, <2>3
    <3>2. QED
      BY <1>1, <2>1, <3>1 DEF Chain
  <2>4. QED
    BY <2>2, <2>3 DEF Chain
<1>2. ASSUME rs # <<>>, Chain(rs)
      PROVE  /\ Chain(Tail(rs))
             /\ Tail(rs) # <<>> => Follows(rs[1], Tail(rs)[1])
  <2> DEFINE rt == Tail(rs)
  <2>1. /\ Len(rs) \in Nat /\ Len(rs) >= 1 /\ Len(rt) = Len(rs) - 1
        /\ rt \in Seq(Parcels) /\ \A i \in 1 .. Len(rt) : rt[i] = rs[i + 1]
    BY <1>2
  <2>2. ASSUME NEW j \in 1 .. Len(rt) - 1 PROVE Follows(rt[j], rt[j + 1])
    <3>1. j + 1 \in 1 .. Len(rs) - 1 /\ rt[j] = rs[j + 1] /\ rt[j + 1] = rs[(j + 1) + 1]
      BY <2>1
    <3>2. QED
      BY <1>2, <3>1 DEF Chain
  <2>3. ASSUME rt # <<>> PROVE Follows(rs[1], rt[1])
    <3>1. 1 \in 1 .. Len(rs) - 1 /\ rt[1] = rs[1 + 1]
      BY <2>1, <2>3
    <3>2. QED
      BY <1>2, <3>1 DEF Chain
  <2>4. QED
    BY <2>2, <2>3 DEF Chain
<1>3. QED
  BY <1>1, <1>2

-----------------------------------------------------------------------------
(* What the client makes of a record *)

\* A record that does not start a frame belongs to the data.
LEMMA ParcelFacts ==
  ASSUME NEW r \in Parcels
  PROVE  /\ r = <<r[1], r[2], r[3]>>
         /\ r[3] \in Nat /\ 1 <= r[3] /\ r[3] <= Size(r[1])
         /\ r[3] # 1 => r[1] = "data" /\ Size(r[1]) = Records /\ 2 <= Records
         /\ Size(r[1]) \in {1, Records} /\ Size(r[1]) \in Nat
  BY LinkAssumption DEF Parcels, Size

\* Whatever is in the box of a client that gets the next record, a box of the
\* length that was announced holds one frame.
LEMMA PackageStep ==
  ASSUME NEW r \in Parcels, Boxes, HasFrame, Takes(r), Package(r)
  PROVE  /\ Boxes' /\ HasFrame'
         /\ \A q \in Parcels : Follows(r, q) => Takes(q)'
<1>1. /\ r[3] \in Nat /\ 1 <= r[3] /\ r[3] <= Size(r[1]) /\ Size(r[1]) \in Nat
      /\ r[3] # 1 => r[1] = "data" /\ Size(r[1]) = Records /\ 2 <= Records
      /\ Size(r[1]) \in {1, Records} /\ r = <<r[1], r[2], r[3]>>
  BY ParcelFacts
<1>2. ASSUME NEW q \in Parcels, Follows(r, q), q[3] # 1
      PROVE  /\ q[1] = r[1] /\ q[2] = r[2] /\ q[3] = r[3] + 1
             /\ q[1] = "data" /\ q[3] <= Records /\ Size(q[1]) = Records
  BY <1>2, ParcelFacts DEF Follows
<1>3. CASE r[3] = 1
  <2>1. /\ needRestart' = FALSE /\ mLen' = Size(r[1]) /\ box' = <<r>>
    BY <1>3 DEF Package
  <2>2. Boxes'
    <3>1. <<r>> \in Seq(Parcels) /\ Size(r[1]) \in Nat
      BY <1>1
    <3>2. QED
      BY <2>1, <3>1 DEF Boxes
  <2>3. HasFrame'
    <3>1. ASSUME Size(r[1]) = 1 PROVE <<r>> = [i \in 1 .. 1 |-> <<r[1], r[2], i>>]
      BY <1>1, <1>3
    <3>2. QED
      BY <2>1, <3>1 DEF HasFrame
  <2>4. ASSUME NEW q \in Parcels, Follows(r, q) PROVE Takes(q)'
    <3>1. CASE q[3] = 1
      BY <3>1 DEF Takes
    <3>2. CASE q[3] # 1
      <4>1. q[1] = r[1] /\ q[2] = r[2] /\ q[3] = 2
        BY <1>2, <1>3, <2>4, <3>2
      <4>2. <<r>> = [i \in 1 .. 1 |-> <<q[1], q[2], i>>]
        BY <1>1, <1>3, <4>1
      <4>3. Len(box') = 1
        BY <2>1
      <4>4. QED
        BY <2>1, <4>1, <4>2, <4>3 DEF Takes
    <3>3. QED
      BY <3>1, <3>2
  <2>5. QED
    BY <2>2, <2>3, <2>4
<1>4. CASE r[3] # 1 /\ needRestart
  <2>1. UNCHANGED <<box, mLen, needRestart>>
    BY <1>4 DEF Package
  <2>2. QED
    BY <1>4, <2>1 DEF Boxes, HasFrame, Takes
<1>5. CASE r[3] # 1 /\ ~needRestart
  <2>1. /\ UNCHANGED <<mLen, needRestart>>
        /\ box' = IF Len(box) > Records THEN <<box[1], r>> ELSE Append(box, r)
    BY <1>1, <1>5 DEF Package
  <2>2. Len(box) \in Nat /\ mLen \in Nat /\ Records \in Nat /\ Records >= 2
    BY <1>1, <1>5, LinkAssumption DEF Boxes
  <2>3. Boxes'
    <3>1. CASE Len(box) > Records
      <4>1. box[1] \in Parcels
        BY <2>2, <3>1 DEF Boxes
      <4>2. QED
        BY <2>1, <3>1, <4>1 DEF Boxes
    <3>2. CASE ~(Len(box) > Records)
      BY <2>1, <3>2 DEF Boxes
    <3>3. QED
      BY <3>1, <3>2
  <2>4. /\ Len(box) > Records => Len(box') = 2
        /\ ~(Len(box) > Records) => Len(box') = Len(box) + 1
    BY <2>1, <2>2 DEF Boxes
  <2>5. CASE /\ r[3] = Len(box) + 1 /\ mLen = Size(r[1])
             /\ box = [i \in 1 .. Len(box) |-> <<r[1], r[2], i>>]
    <3>1. box' = Append(box, r) /\ Len(box') = Len(box) + 1
      BY <1>1, <2>1, <2>2, <2>4, <2>5
    <3>2. box' = [i \in 1 .. Len(box) + 1 |-> <<r[1], r[2], i>>]
      <4>1. \A i \in 1 .. Len(box) : Append(box, r)[i] = <<r[1], r[2], i>>
        BY <2>5 DEF Boxes
      <4>2. Append(box, r)[Len(box) + 1] = <<r[1], r[2], Len(box) + 1>>
        BY <1>1, <2>5 DEF Boxes
      <4>3. Append(box, r) \in Seq(Parcels) /\ Len(Append(box, r)) = Len(box) + 1
        BY DEF Boxes
      <4>4. \A i \in 1 .. Len(box) + 1 : Append(box, r)[i] = <<r[1], r[2], i>>
        BY <2>2, <4>1, <4>2
      <4> DEFINE t == [i \in 1 .. Len(box) + 1 |-> <<r[1], r[2], i>>]
      <4>5. t \in Seq(Parcels) /\ Len(t) = Len(box) + 1
        <5>a. \A i \in 1 .. Len(box) + 1 : Append(box, r)[i] \in Parcels
          BY <4>3
        <5>1. \A i \in 1 .. Len(box) + 1 : <<r[1], r[2], i>> \in Parcels
          BY <4>4, <5>a
        <5>2. QED
          BY <2>2, <5>1
      <4>6. \A i \in 1 .. Len(box) + 1 : Append(box, r)[i] = t[i]
        BY <4>4
      <4> HIDE DEF t
      <4>7. Append(box, r) = t
        BY <4>3, <4>5, <4>6, SeqEqual
      <4>8. QED
        BY <3>1, <4>7 DEF t
    <3>3. HasFrame'
      <4>1. ASSUME Len(box') = mLen
            PROVE  mLen = Size(box'[1][1]) /\
                   box' = [i \in 1 .. mLen |-> <<box'[1][1], box'[1][2], i>>]
        <5>1. box'[1] = <<r[1], r[2], 1>>
          BY <2>2, <3>2
        <5>2. box'[1][1] = r[1] /\ box'[1][2] = r[2]
          BY <5>1
        <5>3. QED
          BY <2>5, <3>1, <3>2, <4>1, <5>2
      <4>2. QED
        BY <2>1, <4>1 DEF HasFrame
    <3>4. ASSUME NEW q \in Parcels, Follows(r, q), q[3] # 1 PROVE Takes(q)'
      <4>1. q[1] = r[1] /\ q[2] = r[2] /\ q[3] = r[3] + 1
        BY <1>2, <3>4
      <4>2. q[3] = Len(box') + 1 /\ mLen' = Size(q[1])
        BY <2>1, <2>5, <3>1, <4>1
      <4>3. box' = [i \in 1 .. Len(box') |-> <<q[1], q[2], i>>]
        BY <3>1, <3>2, <4>1
      <4>4. QED
        BY <4>2, <4>3 DEF Takes
    <3>5. QED
      BY <2>3, <3>3, <3>4 DEF Takes
  <2>6. CASE Len(box) = mLen \/ Garbled(r[3])
    <3>1. Len(box) = mLen => mLen \in {1, Records}
      BY <1>5 DEF HasFrame, Size
    <3> DEFINE n == Len(box)
               m == Len(box')
               k == r[3]
    <3>a. /\ n \in Nat /\ mLen \in Nat /\ Records \in Nat /\ Records >= 2 /\ k \in Nat
          /\ 2 <= k /\ k <= Records
          /\ n > Records => m = 2
          /\ ~(n > Records) => m = n + 1
      BY <1>1, <1>5, <2>2, <2>4
    <3>b. \/ n = mLen /\ mLen \in {1, Records}
          \/ mLen = 1 /\ 2 <= n /\ n <= k - 1
          \/ mLen = Records /\ n = Records + 1 /\ k >= 3
          \/ mLen = Records /\ 2 <= n /\ n <= k - 2
      BY <2>6, <3>1 DEF Garbled
    <3> HIDE DEF n, m, k
    <3>2. Len(box') # mLen
      <4>1. m # mLen
        BY <3>a, <3>b
      <4>2. QED
        BY <4>1 DEF m
    <3>3. ASSUME NEW q \in Parcels, Follows(r, q), q[3] # 1 PROVE Garbled(q[3])'
      <4>1. q[3] = r[3] + 1 /\ q[3] <= Records
        BY <1>2, <3>3
      <4>2. \/ mLen = 1 /\ 2 <= m /\ m <= (k + 1) - 1
            \/ mLen = Records /\ m = Records + 1 /\ k + 1 >= 3
            \/ mLen = Records /\ 2 <= m /\ m <= (k + 1) - 2
        BY <3>a, <3>b
      <4>3. QED
        BY <2>1, <4>1, <4>2 DEF Garbled, m, k
    <3>4. QED
      BY <2>1, <2>3, <3>2, <3>3 DEF HasFrame, Takes
  <2>7. QED
    BY <1>5, <2>5, <2>6 DEF Takes
<1>6. QED
  BY <1>3, <1>4, <1>5

\* What goes to the decoder was in the box, and is one frame.
LEMMA DecoderGets ==
  ASSUME HasFrame, NEW r, Package(r), decoded' # decoded
  PROVE  LET d == decoded'[1]
         IN  decoded' = [i \in 1 .. Size(d[1]) |-> <<d[1], d[2], i>>]
<1>1. decoded' = box /\ Len(box) = mLen /\ ~needRestart
  BY DEF Package, IsWhole
<1>2. QED
  BY <1>1 DEF HasFrame

\* Nothing is on its way to a client whose box is empty or full: it may get the
\* first record of a frame, or a later one of data that began on the connection
\* before.
LEMMA RestedInStep == Types /\ EncoderAt /\ Boxes /\ Rested => InStep
<1> SUFFICES ASSUME Types, EncoderAt, Boxes, Rested
             PROVE  InStep
  OBVIOUS
<1> DEFINE none == <<>>
<1>1. none \in Seq(Parcels) /\ Len(none) = 0
  OBVIOUS
<1>2. Pairs(save \o wire, none)
  BY DEF Pairs, Rested
<1>3. CASE doing = "send" /\ Holds(clientPid)
  <2>1. Coming(none) = <<Record>> /\ Record[3] = index /\ Record[1] = part
    BY <1>3 DEF Coming, Record
  <2>2. Chain(<<Record>>)
    BY DEF Chain
  <2>3. index = 1 \/ part = "data"
    BY <1>3 DEF EncoderAt, Types, Size
  <2>4. Takes(Record)
    BY <2>1, <2>3 DEF Takes, Rested
  <2>5. <<Record>> # <<>> /\ <<Record>>[1] = Record
    OBVIOUS
  <2>6. Promised(none)
    BY <2>1, <2>2, <2>4, <2>5 DEF Promised
  <2> HIDE DEF none
  <2>7. QED
    BY <1>1, <1>2, <2>6 DEF InStep
<1>4. CASE ~(doing = "send" /\ Holds(clientPid))
  <2>1. Coming(none) = none /\ Chain(none)
    BY <1>4 DEF Coming, Chain
  <2>2. QED
    BY <1>1, <1>2, <2>1 DEF InStep, Promised
<1>5. QED
  BY <1>3, <1>4

\* Without the record that was being sent.
LEMMA Unpromised ==
  ASSUME Types, EncoderAt, NEW rs \in Seq(Parcels), Promised(rs)
  PROVE  Chain(rs) /\ (rs # <<>> => Takes(rs[1]))
<1>1. CASE doing = "send" /\ Holds(clientPid)
  <2>1. Coming(rs) = Append(rs, Record) /\ Record \in Parcels
    BY <1>1, RecordType DEF Coming
  <2>2. Chain(rs) /\ (rs # <<>> => Append(rs, Record)[1] = rs[1])
    BY <2>1, ChainShorter DEF Promised
  <2>3. Append(rs, Record) # <<>>
    <3>1. Len(Append(rs, Record)) = Len(rs) + 1 /\ Len(rs) \in Nat /\ Len(<<>>) = 0
      BY <2>1
    <3>2. QED
      BY <3>1
  <2>4. QED
    BY <2>1, <2>2, <2>3 DEF Promised
<1>2. CASE ~(doing = "send" /\ Holds(clientPid))
  BY <1>2 DEF Coming, Promised
<1>3. QED
  BY <1>1, <1>2

\* The encoder stays within its frame.
LEMMA EncoderAtStep == Types /\ EncoderAt /\ [Next]_vars => EncoderAt'
<1> SUFFICES ASSUME Types, EncoderAt, [Next]_vars
             PROVE  EncoderAt'
  OBVIOUS
<1> USE LinkAssumption DEF EncoderAt
<1>0. Size("head") = 1 /\ Size("data") = Records /\ Records \in Nat /\ Records >= 1
      /\ Frames \in Nat /\ Frames >= 1
  BY DEF Size
<1>1. CASE GetFrame
  <2>1. /\ frame' = (frame + 1) % Frames /\ spoilt' = spoilt
        /\ \/ doing' = "send" /\ part' \in {"head", "data"} /\ index' = 1
           \/ doing' = doing /\ index' = index /\ part' = part
    BY <1>1 DEF GetFrame
  <2>2. frame' \in 0 .. Frames - 1
    BY <1>0, <2>1
  <2>3. doing = "idle"
    BY <1>1 DEF GetFrame
  <2>4. 1 \in 1 .. Size("head") /\ 1 \in 1 .. Size("data")
    BY <1>0
  <2>5. index' \in Nat /\ (doing' = "send" => index' \in 1 .. Size(part'))
    BY <2>1, <2>3, <2>4
  <2>6. QED
    BY <2>1, <2>2, <2>5 DEF Size
<1>2. ASSUME doing = "send", Taken, frame' = frame, spoilt' \in BOOLEAN PROVE EncoderAt'
  <2>1. CASE index < Size(part) /\ index' = index + 1 /\ UNCHANGED <<doing, part>>
    <3>1. index' \in 1 .. Size(part)
      BY <1>0, <1>2, <2>1 DEF Types
    <3>2. index' \in Nat
      BY <2>1
    <3> HIDE DEF EncoderAt
    <3>3. Size(part)' = Size(part)
      BY <2>1 DEF Size
    <3>4. frame' \in 0 .. Frames - 1
      BY <1>2 DEF EncoderAt
    <3>5. QED
      BY <1>2, <3>1, <3>2, <3>3, <3>4 DEF EncoderAt
  <2>2. CASE Done
    BY <1>0, <1>2, <2>2 DEF Done, Size
  <2>3. QED
    BY <1>2, <2>1, <2>2 DEF Taken
<1>3. CASE SendToClient
  <2>1. /\ doing = "send" /\ frame' = frame /\ spoilt' \in BOOLEAN
        /\ Taken \/ (doing' = "close" /\ index' = index)
    BY <1>3 DEF SendToClient, Sending, Failed
  <2>2. QED
    BY <1>2, <2>1
<1>4. CASE SendToNobody
  <2>1. /\ doing = "send" /\ frame' = frame /\ spoilt' \in BOOLEAN
        /\ Taken \/ (doing' = "close" /\ index' = index)
    BY <1>4 DEF SendToNobody, Sending, Failed, encoderVars
  <2>2. QED
    BY <1>2, <2>1
<1>5. CASE Killed
  BY <1>0, <1>5 DEF Killed
<1>6. CASE CloseClient \/ ForgetClient
  BY <1>0, <1>6 DEF CloseClient, ForgetClient, Done, Size
<1>7. ASSUME UNCHANGED <<encoderVars, spoilt>> PROVE EncoderAt'
  BY <1>7 DEF encoderVars, Size
<1>8. CASE Start \/ Select \/ Accept \/ Assign \/ ConnectServer
  BY <1>7, <1>8 DEF Start, Select, Accept, Assign, ConnectServer
<1>9. ASSUME CloseServer, spoilt' \in BOOLEAN PROVE EncoderAt'
  BY <1>9 DEF CloseServer, encoderVars, Size
<1>10. CASE ServerGone \/ GiveUp
  BY <1>9, <1>10 DEF ServerGone, GiveUp
<1>11. CASE TimeOut
  <2>1. CloseServer /\ spoilt' \in BOOLEAN
    BY <1>11 DEF TimeOut
  <2>2. QED
    BY <1>9, <2>1
<1>12. ASSUME NEW k \in 1 .. 2, Arrives(k) PROVE EncoderAt'
  BY <1>7, <1>12 DEF Arrives
<1>13. CASE RecvHalf \/ RecvRecord \/ RecvBad
  BY <1>12, <1>13 DEF RecvHalf, RecvRecord, RecvBad
<1>14. CASE UNCHANGED vars
  BY <1>7, <1>14 DEF vars
<1>15. QED
  BY <1>1, <1>3, <1>4, <1>5, <1>6, <1>8, <1>10, <1>11, <1>13, <1>14
     DEF Next, Encoder, AcceptLoop, Client

-----------------------------------------------------------------------------
(* Each step keeps what is on its way in order *)

LEMMA Afresh ==
  ASSUME Types', EncoderAt', Boxes', HasFrame', Rested'
  PROVE  Delivered'
<1>1. (Types /\ EncoderAt /\ Boxes /\ Rested => InStep)'
  BY RestedInStep, PTL
<1>2. wire' = <<>> /\ save' = <<>>
  BY DEF Rested
<1>3. wire' \in Seq(Half) /\ save' \in Seq(Half) /\ Len(save') <= 1
  BY <1>2
<1>4. QED
  BY <1>1, <1>3 DEF Delivered

\* Steps that leave the client and the wire alone.
Same == UNCHANGED <<wire, save, box, mLen, needRestart>>

LEMMA Kept ==
  ASSUME Types, EncoderAt, Delivered, Same, Untouched' => Rested,
         \A rs \in Seq(Parcels) : Promised(rs) => Promised(rs)'
  PROVE  Delivered'
<1>1. PICK rs \in Seq(Parcels) : Pairs(save \o wire, rs) /\ Promised(rs)
  BY DEF Delivered, InStep
<1>2. InStep'
  BY <1>1 DEF InStep, Same
<1>3. Boxes' /\ HasFrame' /\ (Rested => Rested')
  BY DEF Delivered, Same, Boxes, HasFrame, Rested
<1>4. wire' \in Seq(Half) /\ save' \in Seq(Half) /\ Len(save') <= 1
  BY DEF Delivered, Same
<1>5. QED
  BY <1>2, <1>3, <1>4 DEF Delivered

\* Nothing more is being sent to the client.
LEMMA Stops ==
  ASSUME UNCHANGED <<box, mLen, needRestart>>, ~(doing = "send" /\ Holds(clientPid))',
         NEW rs \in Seq(Parcels), Chain(rs), rs # <<>> => Takes(rs[1])
  PROVE  Promised(rs)'
<1>2. Coming(rs)' = rs
  BY DEF Coming
<1>3. rs # <<>> => Takes(rs[1])'
  BY DEF Takes, Garbled
<1>4. Chain(rs)'
  BY DEF Chain, Follows
<1>5. QED
  BY <1>2, <1>3, <1>4 DEF Promised

\* Another record is being sent, or none, as before.
LEMMA GoesOn ==
  ASSUME Same, UNCHANGED <<doing, part, frame, index>>,
         Holds(clientPid)' <=> Holds(clientPid),
         NEW rs \in Seq(Parcels), Promised(rs)
  PROVE  Promised(rs)'
<1>1. Coming(rs)' = Coming(rs)
  BY DEF Coming, Record
<1>2. Coming(rs) # <<>> => Takes(Coming(rs)[1])'
  BY <1>1 DEF Promised, Takes, Garbled, Same
<1>3. Chain(Coming(rs))'
  BY <1>1 DEF Promised, Chain, Follows
<1>4. QED
  BY <1>1, <1>2, <1>3 DEF Promised

\* What is sent behind rs now is r.
LEMMA SendsNext ==
  ASSUME NEW rs \in Seq(Parcels), NEW r \in Parcels,
         UNCHANGED <<box, mLen, needRestart>>, Coming(rs)' = Append(rs, r),
         Chain(rs), rs # <<>> => Takes(rs[1]),
         r[3] = 1 \/ (rs # <<>> /\ Follows(rs[Len(rs)], r))
  PROVE  Promised(rs)'
<1>1. Chain(Append(rs, r))
  BY ChainLonger DEF Follows
<1>2. Takes(Append(rs, r)[1])
  <2>1. CASE rs = <<>>
    <3>1. Append(rs, r)[1] = r /\ r[3] = 1
      BY <2>1
    <3>2. QED
      BY <3>1 DEF Takes
  <2>2. CASE rs # <<>>
    <3>1. Append(rs, r)[1] = rs[1]
      BY <2>2
    <3>2. QED
      BY <2>2, <3>1
  <2>3. QED
    BY <2>1, <2>2
<1>3. Chain(Append(rs, r))' /\ Takes(Append(rs, r)[1])'
  BY <1>1, <1>2 DEF Chain, Follows, Takes, Garbled
<1>4. QED
  BY <1>3 DEF Promised

LEMMA GetFrameKeeps ==
  ASSUME Types, EncoderAt, Delivered, Types', EncoderAt', GetFrame
  PROVE  Delivered'
<1>1. /\ Same /\ UNCHANGED <<fds, clientPid, open, backlog>> /\ doing = "idle"
      /\ \/ doing' = "send" /\ index' = 1
         \/ doing' = "idle"
  BY DEF GetFrame, Same, clientVars, acceptVars
<1>2. Untouched' => Rested
  BY <1>1 DEF Untouched, Holds, Delivered
<1>3. ASSUME NEW rs \in Seq(Parcels), Promised(rs) PROVE Promised(rs)'
  <2>1. CASE ~(doing = "send" /\ Holds(clientPid))'
    BY <1>1, <1>3, <2>1, Unpromised, Stops DEF Same
  <2>2. CASE (doing = "send" /\ Holds(clientPid))'
    <3>1. (Types /\ EncoderAt /\ doing = "send" => Record \in Parcels)'
      BY RecordType, PTL
    <3>2. Record' \in Parcels /\ Record'[3] = 1
      BY <1>1, <2>2, <3>1 DEF Record
    <3>3. Chain(rs) /\ (rs # <<>> => Takes(rs[1]))
      BY <1>3, Unpromised
    <3>4. PICK r \in Parcels : r = Record' /\ r[3] = 1
      BY <3>2
    <3>5. Coming(rs)' = Append(rs, r)
      BY <2>2, <3>4 DEF Coming
    <3>6. QED
      BY <1>1, <3>3, <3>4, <3>5, SendsNext DEF Same
  <2>3. QED
    BY <2>1, <2>2
<1>4. QED
  BY <1>1, <1>2, <1>3, Kept

\* The client's connection, if the encoder has it, is not a new one.
LEMMA InUse ==
  Types /\ OneConnection /\ Holds(clientPid) /\ doing # "forget" => ~Untouched
<1> SUFFICES ASSUME Types, OneConnection, Holds(clientPid), doing # "forget"
             PROVE  ~Untouched
  OBVIOUS
<1>1. clientPid \in Fds /\ clientPid # -1
  BY LinkAssumption DEF Holds
<1>2. open /\ backlog = <<>> /\ \A f \in Fds : Holds(f) => f = clientPid
  BY <1>1 DEF OneConnection
<1>3. ~\E i \in DOMAIN backlog : backlog[i] = "live"
  BY <1>2
<1>4. QED
  BY <1>2, <1>3 DEF Untouched

\* A whole record goes behind what is on its way, or none.
LEMMA SendKeeps ==
  ASSUME Types, OneConnection, EncoderAt, Delivered, Types', OneConnection', EncoderAt',
         SendToClient, ~spoilt'
  PROVE  Delivered'
<1>1. /\ doing = "send" /\ Holds(clientPid) /\ Holds(clientPid)' /\ doing' # "forget"
      /\ UNCHANGED <<fds, clientPid, open, backlog, frame, save, box, mLen, needRestart>>
  BY DEF SendToClient, Sending, Holds, Taken, Done, Failed, clientVars, acceptVars
<1>2. ~Untouched'
  <2>1. (Types /\ OneConnection /\ Holds(clientPid) /\ doing # "forget" => ~Untouched)'
    BY InUse, PTL
  <2>2. QED
    BY <1>1, <2>1
<1>3. Record \in Parcels
  BY <1>1, RecordType
<1>4. PICK rs \in Seq(Parcels) : Pairs(save \o wire, rs) /\ Promised(rs)
  BY DEF Delivered, InStep
<1>5. Coming(rs) = Append(rs, Record)
  BY <1>1 DEF Coming
<1>6. /\ wire \in Seq(Half) /\ save \in Seq(Half) /\ Len(save) <= 1
      /\ Boxes' /\ HasFrame'
  BY <1>1 DEF Delivered, Boxes, HasFrame
<1>7. CASE wire' = wire \o Halves(Record) /\ Taken
  <2>0. PICK rt \in Seq(Parcels) : rt = Append(rs, Record)
    <3>1. Append(rs, Record) \in Seq(Parcels)
      BY <1>3
    <3>2. QED
      BY <3>1
  <2>1. rt # <<>> /\ rt[Len(rt)] = Record
    <3>1. rt \in Seq(Parcels) /\ Len(rt) = Len(rs) + 1 /\ rt[Len(rs) + 1] = Record
      BY <1>3, <2>0
    <3>2. QED
      BY <3>1
  <2>2. Chain(rt) /\ Takes(rt[1])
    BY <1>4, <1>5, <2>0, <2>1 DEF Promised
  <2>3. Pairs(save' \o wire', rt)
    <3>1. save' \o wire' = (save \o wire) \o Halves(Record)
      <4>1. Halves(Record) \in Seq(Half)
        BY <1>3, HalvesType
      <4>2. save \o (wire \o Halves(Record)) = (save \o wire) \o Halves(Record)
        BY <1>6, <4>1, SMTT(60)
      <4>3. QED
        BY <1>1, <1>7, <4>2
    <3>2. save \o wire \in Seq(Half)
      BY <1>6
    <3>3. QED
      BY <1>3, <1>4, <2>0, <3>1, <3>2, PairsSent
  <2>4. wire' \in Seq(Half)
    BY <1>3, <1>6, <1>7, HalvesType
  <2>5. Promised(rt)'
    <3>1. CASE doing' = "idle"
      BY <1>1, <2>1, <2>2, <3>1, Stops
    <3>2. CASE doing' = "send"
      <4>1. (Types /\ EncoderAt /\ doing = "send" => Record \in Parcels)'
        BY RecordType, PTL
      <4>2. PICK r \in Parcels : r = Record'
        BY <3>2, <4>1
      <4>3. r[3] = 1 \/ Follows(Record, r)
        <5>1. index' = 1 \/ (index' = index + 1 /\ part' = part)
          BY <1>7 DEF Taken, Done
        <5>2. QED
          BY <1>1, <4>2, <5>1 DEF Record, Follows
      <4>4. Coming(rt)' = Append(rt, r)
        BY <1>1, <3>2, <4>2 DEF Coming
      <4>5. QED
        BY <1>1, <2>1, <2>2, <4>3, <4>4, SendsNext
    <3>3. QED
      BY <1>1, <1>7, <3>1, <3>2 DEF Taken, Done
  <2>6. InStep'
    BY <2>1, <2>3, <2>5 DEF InStep
  <2>7. QED
    BY <1>1, <1>2, <1>6, <2>4, <2>6 DEF Delivered
<1>8. CASE wire' = wire /\ Failed
  <2>1. doing' = "close"
    BY <1>8 DEF Failed
  <2>2. Promised(rs)'
    BY <1>1, <1>4, <2>1, Unpromised, Stops
  <2>3. InStep'
    BY <1>1, <1>4, <1>8, <2>2 DEF InStep
  <2>4. QED
    BY <1>1, <1>2, <1>6, <1>8, <2>3 DEF Delivered
<1>9. QED
  BY <1>7, <1>8 DEF SendToClient

\* The other steps of the server send the client nothing more.
LEMMA ServerKeeps ==
  ASSUME Types, Reused, OneConnection, EncoderAt, Delivered,
         SendToNobody \/ Killed \/ CloseClient \/ ForgetClient \/ Select
  PROVE  Delivered'
<1> USE DEF Holds
<1>1. Same /\ UNCHANGED open
  BY DEF SendToNobody, Killed, CloseClient, ForgetClient, Select, Same,
         clientVars, acceptVars
<1>2. (Untouched' => Rested) /\ ~(doing = "send" /\ Holds(clientPid))'
  <2>1. CASE SendToNobody
    <3>1. /\ UNCHANGED <<fds, clientPid, backlog>> /\ doing' # "forget" /\ ~Holds(clientPid)
      BY <2>1 DEF SendToNobody, Sending, Taken, Done, Failed, acceptVars
    <3>2. QED
      BY <1>1, <3>1 DEF Untouched, Delivered
  <2>2. CASE Killed
    <3>1. backlog' = <<>> /\ doing' = "idle" /\ \A f \in Fds : fds'[f] = "free"
      BY <2>2 DEF Killed
    <3>2. QED
      BY <1>1, <3>1 DEF Untouched, Delivered
  <2>4. CASE CloseClient
    <3>1. /\ UNCHANGED <<clientPid, backlog>> /\ doing' = "forget"
          /\ \A f \in Fds : Holds(f)' => Holds(f) /\ f # clientPid
      BY <2>4 DEF CloseClient, Closed, Types, acceptVars
    <3>2. QED
      BY <1>1, <3>1 DEF Untouched, Delivered
  <2>5. CASE ForgetClient
    <3>1. /\ UNCHANGED <<fds, backlog>> /\ clientPid' = -1 /\ doing = "forget"
      BY <2>5 DEF ForgetClient, acceptVars
    <3>2. -1 \notin Fds
      BY LinkAssumption
    <3>3. QED
      BY <1>1, <3>1, <3>2 DEF Untouched, Delivered
  <2>6. CASE Select
    <3>1. /\ UNCHANGED <<clientPid, backlog, doing>>
          /\ \A f \in Fds : Holds(f)' => Holds(f) /\ f # clientPid
      BY <2>6 DEF Select, CloseOld, Closed, Types, encoderVars
    <3>2. QED
      BY <1>1, <3>1 DEF Untouched, Delivered
  <2>7. QED
    BY <2>1, <2>2, <2>4, <2>5, <2>6
<1>3. ASSUME NEW rs \in Seq(Parcels), Promised(rs) PROVE Promised(rs)'
  <2> HIDE DEF Holds
  <2>1. QED
    BY <1>1, <1>2, <1>3, Unpromised, Stops DEF Same
<1>4. QED
  BY <1>1, <1>2, <1>3, Kept

\* accept returns a new connection, which gets the number of the one before: the
\* encoder may send it the rest of a frame.
LEMMA AcceptKeeps ==
  ASSUME Types, Reused, OneConnection, EncoderAt, Delivered, Types', EncoderAt', Accept
  PROVE  Delivered'
<1>1. PICK f \in Fds : fds' = [fds EXCEPT ![f] = Head(backlog)]
  BY DEF Accept
<1>2. /\ Same /\ UNCHANGED <<open, clientPid, doing>> /\ accepting = "accept"
      /\ backlog' = Tail(backlog)
  BY DEF Accept, Same, clientVars, encoderVars
<1>3. backlog # <<>> /\ \A g \in Fds : ~Holds(g)
  BY <1>2 DEF OneConnection
<1>4. CASE Head(backlog) = "live"
  <2>1. 1 \in DOMAIN backlog /\ backlog[1] = "live"
    BY <1>3, <1>4 DEF Types
  <2>2. Rested
    BY <2>1 DEF Untouched, Delivered
  <2>3. Rested' /\ Boxes' /\ HasFrame'
    BY <1>2, <2>2 DEF Same, Rested, Delivered, Boxes, HasFrame
  <2>4. QED
    BY <2>3, Afresh
<1>5. CASE Head(backlog) # "live"
  <2>1. \A g \in Fds : ~Holds(g)'
    BY <1>1, <1>3, <1>5 DEF Holds, Types
  <2>2. \A i \in DOMAIN backlog' : i + 1 \in DOMAIN backlog /\ backlog'[i] = backlog[i + 1]
    BY <1>2, <1>3 DEF Types
  <2>3. Untouched' => Rested
    BY <1>2, <2>1, <2>2 DEF Untouched, Delivered
  <2>4. ~(doing = "send" /\ Holds(clientPid))'
    BY <2>1 DEF Holds
  <2>5. ASSUME NEW rs \in Seq(Parcels), Promised(rs) PROVE Promised(rs)'
    BY <1>2, <2>4, <2>5, Unpromised, Stops DEF Same
  <2>6. QED
    BY <1>2, <2>3, <2>5, Kept
<1>6. QED
  BY <1>4, <1>5

\* clientPid becomes what it was, or the new connection.
LEMMA AssignKeeps ==
  ASSUME Types, Reused, OneConnection, EncoderAt, Delivered, Types', EncoderAt', Assign
  PROVE  Delivered'
<1>1. /\ Same /\ UNCHANGED <<open, backlog, fds, doing, part, frame, index>>
      /\ accepting = "assign" /\ clientPid' = newfd
  BY DEF Assign, Same, clientVars, encoderVars
<1>2. clientPid \in {-1, newfd} /\ \A f \in Fds : Holds(f) => f = newfd
  BY <1>1 DEF Reused
<1>3. CASE clientPid = newfd
  <2>1. Untouched' => Rested
    BY <1>1, <1>3 DEF Untouched, Holds, Delivered
  <2>2. Holds(clientPid)' <=> Holds(clientPid)
    BY <1>1, <1>3 DEF Holds
  <2>3. QED
    BY <1>1, <2>1, <2>2, GoesOn, Kept
<1>4. CASE clientPid # newfd /\ Holds(newfd)
  <2>1. Rested
    BY <1>4 DEF Untouched, Holds, Delivered
  <2>2. Rested' /\ Boxes' /\ HasFrame'
    BY <1>1, <2>1 DEF Same, Rested, Delivered, Boxes, HasFrame
  <2>3. QED
    BY <2>2, Afresh
<1>5. CASE ~Holds(newfd)
  <2>1. \A f \in Fds : ~Holds(f) /\ ~Holds(f)'
    BY <1>1, <1>2, <1>5 DEF Holds
  <2>2. ~(doing = "send" /\ Holds(clientPid))'
    BY <2>1 DEF Holds
  <2>3. Untouched' => Rested
    BY <1>1, <2>1 DEF Untouched, Delivered
  <2>4. ASSUME NEW rs \in Seq(Parcels), Promised(rs) PROVE Promised(rs)'
    BY <1>1, <2>2, <2>4, Unpromised, Stops DEF Same
  <2>5. QED
    BY <1>1, <2>3, <2>4, Kept
<1>6. QED
  BY <1>3, <1>4, <1>5

\* The client connects, from rest.
LEMMA ConnectKeeps ==
  ASSUME Types', EncoderAt', Delivered, ConnectServer
  PROVE  Delivered'
<1>1. /\ ~open /\ wire' = <<>> /\ UNCHANGED <<save, box, mLen, needRestart>>
  BY DEF ConnectServer
<1>2. Rested' /\ Boxes' /\ HasFrame'
  BY <1>1 DEF Untouched, Rested, Delivered, Boxes, HasFrame
<1>3. QED
  BY <1>2, Afresh

\* The client disconnects: it starts again, or forgets nothing and is spoilt
\* unless it stops between two frames.
LEMMA LeaveKeeps ==
  ASSUME Types', EncoderAt', spoilt \/ Delivered, spoilt \in BOOLEAN,
         ServerGone \/ GiveUp \/ (TimeOut /\ ~spoilt')
  PROVE  Delivered'
<1>1. wire' = <<>>
  BY DEF ServerGone, GiveUp, TimeOut, CloseServer
<1>2. CASE Restart
  <2>1. needRestart' = TRUE /\ box' = <<>> /\ mLen' = 0 /\ save' = <<>>
    BY <1>2 DEF Restart
  <2>2. Rested' /\ Boxes' /\ HasFrame'
    BY <1>1, <2>1 DEF Rested, Boxes, HasFrame
  <2>3. QED
    BY <2>2, Afresh
<1>3. CASE TimeOut /\ ~spoilt'
  <2>1. /\ UNCHANGED <<save, box, mLen, needRestart>>
        /\ ~spoilt /\ save = <<>> /\ (needRestart \/ Len(box) = mLen)
    BY <1>3 DEF TimeOut
  <2>2. Boxes' /\ HasFrame'
    BY <2>1 DEF Delivered, Boxes, HasFrame
  <2>3. Rested'
    BY <1>1, <2>1 DEF Rested
  <2>4. QED
    BY <2>2, <2>3, Afresh
<1>4. QED
  BY <1>2, <1>3 DEF ServerGone, GiveUp

\* Steps that leave the connections alone too.
LEMMA IdleKeeps ==
  ASSUME Types, EncoderAt, Delivered, Start \/ UNCHANGED vars
  PROVE  Delivered'
<1>1. /\ Same /\ UNCHANGED <<fds, clientPid, open, backlog, doing, part, frame, index>>
  BY DEF Start, Same, vars, clientVars, acceptVars, encoderVars
<1>2. (Untouched' => Rested) /\ (Holds(clientPid)' <=> Holds(clientPid))
  BY <1>1 DEF Untouched, Holds, Delivered
<1>3. QED
  BY <1>1, <1>2, GoesOn, Kept

-----------------------------------------------------------------------------
(* What the client receives *)

\* What recv returns is the beginning of what is on its way.
LEMMA GotFirst ==
  ASSUME save \in Seq(Half), wire \in Seq(Half), NEW k \in 1 .. 2, k <= Len(wire)
  PROVE  /\ Got(k) \in Seq(Half) /\ Len(Got(k)) = Len(save) + k
         /\ SubSeq(wire, k + 1, Len(wire)) \in Seq(Half)
         /\ Got(k) \o SubSeq(wire, k + 1, Len(wire)) = save \o wire
<1> DEFINE front == SubSeq(wire, 1, k)
           back == SubSeq(wire, k + 1, Len(wire))
<1>1. front \in Seq(Half) /\ Len(front) = k /\ back \in Seq(Half)
  OBVIOUS
<1>2. SubSeq(wire, 1, k) \o SubSeq(wire, k + 1, Len(wire)) = wire
  <2>1. Len(wire) \in Nat /\ 1 \in 1 .. Len(wire) + 1 /\ k \in 1 - 1 .. Len(wire)
        /\ Len(wire) \in k .. Len(wire)
    OBVIOUS
  <2>2. SubSeq(wire, 1, k) \o SubSeq(wire, k + 1, Len(wire)) = SubSeq(wire, 1, Len(wire))
    BY <2>1, ConcatAdjacentSubSeq
  <2>3. SubSeq(wire, 1, Len(wire)) = wire
    BY SubSeqFull
  <2> HIDE DEF front, back
  <2>4. QED
    BY <2>2, <2>3, Zenon
<1>a. front \o back = wire /\ Got(k) = save \o front
  BY <1>2 DEF Got
<1> HIDE DEF front, back
<1>3. (save \o front) \o back = save \o (front \o back)
  <2>1. save \in Seq(Half) /\ front \in Seq(Half) /\ back \in Seq(Half)
    BY <1>1
  <2>2. QED
    BY <2>1, SMTT(60)
<1>4. save \o front \in Seq(Half) /\ Len(save \o front) = Len(save) + k
  BY <1>1
<1>5. Got(k) \o back = save \o wire
  BY <1>a, <1>3
<1>6. QED
  BY <1>1, <1>a, <1>4, <1>5 DEF back

\* Of what remains when the first two halves are taken.
LEMMA RestOf ==
  ASSUME NEW g \in Seq(Half), NEW t \in Seq(Half), Len(g) >= 2
  PROVE  /\ SubSeq(g, 3, Len(g)) \in Seq(Half) /\ Len(SubSeq(g, 3, Len(g))) = Len(g) - 2
         /\ Len(g \o t) >= 2 /\ (g \o t)[1] = g[1] /\ (g \o t)[2] = g[2]
         /\ SubSeq(g, 3, Len(g)) \o t = SubSeq(g \o t, 3, Len(g \o t))
<1>1. /\ Len(g) \in Nat /\ Len(t) \in Nat /\ g \o t \in Seq(Half)
      /\ Len(g \o t) = Len(g) + Len(t)
      /\ \A i \in 1 .. Len(g) : (g \o t)[i] = g[i]
      /\ \A i \in 1 .. Len(t) : (g \o t)[Len(g) + i] = t[i]
  OBVIOUS
<1> DEFINE a == SubSeq(g, 3, Len(g))
           b == SubSeq(g \o t, 3, Len(g \o t))
<1>2. /\ a \in Seq(Half) /\ Len(a) = Len(g) - 2
      /\ \A i \in 1 .. Len(g) - 2 : a[i] = g[i + 2]
  <2>1. \A i \in 3 .. Len(g) : g[i] \in Half
    BY <1>1
  <2>2. /\ a \in Seq(Half) /\ Len(a) = IF 3 <= Len(g) THEN Len(g) - 3 + 1 ELSE 0
        /\ \A i \in 1 .. Len(g) - 3 + 1 : a[i] = g[3 + i - 1]
    BY <1>1, <2>1, SubSeqProperties
  <2> HIDE DEF a
  <2>3. Len(a) = Len(g) - 2
    <3>0. PICK n \in Nat : n = Len(g)
      BY <1>1
    <3>1. CASE 3 <= Len(g)
      <4>1. Len(a) = Len(g) - 3 + 1
        BY <2>2, <3>1
      <4>2. Len(g) - 3 + 1 = Len(g) - 2
        BY <3>0
      <4>3. QED
        BY <4>1, <4>2
    <3>2. CASE ~(3 <= Len(g))
      <4>1. Len(a) = 0
        BY <2>2, <3>2
      <4>2. n >= 2 /\ ~(3 <= n)
        BY <3>0, <3>2
      <4>a. n - 2 = 0
        BY <4>2
      <4>3. QED
        BY <3>0, <4>1, <4>a
    <3>3. QED
      BY <3>1, <3>2
  <2>4. ASSUME NEW i \in 1 .. Len(g) - 2 PROVE a[i] = g[i + 2]
    <3>1. i \in 1 .. Len(g) - 3 + 1 /\ 3 + i - 1 = i + 2
      BY <1>1
    <3>2. QED
      BY <2>2, <3>1
  <2>5. QED
    BY <2>2, <2>3, <2>4
<1>3. /\ b \in Seq(Half) /\ Len(b) = Len(g) + Len(t) - 2
      /\ \A i \in 1 .. Len(g) + Len(t) - 2 : b[i] = (g \o t)[i + 2]
  BY <1>1
<1> HIDE DEF a, b
<1>4. /\ a \o t \in Seq(Half) /\ Len(a \o t) = Len(g) - 2 + Len(t)
      /\ \A i \in 1 .. Len(a) : (a \o t)[i] = a[i]
      /\ \A i \in 1 .. Len(t) : (a \o t)[Len(a) + i] = t[i]
  <2>1. a \in Seq(Half) /\ Len(a) \in Nat /\ Len(a) = Len(g) - 2
    BY <1>1, <1>2
  <2>2. /\ a \o t \in Seq(Half) /\ Len(a \o t) = Len(a) + Len(t)
        /\ \A i \in 1 .. Len(a) + Len(t) :
             (a \o t)[i] = IF i <= Len(a) THEN a[i] ELSE t[i - Len(a)]
    BY <2>1, ConcatProperties
  <2>3. ASSUME NEW i \in 1 .. Len(t) PROVE (a \o t)[Len(a) + i] = t[i]
    <3>1. /\ Len(a) + i \in 1 .. Len(a) + Len(t) /\ ~(Len(a) + i <= Len(a))
          /\ Len(a) + i - Len(a) = i
      BY <1>1, <2>1
    <3>2. QED
      BY <2>2, <3>1
  <2>4. \A i \in 1 .. Len(a) : (a \o t)[i] = a[i]
    BY <1>1, <2>1, <2>2
  <2>5. QED
    BY <2>1, <2>2, <2>3, <2>4
<1>5. ASSUME NEW i \in 1 .. Len(a \o t) PROVE (a \o t)[i] = b[i]
  <2>1. i \in 1 .. Len(b)
    BY <1>1, <1>3, <1>4
  <2>2. CASE i \in 1 .. Len(a)
    <3>1. i + 2 \in 1 .. Len(g)
      BY <1>1, <1>2, <2>2
    <3>2. QED
      BY <1>1, <1>2, <1>3, <1>4, <2>1, <2>2, <3>1
  <2>3. CASE i \notin 1 .. Len(a)
    <3>1. /\ i - Len(a) \in 1 .. Len(t)
          /\ i = Len(a) + (i - Len(a)) /\ i + 2 = Len(g) + (i - Len(a))
      BY <1>1, <1>2, <1>4, <2>3
    <3>2. (a \o t)[i] = t[i - Len(a)]
      BY <1>4, <3>1
    <3>3. (g \o t)[i + 2] = t[i - Len(a)]
      BY <1>1, <3>1
    <3>4. QED
      BY <1>3, <2>1, <3>2, <3>3
  <2>4. QED
    BY <2>2, <2>3
<1>6. a \o t = b
  <2>1. Len(a \o t) = Len(b)
    BY <1>1, <1>3, <1>4
  <2>2. QED
    BY <1>3, <1>4, <1>5, <2>1, SeqEqual
<1>7. Len(g \o t) >= 2 /\ (g \o t)[1] = g[1] /\ (g \o t)[2] = g[2]
  BY <1>1
<1>8. QED
  BY <1>2, <1>6, <1>7 DEF a, b

LEMMA HalfOf ==
  ASSUME NEW r \in Parcels
  PROVE  /\ (r \o <<1>>)[4] = 1 /\ r \o <<2>> = [r \o <<1>> EXCEPT ![4] = 2]
         /\ SubSeq(r \o <<1>>, 1, 3) = r
<1> DEFINE S == {"head", "data"} \cup Nat
           t == r \o <<1>>
           u == r \o <<2>>
<1>1. r \in Seq(S) /\ Len(r) = 3
  <2>1. r = <<r[1], r[2], r[3]>> /\ r[1] \in S /\ r[2] \in S /\ r[3] \in S
    BY LinkAssumption, ParcelFacts DEF Parcels
  <2> HIDE DEF S
  <2>2. <<r[1], r[2], r[3]>> \in Seq(S) /\ Len(<<r[1], r[2], r[3]>>) = 3
    BY <2>1
  <2>3. QED
    BY <2>1, <2>2
<1>2. 1 \in S /\ 2 \in S
  OBVIOUS
<1> HIDE DEF S
<1>3. /\ t \in Seq(S) /\ Len(t) = 4 /\ t[4] = 1 /\ \A i \in 1 .. 3 : t[i] = r[i]
      /\ u \in Seq(S) /\ Len(u) = 4 /\ u[4] = 2 /\ \A i \in 1 .. 3 : u[i] = r[i]
  <2>1. ASSUME NEW w \in S
        PROVE  /\ r \o <<w>> \in Seq(S) /\ Len(r \o <<w>>) = 4 /\ (r \o <<w>>)[4] = w
               /\ \A i \in 1 .. 3 : (r \o <<w>>)[i] = r[i]
    <3>1. <<w>> \in Seq(S) /\ Len(<<w>>) = 1 /\ <<w>>[1] = w
      BY <2>1
    <3>2. /\ r \o <<w>> \in Seq(S) /\ Len(r \o <<w>>) = Len(r) + Len(<<w>>)
          /\ \A i \in 1 .. Len(r) + Len(<<w>>) :
               (r \o <<w>>)[i] = IF i <= Len(r) THEN r[i] ELSE <<w>>[i - Len(r)]
      BY <1>1, <3>1, ConcatProperties
    <3>3. QED
      BY <1>1, <3>1, <3>2
  <2>2. QED
    BY <1>2, <2>1
<1> HIDE DEF t, u
<1>4. u = [t EXCEPT ![4] = 2]
  <2>1. 4 \in 1 .. Len(t)
    BY <1>3
  <2>2. /\ [t EXCEPT ![4] = 2] \in Seq(S) /\ Len([t EXCEPT ![4] = 2]) = 4
        /\ \A j \in 1 .. 4 : [t EXCEPT ![4] = 2][j] = IF j = 4 THEN 2 ELSE t[j]
    BY <1>2, <1>3, <2>1, ExceptSeq
  <2>3. \A j \in 1 .. 4 : u[j] = [t EXCEPT ![4] = 2][j]
    BY <1>3, <2>2
  <2>4. QED
    BY <1>3, <2>2, <2>3, SeqEqual
<1>5. SubSeq(t, 1, 3) = r
  <2>1. /\ SubSeq(t, 1, 3) \in Seq(S) /\ Len(SubSeq(t, 1, 3)) = 3
        /\ \A i \in 1 .. 3 : SubSeq(t, 1, 3)[i] = t[i]
    BY <1>3
  <2>2. QED
    BY <1>1, <1>3, <2>1, SeqEqual
<1>6. QED
  BY <1>3, <1>4, <1>5 DEF t, u

\* Less than a record is saved.
LEMMA HalfKeeps ==
  ASSUME Types, OneConnection, EncoderAt, Delivered, RecvHalf
  PROVE  Delivered'
<1>1. PICK k \in 1 .. 2 : Arrives(k) /\ Len(Got(k)) < 2 /\ save' = Got(k)
                          /\ UNCHANGED <<needRestart, box, mLen, trycount, decoded>>
  BY DEF RecvHalf
<1>2. /\ k <= Len(wire) /\ wire' = SubSeq(wire, k + 1, Len(wire))
      /\ UNCHANGED <<fds, clientPid, open, backlog, doing, part, frame, index>>
  BY <1>1 DEF Arrives, acceptVars, encoderVars
<1>3. wire \in Seq(Half) /\ save \in Seq(Half)
  BY DEF Delivered
<1>4. /\ save' \in Seq(Half) /\ Len(save') <= 1 /\ wire' \in Seq(Half)
      /\ save' \o wire' = save \o wire
  <2>1. /\ Got(k) \in Seq(Half) /\ SubSeq(wire, k + 1, Len(wire)) \in Seq(Half)
        /\ Got(k) \o SubSeq(wire, k + 1, Len(wire)) = save \o wire
    BY <1>2, <1>3, GotFirst
  <2>2. Len(Got(k)) <= 1
    BY <1>1, <2>1
  <2>3. QED
    BY <1>1, <1>2, <2>1, <2>2
<1>5. ~Untouched'
  <2>1. wire # <<>>
    BY <1>2
  <2>2. ~Untouched
    BY <2>1 DEF Delivered, Rested
  <2>3. QED
    BY <1>2, <2>2 DEF Untouched, Holds
<1>6. PICK rs \in Seq(Parcels) : Pairs(save \o wire, rs) /\ Promised(rs)
  BY DEF Delivered, InStep
<1>7. Promised(rs)'
  <2>1. Coming(rs)' = Coming(rs)
    BY <1>2 DEF Coming, Record, Holds
  <2>2. Coming(rs) # <<>> => Takes(Coming(rs)[1])'
    BY <1>1, <1>6, <2>1 DEF Promised, Takes, Garbled
  <2>3. Chain(Coming(rs))'
    BY <1>6, <2>1 DEF Promised, Chain, Follows
  <2>4. QED
    BY <2>1, <2>2, <2>3 DEF Promised
<1>8. InStep'
  BY <1>4, <1>6, <1>7 DEF InStep
<1>9. Boxes' /\ HasFrame'
  BY <1>1 DEF Delivered, Boxes, HasFrame
<1>10. QED
  BY <1>4, <1>5, <1>8, <1>9 DEF Delivered

\* What recv completes is a record of the encoder: its header fits.
LEMMA FitsWhole ==
  ASSUME Delivered, NEW k \in 1 .. 2, k <= Len(wire), Len(Got(k)) >= 2,
         NEW rs \in Seq(Parcels), Pairs(save \o wire, rs)
  PROVE  /\ rs # <<>> /\ rs[1] \in Parcels /\ Tail(rs) \in Seq(Parcels)
         /\ Fits(Got(k)) /\ SubSeq(Got(k)[1], 1, 3) = rs[1]
         /\ SubSeq(Got(k), 3, Len(Got(k))) \in Seq(Half)
         /\ Len(SubSeq(Got(k), 3, Len(Got(k)))) <= 1
         /\ SubSeq(wire, k + 1, Len(wire)) \in Seq(Half)
         /\ Pairs(SubSeq(Got(k), 3, Len(Got(k))) \o SubSeq(wire, k + 1, Len(wire)), Tail(rs))
<1> DEFINE g == Got(k)
           t == SubSeq(wire, k + 1, Len(wire))
<1>1. wire \in Seq(Half) /\ save \in Seq(Half) /\ Len(save) <= 1
  BY DEF Delivered
<1>2. /\ g \in Seq(Half) /\ Len(g) = Len(save) + k /\ t \in Seq(Half)
      /\ g \o t = save \o wire /\ Len(g) >= 2
  BY <1>1, GotFirst
<1> HIDE DEF g, t
<1>3. /\ SubSeq(g, 3, Len(g)) \in Seq(Half) /\ Len(SubSeq(g, 3, Len(g))) = Len(g) - 2
      /\ Len(g \o t) >= 2 /\ (g \o t)[1] = g[1] /\ (g \o t)[2] = g[2]
      /\ SubSeq(g, 3, Len(g)) \o t = SubSeq(g \o t, 3, Len(g \o t))
  BY <1>2, RestOf
<1>4. Pairs(g \o t, rs) /\ g \o t \in Seq(Half)
  <2>1. Pairs(g \o t, rs)
    BY <1>2, Zenon
  <2>2. g \o t \in Seq(Half)
    BY <1>2, ConcatProperties
  <2>3. QED
    BY <2>1, <2>2
<1>5. /\ rs # <<>> /\ rs[1] \in Parcels /\ Tail(rs) \in Seq(Parcels)
      /\ (g \o t)[1] = rs[1] \o <<1>> /\ (g \o t)[2] = rs[1] \o <<2>>
      /\ Pairs(SubSeq(g \o t, 3, Len(g \o t)), Tail(rs))
  BY <1>3, <1>4, PairsTaken
<1>6. g[1] = rs[1] \o <<1>> /\ g[2] = rs[1] \o <<2>>
  BY <1>3, <1>5
<1>7. Fits(g) /\ SubSeq(g[1], 1, 3) = rs[1]
  BY <1>5, <1>6, HalfOf DEF Fits
<1>8. Len(SubSeq(g, 3, Len(g))) <= 1
  BY <1>1, <1>2, <1>3
<1>9. QED
  BY <1>2, <1>3, <1>5, <1>7, <1>8 DEF g, t

\* A record goes into the box.
LEMMA RecordKeeps ==
  ASSUME Types, OneConnection, EncoderAt, Delivered, RecvRecord
  PROVE  Delivered'
<1>1. PICK k \in 1 .. 2 : /\ Arrives(k) /\ Len(Got(k)) >= 2
                          /\ save' = SubSeq(Got(k), 3, Len(Got(k)))
                          /\ Fits(Got(k)) => Package(SubSeq(Got(k)[1], 1, 3))
  BY DEF RecvRecord
<1>2. /\ k <= Len(wire) /\ wire' = SubSeq(wire, k + 1, Len(wire))
      /\ UNCHANGED <<fds, clientPid, open, backlog, doing, part, frame, index>>
  BY <1>1 DEF Arrives, acceptVars, encoderVars
<1>3. PICK rs \in Seq(Parcels) : Pairs(save \o wire, rs) /\ Promised(rs)
  BY DEF Delivered, InStep
<1>4. PICK r \in Parcels : r = rs[1] /\ Package(r)
  BY <1>1, <1>2, <1>3, FitsWhole
<1>5. PICK rt \in Seq(Parcels) : rt = Tail(rs) /\ Pairs(save' \o wire', rt)
  BY <1>1, <1>2, <1>3, FitsWhole
<1>6. save' \in Seq(Half) /\ Len(save') <= 1 /\ wire' \in Seq(Half) /\ rs # <<>>
  BY <1>1, <1>2, <1>3, FitsWhole
<1>7. ~Untouched'
  <2>1. wire # <<>>
    BY <1>2
  <2>2. ~Untouched
    BY <2>1 DEF Delivered, Rested
  <2>3. QED
    BY <1>2, <2>2 DEF Untouched, Holds
<1>8. PICK c \in Seq(Parcels) : c = Coming(rs)
  <2>1. doing = "send" => Append(rs, Record) \in Seq(Parcels)
    BY RecordType
  <2>2. Coming(rs) \in Seq(Parcels)
    BY <2>1 DEF Coming
  <2>3. QED
    BY <2>2
<1>9. /\ c # <<>> /\ c[1] = r /\ Coming(rt)' = Tail(c)
  <2>1. Len(rs) \in Nat /\ Len(rs) >= 1
    BY <1>6
  <2>2. CASE doing = "send" /\ Holds(clientPid)
    <3>1. c = Append(rs, Record) /\ Coming(rt)' = Append(rt, Record) /\ Record \in Parcels
      BY <1>2, <1>8, <2>2, RecordType DEF Coming, Record, Holds
    <3>2. Tail(Append(rs, Record)) = Append(Tail(rs), Record)
      <4> DEFINE a == Tail(Append(rs, Record))
                 b == Append(Tail(rs), Record)
      <4>1. /\ a \in Seq(Parcels) /\ Len(a) = Len(rs)
            /\ b \in Seq(Parcels) /\ Len(b) = Len(rs)
        BY <2>1, <3>1
      <4>2. \A i \in 1 .. Len(rs) : a[i] = b[i]
        BY <2>1, <3>1
      <4> HIDE DEF a, b
      <4>3. a = b
        BY <4>1, <4>2, SeqEqual
      <4>4. QED
        BY <4>3 DEF a, b
    <3>3. Append(rs, Record)[1] = rs[1] /\ Len(Append(rs, Record)) = Len(rs) + 1
      BY <2>1, <3>1
    <3>4. QED
      BY <1>4, <1>5, <2>1, <3>1, <3>2, <3>3
  <2>3. CASE ~(doing = "send" /\ Holds(clientPid))
    BY <1>2, <1>4, <1>5, <1>6, <1>8, <2>3 DEF Coming, Holds
  <2>4. QED
    BY <2>2, <2>3
<1>10. Chain(c) /\ Takes(r)
  BY <1>3, <1>8, <1>9 DEF Promised
<1>11. PICK ct \in Seq(Parcels) : ct = Tail(c)
  <2>1. Tail(c) \in Seq(Parcels)
    BY <1>9
  <2>2. QED
    BY <2>1
<1>12. Chain(ct) /\ (ct # <<>> => Follows(r, ct[1]) /\ ct[1] \in Parcels)
  BY <1>9, <1>10, <1>11, ChainShorter
<1>13. /\ Boxes' /\ HasFrame'
       /\ \A q \in Parcels : Follows(r, q) => Takes(q)'
  BY <1>4, <1>10, PackageStep DEF Delivered
<1>14. Promised(rt)'
  <2>1. Coming(rt)' = ct
    BY <1>9, <1>11
  <2>2. ct # <<>> => Takes(ct[1])'
    BY <1>12, <1>13
  <2>3. Chain(ct)'
    BY <1>12 DEF Chain, Follows
  <2>4. QED
    BY <2>1, <2>2, <2>3 DEF Promised
<1>15. InStep'
  BY <1>5, <1>14 DEF InStep
<1>16. QED
  BY <1>6, <1>7, <1>13, <1>15 DEF Delivered

\* Two halves that do not fit never meet while nothing is spoilt.
LEMMA NoBadRecord == Delivered => ~RecvBad
<1> SUFFICES ASSUME Delivered, RecvBad
             PROVE  FALSE
  OBVIOUS
<1>1. PICK k \in 1 .. 2 : k <= Len(wire) /\ Len(Got(k)) >= 2 /\ ~Fits(Got(k))
  BY DEF RecvBad, Arrives
<1>2. PICK rs \in Seq(Parcels) : Pairs(save \o wire, rs)
  BY DEF Delivered, InStep
<1>3. QED
  BY <1>1, <1>2, FitsWhole

-----------------------------------------------------------------------------
(* What the decoder is given *)

LEMMA FramesInit == Init => FramesInv
<1> SUFFICES ASSUME Init
             PROVE  FramesInv
  OBVIOUS
<1>1. Types
  BY LinkInit DEF LinkInv
<1>2. EncoderAt
  <2>1. frame = Frames - 1 /\ index = 1 /\ doing = "idle" /\ spoilt = FALSE
    BY DEF Init, ServerInit
  <2>2. Frames \in Nat /\ Frames >= 1
    BY LinkAssumption
  <2>3. frame \in 0 .. Frames - 1
    BY <2>1, <2>2
  <2>4. QED
    BY <2>1, <2>3 DEF EncoderAt
<1>3. /\ wire = <<>> /\ save = <<>> /\ box = <<>> /\ mLen = 0 /\ needRestart = TRUE
  BY DEF Init
<1>4. Boxes /\ HasFrame /\ Rested
  BY <1>3 DEF Boxes, HasFrame, Rested
<1>5. wire \in Seq(Half) /\ save \in Seq(Half) /\ Len(save) <= 1
  BY <1>3
<1>6. Delivered
  BY <1>1, <1>2, <1>4, <1>5, RestedInStep DEF Delivered
<1>7. QED
  BY <1>2, <1>6 DEF FramesInv

LEMMA FramesStep == LinkInv /\ LinkInv' /\ FramesInv /\ [Next]_vars => FramesInv'
<1> SUFFICES ASSUME LinkInv, LinkInv', FramesInv, [Next]_vars, ~spoilt'
             PROVE  FramesInv'
  BY EncoderAtStep DEF FramesInv, LinkInv
<1>1. EncoderAt /\ EncoderAt' /\ spoilt \in BOOLEAN
  BY EncoderAtStep DEF FramesInv, LinkInv, EncoderAt
<1>2. /\ Types /\ Reused /\ OneConnection
      /\ Types' /\ OneConnection'
  BY DEF LinkInv
<1>3. CASE ServerGone \/ GiveUp \/ TimeOut
  BY <1>1, <1>2, <1>3, LeaveKeeps DEF FramesInv
<1>4. CASE ~(ServerGone \/ GiveUp \/ TimeOut)
  <2>1. Delivered
    <3>1. SendToClient => spoilt' = spoilt \/ spoilt' = TRUE
      BY DEF SendToClient
    <3>2. ASSUME NEW k \in 1 .. 2, Arrives(k) PROVE spoilt' = spoilt
      BY <3>2 DEF Arrives
    <3>3. RecvHalf \/ RecvRecord \/ RecvBad => spoilt' = spoilt
      BY <3>2 DEF RecvHalf, RecvRecord, RecvBad
    <3>4. /\ GetFrame \/ SendToNobody \/ Killed => spoilt' = spoilt
          /\ Start \/ CloseClient \/ ForgetClient => spoilt' = spoilt
          /\ Select \/ Accept \/ Assign \/ ConnectServer => spoilt' = spoilt
      BY DEF GetFrame, SendToNobody, Killed, Start, CloseClient, ForgetClient, Select,
             Accept, Assign, ConnectServer
    <3>5. UNCHANGED vars => spoilt' = spoilt
      BY DEF vars
    <3>6. ~spoilt
      BY <1>4, <3>1, <3>3, <3>4, <3>5 DEF Next, Encoder, AcceptLoop, Client
    <3>7. QED
      BY <3>6 DEF FramesInv
  <2>2. CASE GetFrame
    BY <1>1, <1>2, <2>1, <2>2, GetFrameKeeps DEF FramesInv
  <2>3. CASE SendToClient
    BY <1>1, <1>2, <2>1, <2>3, SendKeeps DEF FramesInv
  <2>4. CASE SendToNobody \/ Killed \/ CloseClient \/ ForgetClient \/ Select
    BY <1>1, <1>2, <2>1, <2>4, ServerKeeps DEF FramesInv
  <2>5. CASE Start \/ UNCHANGED vars
    BY <1>1, <1>2, <2>1, <2>5, IdleKeeps DEF FramesInv
  <2>6. CASE Accept
    BY <1>1, <1>2, <2>1, <2>6, AcceptKeeps DEF FramesInv
  <2>7. CASE Assign
    BY <1>1, <1>2, <2>1, <2>7, AssignKeeps DEF FramesInv
  <2>8. CASE ConnectServer
    BY <1>1, <1>2, <2>1, <2>8, ConnectKeeps DEF FramesInv
  <2>9. CASE RecvHalf
    BY <1>1, <1>2, <2>1, <2>9, HalfKeeps DEF FramesInv
  <2>10. CASE RecvRecord
    BY <1>1, <1>2, <2>1, <2>10, RecordKeeps DEF FramesInv
  <2>11. QED
    BY <1>4, <2>1, <2>2, <2>3, <2>4, <2>5, <2>6, <2>7, <2>8, <2>9, <2>10, NoBadRecord
       DEF Next, Encoder, AcceptLoop, Client
<1>5. QED
  BY <1>3, <1>4

\* Only a record changes what the decoder has.
LEMMA DecoderStep ==
  ASSUME FramesInv, [Next]_vars, decoded' # decoded, ~spoilt
  PROVE  LET d == decoded'[1]
         IN  decoded' = [i \in 1 .. Size(d[1]) |-> <<d[1], d[2], i>>]
<1>1. RecvRecord
  <2>1. ~(GetFrame \/ SendToClient \/ SendToNobody \/ Killed \/ CloseClient \/ ForgetClient)
    BY DEF GetFrame, SendToClient, SendToNobody, Killed, CloseClient, ForgetClient,
           clientVars
  <2>2. ~(Start \/ Select \/ Accept \/ Assign \/ ConnectServer)
    BY DEF Start, Select, Accept, Assign, ConnectServer, clientVars
  <2>3. ~(ServerGone \/ TimeOut \/ RecvHalf \/ RecvBad \/ GiveUp)
    BY DEF ServerGone, TimeOut, RecvHalf, RecvBad, GiveUp, CloseServer
  <2>4. ~UNCHANGED vars
    BY DEF vars, clientVars
  <2>5. QED
    BY <2>1, <2>2, <2>3, <2>4 DEF Next, Encoder, AcceptLoop, Client
<1>2. HasFrame
  BY DEF FramesInv, Delivered
<1>3. PICK r : Package(r)
  BY <1>1 DEF RecvRecord
<1>4. QED
  BY <1>2, <1>3, DecoderGets

\* What the decoder is given is the header of an I frame or all the records of a
\* frame in their order, for any number of records, however the records are cut
\* on their way and clients are replaced in the middle of a frame, unless a send
\* was cut short or the client has timed out in the middle of one
\* (tcp_client.c: getDataToVDEC).
THEOREM DecoderGetsWholeFrames == Spec => WholeFrames
<1>1. LinkInv /\ LinkInv' /\ FramesInv /\ [Next]_vars => FramesInv'
  BY FramesStep
<1>2. FramesInv /\ [Next]_vars =>
        (decoded' # decoded /\ ~spoilt =>
           LET r == decoded'[1]
           IN  decoded' = [i \in 1 .. Size(r[1]) |-> <<r[1], r[2], i>>])
  BY DecoderStep
<1>3. QED
  BY <1>1, <1>2, FramesInit, LinkInvariant, PTL DEF Spec, WholeFrames

=============================================================================
